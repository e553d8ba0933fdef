----------------------------- MODULE EngineLemmas -----------------------------
(***************************************************************************)
(* What each call of the engine keeps, for any sizes of the book, stop     *)
(* pool and ring and whatever the trees of levels do.  EInv(v, e) says     *)
(* of an engine e that it is well typed, that ids and times are handed out *)
(* once, and that a consumer who knew v and was then handed what is in the *)
(* queue knows the book, the dormant stops and the snapshot of the top;    *)
(* Bounded(e), that prices and the queue are within their bounds.  At the  *)
(* end, what a fill makes of the portfolio of an account.                  *)
(***************************************************************************)
EXTENDS EventConsumer, FiniteSums, SequenceTheorems, Portfolio

-----------------------------------------------------------------------------
(* Loops.  Each is a recursive function on 0..n, and such a function       *)
(* exists because it can be continued from n to n + 1.                     *)

(* The loop of Match. *)
FillLoop(g, N, R, side, price, qty) ==
  g = [n \in 0..N |-> IF n = 0 THEN [resting |-> R, left |-> qty, fills |-> <<>>]
                      ELSE NextFill(g[n - 1], side, price)]

(* The recursive function of Match. *)
LEMMA FillLoopExists ==
  ASSUME NEW R, NEW side, NEW price, NEW qty, NEW N \in Nat
  PROVE  \E g : FillLoop(g, N, R, side, price, qty)
<1> DEFINE base == [resting |-> R, left |-> qty, fills |-> <<>>]
           step(n, x) == NextFill(x, side, price)
           G == {n \in Nat : \E g : FillLoop(g, n, R, side, price, qty)}
<1>1. 0 \in G
  <2> DEFINE g == [n \in 0..0 |-> base]
  <2>1. g = [n \in 0..0 |-> IF n = 0 THEN base ELSE step(n, g[n - 1])]
    <3> HIDE DEF base, step
    <3> QED
      OBVIOUS
  <2> QED
    BY <2>1, Zenon DEF FillLoop
<1>2. ASSUME NEW n \in Nat, n \in G PROVE n + 1 \in G
  <2>1. PICK g : FillLoop(g, n, R, side, price, qty)
    BY <1>2
  <2>2. g = [m \in 0..n |-> IF m = 0 THEN base ELSE step(m, g[m - 1])]
    BY <2>1, Zenon DEF FillLoop
  <2> HIDE DEF base, step
  <2> DEFINE h == [m \in 0..(n + 1) |-> IF m = 0 THEN base ELSE step(m, g[m - 1])]
  <2>3. \A m \in 0..n : h[m] = g[m]
    <3>1. \A m \in 0..n : g[m] = IF m = 0 THEN base ELSE step(m, g[m - 1])
      BY <2>2, Zenon
    <3>2. \A m \in 0..n : m \in 0..(n + 1)
      OBVIOUS
    <3> QED
      BY <3>1, <3>2, Zenon
  <2>4. \A m \in 0..(n + 1) : m # 0 => h[m - 1] = g[m - 1]
    <3>1. \A m \in 0..(n + 1) : m # 0 => m - 1 \in 0..n
      OBVIOUS
    <3> HIDE DEF h
    <3> QED
      BY <2>3, <3>1
  <2>5. h = [m \in 0..(n + 1) |-> IF m = 0 THEN base ELSE step(m, h[m - 1])]
    <3> DEFINE F == [m \in 0..(n + 1) |-> IF m = 0 THEN base ELSE step(m, h[m - 1])]
    <3>1. \A m \in 0..(n + 1) : (IF m = 0 THEN base ELSE step(m, g[m - 1]))
                               = IF m = 0 THEN base ELSE step(m, h[m - 1])
      <4> HIDE DEF h
      <4> QED
        BY <2>4, Zenon
    <3>2. \A m \in 0..(n + 1) : h[m] = F[m]
      BY <3>1, Zenon
    <3>3. DOMAIN h = 0..(n + 1) /\ DOMAIN F = 0..(n + 1)
      OBVIOUS
    <3>4. h = [m \in DOMAIN h |-> h[m]] /\ F = [m \in DOMAIN F |-> F[m]]
      OBVIOUS
    <3> HIDE DEF F, h
    <3>5. h = F
      BY <3>2, <3>3, <3>4
    <3> QED
      BY <3>5 DEF F
  <2>6. FillLoop(h, n + 1, R, side, price, qty)
    <3> HIDE DEF h
    <3> QED
      BY <2>5, Zenon DEF FillLoop, base, step
  <2> HIDE DEF h
  <2> QED
    BY <2>6
<1>3. Nat \subseteq G
  <2> HIDE DEF G
  <2> QED
    BY <1>1, <1>2, SetOfNats
<1> QED
  BY <1>3

(* Match is the last turn of the loop, which starts with the resting       *)
(* orders and makes one NextFill after the other.                          *)
FillRun(g, m, N, R, side, price, qty) ==
  /\ g[0] = [resting |-> R, left |-> qty, fills |-> <<>>]
  /\ \A n \in 1..N : g[n] = NextFill(g[n - 1], side, price)
  /\ m = g[N]

(* The run of Match. *)
LEMMA MatchIs ==
  ASSUME NEW R, NEW side, NEW price, NEW qty, Cardinality(R) \in Nat
  PROVE  \E g : FillRun(g, Match(R, side, price, qty), Cardinality(R), R, side, price, qty)
<1> DEFINE N == Cardinality(R)
           g == CHOOSE g : FillLoop(g, N, R, side, price, qty)
<1>1. Match(R, side, price, qty) = g[Cardinality(R)]
  BY Zenon DEF Match, FillLoop
<1>2. FillLoop(g, N, R, side, price, qty)
  BY FillLoopExists, Zenon
<1>3. \A n \in 0..N : g[n] = IF n = 0 THEN [resting |-> R, left |-> qty, fills |-> <<>>]
                            ELSE NextFill(g[n - 1], side, price)
  <2> HIDE DEF g
  <2> QED
    BY <1>2, Zenon DEF FillLoop
<1> HIDE DEF g
<1>4. 0 \in 0..N /\ \A n \in 1..N : n \in 0..N /\ n # 0
  OBVIOUS
<1>5. g[0] = [resting |-> R, left |-> qty, fills |-> <<>>]
  BY <1>3, <1>4, Zenon
<1>6. \A n \in 1..N : g[n] = NextFill(g[n - 1], side, price)
  BY <1>3, <1>4, Zenon
<1> QED
  BY <1>1, <1>5, <1>6, Zenon DEF FillRun

(* The loop of TradesTold. *)
TradeLoop(g, N, b, side) ==
  g = [n \in 0..N |-> IF n = 0 THEN [e |-> b.e, filled |-> 0]
                      ELSE NextTrade(g[n - 1], b.id, side, b.fills[n])]

(* The recursive function of TradesTold. *)
LEMMA TradeLoopExists ==
  ASSUME NEW b, NEW side, NEW N \in Nat
  PROVE  \E g : TradeLoop(g, N, b, side)
<1> DEFINE base == [e |-> b.e, filled |-> 0]
           step(n, x) == NextTrade(x, b.id, side, b.fills[n])
           G == {n \in Nat : \E g : TradeLoop(g, n, b, side)}
<1>1. 0 \in G
  <2> DEFINE g == [n \in 0..0 |-> base]
  <2>1. g = [n \in 0..0 |-> IF n = 0 THEN base ELSE step(n, g[n - 1])]
    <3> HIDE DEF base, step
    <3> QED
      OBVIOUS
  <2> QED
    BY <2>1, Zenon DEF TradeLoop
<1>2. ASSUME NEW n \in Nat, n \in G PROVE n + 1 \in G
  <2>1. PICK g : TradeLoop(g, n, b, side)
    BY <1>2
  <2>2. g = [m \in 0..n |-> IF m = 0 THEN base ELSE step(m, g[m - 1])]
    BY <2>1, Zenon DEF TradeLoop
  <2> HIDE DEF base, step
  <2> DEFINE h == [m \in 0..(n + 1) |-> IF m = 0 THEN base ELSE step(m, g[m - 1])]
  <2>3. \A m \in 0..n : h[m] = g[m]
    <3>1. \A m \in 0..n : g[m] = IF m = 0 THEN base ELSE step(m, g[m - 1])
      BY <2>2, Zenon
    <3>2. \A m \in 0..n : m \in 0..(n + 1)
      OBVIOUS
    <3> QED
      BY <3>1, <3>2, Zenon
  <2>4. \A m \in 0..(n + 1) : m # 0 => h[m - 1] = g[m - 1]
    <3>1. \A m \in 0..(n + 1) : m # 0 => m - 1 \in 0..n
      OBVIOUS
    <3> HIDE DEF h
    <3> QED
      BY <2>3, <3>1
  <2>5. h = [m \in 0..(n + 1) |-> IF m = 0 THEN base ELSE step(m, h[m - 1])]
    <3> DEFINE F == [m \in 0..(n + 1) |-> IF m = 0 THEN base ELSE step(m, h[m - 1])]
    <3>1. \A m \in 0..(n + 1) : (IF m = 0 THEN base ELSE step(m, g[m - 1]))
                               = IF m = 0 THEN base ELSE step(m, h[m - 1])
      <4> HIDE DEF h
      <4> QED
        BY <2>4, Zenon
    <3>2. \A m \in 0..(n + 1) : h[m] = F[m]
      BY <3>1, Zenon
    <3>3. DOMAIN h = 0..(n + 1) /\ DOMAIN F = 0..(n + 1)
      OBVIOUS
    <3>4. h = [m \in DOMAIN h |-> h[m]] /\ F = [m \in DOMAIN F |-> F[m]]
      OBVIOUS
    <3> HIDE DEF F, h
    <3>5. h = F
      BY <3>2, <3>3, <3>4
    <3> QED
      BY <3>5 DEF F
  <2>6. TradeLoop(h, n + 1, b, side)
    <3> HIDE DEF h
    <3> QED
      BY <2>5, Zenon DEF TradeLoop, base, step
  <2> HIDE DEF h
  <2> QED
    BY <2>6
<1>3. Nat \subseteq G
  <2> HIDE DEF G
  <2> QED
    BY <1>1, <1>2, SetOfNats
<1> QED
  BY <1>3

(* TradesTold tells one fill after the other. *)
LEMMA TradedIs ==
  ASSUME NEW b, NEW side, Len(b.fills) \in Nat
  PROVE  \E g : /\ g[0] = [e |-> b.e, filled |-> 0]
                /\ \A n \in 1..Len(b.fills) : g[n] = NextTrade(g[n - 1], b.id, side, b.fills[n])
                /\ TradesTold(b, side) = g[Len(b.fills)]
<1> DEFINE N == Len(b.fills)
           g == CHOOSE g : TradeLoop(g, N, b, side)
<1>1. TradesTold(b, side) = g[Len(b.fills)]
  BY Zenon DEF TradesTold, TradeLoop
<1>2. TradeLoop(g, N, b, side)
  BY TradeLoopExists, Zenon
<1>3. \A n \in 0..N : g[n] = IF n = 0 THEN [e |-> b.e, filled |-> 0]
                            ELSE NextTrade(g[n - 1], b.id, side, b.fills[n])
  <2> HIDE DEF g
  <2> QED
    BY <1>2, Zenon DEF TradeLoop
<1> HIDE DEF g
<1>4. 0 \in 0..N /\ \A n \in 1..N : n \in 0..N /\ n # 0
  OBVIOUS
<1>5. g[0] = [e |-> b.e, filled |-> 0]
  BY <1>3, <1>4, Zenon
<1>6. \A n \in 1..N : g[n] = NextTrade(g[n - 1], b.id, side, b.fills[n])
  BY <1>3, <1>4, Zenon
<1> QED
  BY <1>1, <1>5, <1>6, Zenon

(* The loop of me_expire_orders. *)
ExpiryLoop(g, N, e, due) ==
  g = [n \in 0..N |-> IF n = 0 THEN e
                      ELSE IF n \in due THEN WithdrawStop(g[n - 1], n) ELSE g[n - 1]]

(* The recursive function of me_expire_orders. *)
LEMMA ExpiryLoopExists ==
  ASSUME NEW e, NEW due, NEW N \in Nat
  PROVE  \E g : ExpiryLoop(g, N, e, due)
<1> DEFINE base == e
           step(n, x) == IF n \in due THEN WithdrawStop(x, n) ELSE x
           G == {n \in Nat : \E g : ExpiryLoop(g, n, e, due)}
<1>1. 0 \in G
  <2> DEFINE g == [n \in 0..0 |-> base]
  <2>1. g = [n \in 0..0 |-> IF n = 0 THEN base ELSE step(n, g[n - 1])]
    <3> HIDE DEF base, step
    <3> QED
      OBVIOUS
  <2> QED
    BY <2>1, Zenon DEF ExpiryLoop
<1>2. ASSUME NEW n \in Nat, n \in G PROVE n + 1 \in G
  <2>1. PICK g : ExpiryLoop(g, n, e, due)
    BY <1>2
  <2>2. g = [m \in 0..n |-> IF m = 0 THEN base ELSE step(m, g[m - 1])]
    BY <2>1, Zenon DEF ExpiryLoop
  <2> HIDE DEF base, step
  <2> DEFINE h == [m \in 0..(n + 1) |-> IF m = 0 THEN base ELSE step(m, g[m - 1])]
  <2>3. \A m \in 0..n : h[m] = g[m]
    <3>1. \A m \in 0..n : g[m] = IF m = 0 THEN base ELSE step(m, g[m - 1])
      BY <2>2, Zenon
    <3>2. \A m \in 0..n : m \in 0..(n + 1)
      OBVIOUS
    <3> QED
      BY <3>1, <3>2, Zenon
  <2>4. \A m \in 0..(n + 1) : m # 0 => h[m - 1] = g[m - 1]
    <3>1. \A m \in 0..(n + 1) : m # 0 => m - 1 \in 0..n
      OBVIOUS
    <3> HIDE DEF h
    <3> QED
      BY <2>3, <3>1
  <2>5. h = [m \in 0..(n + 1) |-> IF m = 0 THEN base ELSE step(m, h[m - 1])]
    <3> DEFINE F == [m \in 0..(n + 1) |-> IF m = 0 THEN base ELSE step(m, h[m - 1])]
    <3>1. \A m \in 0..(n + 1) : (IF m = 0 THEN base ELSE step(m, g[m - 1]))
                               = IF m = 0 THEN base ELSE step(m, h[m - 1])
      <4> HIDE DEF h
      <4> QED
        BY <2>4, Zenon
    <3>2. \A m \in 0..(n + 1) : h[m] = F[m]
      BY <3>1, Zenon
    <3>3. DOMAIN h = 0..(n + 1) /\ DOMAIN F = 0..(n + 1)
      OBVIOUS
    <3>4. h = [m \in DOMAIN h |-> h[m]] /\ F = [m \in DOMAIN F |-> F[m]]
      OBVIOUS
    <3> HIDE DEF F, h
    <3>5. h = F
      BY <3>2, <3>3, <3>4
    <3> QED
      BY <3>5 DEF F
  <2>6. ExpiryLoop(h, n + 1, e, due)
    <3> HIDE DEF h
    <3> QED
      BY <2>5, Zenon DEF ExpiryLoop, base, step
  <2> HIDE DEF h
  <2> QED
    BY <2>6
<1>3. Nat \subseteq G
  <2> HIDE DEF G
  <2> QED
    BY <1>1, <1>2, SetOfNats
<1> QED
  BY <1>3

(* me_expire_orders looks at one slot after the other. *)
LEMMA ExpiryIs ==
  ASSUME NEW e, NEW due, ME_MAX_STOPS \in Nat
  PROVE  \E g : /\ g[0] = e
                /\ \A n \in 1..ME_MAX_STOPS : g[n] = IF n \in due THEN WithdrawStop(g[n - 1], n) ELSE g[n - 1]
                /\ me_expire_orders(e, due) = maybe_emit_tob(g[ME_MAX_STOPS])
<1> DEFINE N == ME_MAX_STOPS
           g == CHOOSE g : ExpiryLoop(g, N, e, due)
<1>1. me_expire_orders(e, due) = maybe_emit_tob(g[ME_MAX_STOPS])
  BY Zenon DEF me_expire_orders, ExpiryLoop
<1>2. ExpiryLoop(g, N, e, due)
  BY ExpiryLoopExists, Zenon
<1>3. \A n \in 0..N : g[n] = IF n = 0 THEN e
                            ELSE IF n \in due THEN WithdrawStop(g[n - 1], n) ELSE g[n - 1]
  <2> HIDE DEF g
  <2> QED
    BY <1>2, Zenon DEF ExpiryLoop
<1> HIDE DEF g
<1>4. 0 \in 0..N /\ \A n \in 1..N : n \in 0..N /\ n # 0
  OBVIOUS
<1>5. g[0] = e
  BY <1>3, <1>4, Zenon
<1>6. \A n \in 1..N : g[n] = IF n \in due THEN WithdrawStop(g[n - 1], n) ELSE g[n - 1]
  BY <1>3, <1>4, Zenon
<1> QED
  BY <1>1, <1>5, <1>6, Zenon

(* The loop of Learnt. *)
LearnLoop(g, N, v, evs) ==
  g = [n \in 0..N |-> IF n = 0 THEN v
                      ELSE Learn(g[n - 1], evs[n])]

(* The recursive function of Learnt. *)
LEMMA LearnLoopExists ==
  ASSUME NEW v, NEW evs, NEW N \in Nat
  PROVE  \E g : LearnLoop(g, N, v, evs)
<1> DEFINE base == v
           step(n, x) == Learn(x, evs[n])
           G == {n \in Nat : \E g : LearnLoop(g, n, v, evs)}
<1>1. 0 \in G
  <2> DEFINE g == [n \in 0..0 |-> base]
  <2>1. g = [n \in 0..0 |-> IF n = 0 THEN base ELSE step(n, g[n - 1])]
    <3> HIDE DEF base, step
    <3> QED
      OBVIOUS
  <2> QED
    BY <2>1, Zenon DEF LearnLoop
<1>2. ASSUME NEW n \in Nat, n \in G PROVE n + 1 \in G
  <2>1. PICK g : LearnLoop(g, n, v, evs)
    BY <1>2
  <2>2. g = [m \in 0..n |-> IF m = 0 THEN base ELSE step(m, g[m - 1])]
    BY <2>1, Zenon DEF LearnLoop
  <2> HIDE DEF base, step
  <2> DEFINE h == [m \in 0..(n + 1) |-> IF m = 0 THEN base ELSE step(m, g[m - 1])]
  <2>3. \A m \in 0..n : h[m] = g[m]
    <3>1. \A m \in 0..n : g[m] = IF m = 0 THEN base ELSE step(m, g[m - 1])
      BY <2>2, Zenon
    <3>2. \A m \in 0..n : m \in 0..(n + 1)
      OBVIOUS
    <3> QED
      BY <3>1, <3>2, Zenon
  <2>4. \A m \in 0..(n + 1) : m # 0 => h[m - 1] = g[m - 1]
    <3>1. \A m \in 0..(n + 1) : m # 0 => m - 1 \in 0..n
      OBVIOUS
    <3> HIDE DEF h
    <3> QED
      BY <2>3, <3>1
  <2>5. h = [m \in 0..(n + 1) |-> IF m = 0 THEN base ELSE step(m, h[m - 1])]
    <3> DEFINE F == [m \in 0..(n + 1) |-> IF m = 0 THEN base ELSE step(m, h[m - 1])]
    <3>1. \A m \in 0..(n + 1) : (IF m = 0 THEN base ELSE step(m, g[m - 1]))
                               = IF m = 0 THEN base ELSE step(m, h[m - 1])
      <4> HIDE DEF h
      <4> QED
        BY <2>4, Zenon
    <3>2. \A m \in 0..(n + 1) : h[m] = F[m]
      BY <3>1, Zenon
    <3>3. DOMAIN h = 0..(n + 1) /\ DOMAIN F = 0..(n + 1)
      OBVIOUS
    <3>4. h = [m \in DOMAIN h |-> h[m]] /\ F = [m \in DOMAIN F |-> F[m]]
      OBVIOUS
    <3> HIDE DEF F, h
    <3>5. h = F
      BY <3>2, <3>3, <3>4
    <3> QED
      BY <3>5 DEF F
  <2>6. LearnLoop(h, n + 1, v, evs)
    <3> HIDE DEF h
    <3> QED
      BY <2>5, Zenon DEF LearnLoop, base, step
  <2> HIDE DEF h
  <2> QED
    BY <2>6
<1>3. Nat \subseteq G
  <2> HIDE DEF G
  <2> QED
    BY <1>1, <1>2, SetOfNats
<1> QED
  BY <1>3

(* Learnt learns one event after the other. *)
LEMMA LearntIs ==
  ASSUME NEW v, NEW evs, Len(evs) \in Nat
  PROVE  \E g : /\ g[0] = v
                /\ \A n \in 1..Len(evs) : g[n] = Learn(g[n - 1], evs[n])
                /\ Learnt(v, evs) = g[Len(evs)]
<1> DEFINE N == Len(evs)
           g == CHOOSE g : LearnLoop(g, N, v, evs)
<1>1. Learnt(v, evs) = g[Len(evs)]
  BY Zenon DEF Learnt, LearnLoop
<1>2. LearnLoop(g, N, v, evs)
  BY LearnLoopExists, Zenon
<1>3. \A n \in 0..N : g[n] = IF n = 0 THEN v
                            ELSE Learn(g[n - 1], evs[n])
  <2> HIDE DEF g
  <2> QED
    BY <1>2, Zenon DEF LearnLoop
<1> HIDE DEF g
<1>4. 0 \in 0..N /\ \A n \in 1..N : n \in 0..N /\ n # 0
  OBVIOUS
<1>5. g[0] = v
  BY <1>3, <1>4, Zenon
<1>6. \A n \in 1..N : g[n] = Learn(g[n - 1], evs[n])
  BY <1>3, <1>4, Zenon
<1> QED
  BY <1>1, <1>5, <1>6, Zenon
-----------------------------------------------------------------------------
(* The event ring. *)

IsSeq(s) == s \in Seq({s[k] : k \in 1..Len(s)})

(* Appending to a sequence whose elements have no type. *)
LEMMA AppendIs ==
  ASSUME NEW s, IsSeq(s), NEW x
  PROVE  /\ Len(s) \in Nat /\ Len(Append(s, x)) = Len(s) + 1
         /\ \A k \in 1..Len(s) : Append(s, x)[k] = s[k]
         /\ Append(s, x)[Len(s) + 1] = x
         /\ IsSeq(Append(s, x))
<1> DEFINE S == {s[k] : k \in 1..Len(s)} \cup {x}
           t == Append(s, x)
<1>1. s \in Seq(S) /\ x \in S
  <2>1. s \in Seq({s[k] : k \in 1..Len(s)})
    BY DEF IsSeq
  <2>2. {s[k] : k \in 1..Len(s)} \subseteq S
    OBVIOUS
  <2> HIDE DEF S
  <2>3. s \in Seq(S)
    BY <2>1, <2>2
  <2>4. x \in S
    BY DEF S
  <2> QED
    BY <2>3, <2>4
<1> HIDE DEF S
<1>2. /\ Len(s) \in Nat /\ Len(t) = Len(s) + 1
      /\ \A k \in 1..Len(s) : t[k] = s[k]
      /\ t[Len(s) + 1] = x
      /\ t \in Seq(S)
  BY <1>1
<1> HIDE DEF t
<1>3. t \in Seq({t[k] : k \in 1..Len(t)})
  <2>1. \A k \in 1..Len(t) : t[k] \in {t[j] : j \in 1..Len(t)}
    OBVIOUS
  <2> DEFINE U == {t[j] : j \in 1..Len(t)}
  <2>2. Len(t) \in Nat /\ t = [k \in 1..Len(t) |-> t[k]]
    BY <1>2
  <2>3. \A k \in 1..Len(t) : t[k] \in U
    BY <2>1
  <2> HIDE DEF U
  <2>4. t \in [1..Len(t) -> U]
    BY <2>2, <2>3
  <2>5. t \in Seq(U)
    BY <2>2, <2>4
  <2> QED
    BY <2>5 DEF U
<1> QED
  BY <1>2, <1>3 DEF t, IsSeq

(* A sequence without its first element. *)
LEMMA TailIs ==
  ASSUME NEW s, IsSeq(s), s # <<>>
  PROVE  /\ IsSeq(Tail(s)) /\ Len(s) \in Nat /\ Len(Tail(s)) = Len(s) - 1 /\ Len(s) > 0
         /\ \A i \in 1..(Len(s) - 1) : Tail(s)[i] = s[i + 1]
<1> DEFINE S == {s[k] : k \in 1..Len(s)}
           t == Tail(s)
<1>1. s \in Seq(S)
  BY DEF IsSeq
<1> HIDE DEF S
<1>2. /\ t \in Seq(S) /\ Len(s) \in Nat /\ Len(t) = Len(s) - 1 /\ Len(s) > 0
      /\ \A i \in 1..(Len(s) - 1) : t[i] = s[i + 1]
  BY <1>1
<1> HIDE DEF t
<1>3. t \in Seq({t[k] : k \in 1..Len(t)})
  BY <1>2
<1> QED
  BY <1>2, <1>3 DEF t, IsSeq

(* Learning from no event, and from one event more. *)
LEMMA LearntAppend ==
  ASSUME NEW v, NEW s, IsSeq(s), NEW ev
  PROVE  Learnt(v, Append(s, ev)) = Learn(Learnt(v, s), ev)
<1> DEFINE N == Len(s)
           t == Append(s, ev)
<1>1. /\ N \in Nat /\ Len(t) = N + 1 /\ t[N + 1] = ev
      /\ \A k \in 1..N : t[k] = s[k]
  BY AppendIs
<1> HIDE DEF t
<1>2. PICK g : /\ g[0] = v /\ Learnt(v, s) = g[N]
               /\ \A n \in 1..N : g[n] = Learn(g[n - 1], s[n])
  BY <1>1, LearntIs
<1>3. PICK h : /\ h[0] = v /\ Learnt(v, t) = h[N + 1]
               /\ \A n \in 1..(N + 1) : h[n] = Learn(h[n - 1], t[n])
  <2> DEFINE M == Len(t)
  <2>1. M \in Nat
    BY <1>1
  <2>2. \E h : /\ h[0] = v
               /\ \A n \in 1..M : h[n] = Learn(h[n - 1], t[n])
               /\ Learnt(v, t) = h[M]
    BY <2>1, LearntIs
  <2> QED
    BY <1>1, <2>2
<1> DEFINE G == {n \in Nat : n <= N => h[n] = g[n]}
<1>4. 0 \in G
  BY <1>2, <1>3
<1>5. ASSUME NEW n \in Nat, n \in G PROVE n + 1 \in G
  <2> SUFFICES ASSUME n + 1 <= N PROVE h[n + 1] = g[n + 1]
    OBVIOUS
  <2>1. n <= N /\ n + 1 \in 1..N /\ n + 1 \in 1..(N + 1) /\ (n + 1) - 1 = n
    BY <1>1
  <2>2. h[n] = g[n]
    BY <1>5, <2>1
  <2>3. h[n + 1] = Learn(h[n], t[n + 1]) /\ g[n + 1] = Learn(g[n], s[n + 1])
    <3>1. h[n + 1] = Learn(h[(n + 1) - 1], t[n + 1])
      BY <1>3, <2>1, Zenon
    <3>2. g[n + 1] = Learn(g[(n + 1) - 1], s[n + 1])
      BY <1>2, <2>1, Zenon
    <3> QED
      BY <2>1, <3>1, <3>2
  <2> QED
    BY <1>1, <2>1, <2>2, <2>3
<1>6. Nat \subseteq G
  <2> HIDE DEF G
  <2> QED
    BY <1>4, <1>5, SetOfNats
<1>7. h[N] = g[N]
  BY <1>1, <1>6
<1>8. N + 1 \in 1..(N + 1) /\ (N + 1) - 1 = N
  BY <1>1
<1>9. h[N + 1] = Learn(h[(N + 1) - 1], t[N + 1])
  BY <1>3, <1>8, Zenon
<1> QED
  BY <1>1, <1>2, <1>3, <1>7, <1>8, <1>9 DEF t

(* No event, nothing learnt. *)
LEMMA LearntNothing == ASSUME NEW v PROVE Learnt(v, <<>>) = v
<1> DEFINE s == <<>>
<1>1. Len(s) = 0 /\ Len(s) \in Nat
  OBVIOUS
<1> HIDE DEF s
<1>2. PICK g : g[0] = v /\ Learnt(v, s) = g[Len(s)]
  BY <1>1, LearntIs
<1> QED
  BY <1>1, <1>2 DEF s
-----------------------------------------------------------------------------
(* The invariant of an engine. *)

Order == [id : Nat \ {0}, side : Side, price : Nat, qty : Nat \ {0}, ts : Nat]

Stop == [active : {TRUE}, id : Nat \ {0}, side : Side, orig_type : {"STOP", "STOP_LIMIT"},
         trigger : Nat, limit : Nat, qty : Nat \ {0}, ttl : BOOLEAN]

EngineFields ==
  {"resting", "roots", "next_order_id", "clock", "stops", "last_trade_price", "last_taker",
   "lost", "eq", "dropped", "out", "last_tob"}

Ids(R) == {o.id : o \in R}

StopIds(e) == {e.stops[i].id : i \in ActiveStops(e)}

(* The types of an engine. *)
EngineTyped(e) ==
  /\ DOMAIN e = EngineFields
  /\ e.resting \subseteq Order /\ IsFiniteSet(e.resting)
  /\ e.next_order_id \in Nat \ {0} /\ e.clock \in Nat
  /\ e.stops \in [Slots -> Stop \cup {NoStop}]
  /\ e.last_trade_price \in Nat /\ e.last_taker \in Nat
  /\ e.lost \subseteq Nat
  /\ IsSeq(e.eq) /\ e.dropped \in Nat

(* Orders have ids and times of their own, and none from the future. *)
Apart(R, next, clock) ==
  /\ \A o \in R : o.id < next /\ o.ts <= clock
  /\ \A o, w \in R : o.id = w.id \/ o.ts = w.ts => o = w

(* No id of an order, a stop or a lost order is handed out twice. *)
Numbered(e) ==
  /\ Apart(e.resting, e.next_order_id, e.clock)
  /\ e.lost \cap Ids(e.resting) = {}
  /\ \A n \in e.lost : n < e.next_order_id
  /\ \A i \in ActiveStops(e) : /\ e.stops[i].id < e.next_order_id
                               /\ e.stops[i].id \notin Ids(e.resting)
  /\ \A i, j \in ActiveStops(e) : e.stops[i].id = e.stops[j].id => i = j
  /\ e.last_taker < e.next_order_id

(* Who knows k knows the orders R; of those lost it may know something wrong. *)
Knows(k, R, lost) ==
  /\ DOMAIN k = {"orders", "stops", "tob"}
  /\ DOMAIN k.orders \ lost = Ids(R)
  /\ \A o \in R : k.orders[o.id] = o.qty

(* Once the consumer v has learnt all that is in the queue, it knows the    *)
(* book, the dormant stops and the snapshot of the top of book.             *)
Informed(v, e) ==
  e.dropped = 0 => /\ Knows(Learnt(v, e.eq), e.resting, e.lost)
                   /\ Learnt(v, e.eq).stops = StopIds(e)
                   /\ Learnt(v, e.eq).tob = e.last_tob

(* The snapshot is that of the book as it is. *)
TopKept(e) == e.lost = {} => e.last_tob = me_top_of_book(e)

(* What an event may say: an order to be filled at once does not rest, and *)
(* a trade has a side, a price and a quantity.                              *)
Sound(ev, R, next) ==
  /\ ev.type \in {"ACCEPTED", "PARTIAL", "FILLED", "CANCELLED"} =>
       /\ ev.order_type \in {"IOC", "FOK"} => /\ ev.type \in {"FILLED", "CANCELLED"}
                                              /\ ev.id \in Nat /\ ev.id < next
                                              /\ ev.id \notin Ids(R)
       /\ ev.order_type = "FOK" => ev.qty_filled = ev.qty_original
  /\ ev.type = "TRADE" => ev.side \in Side /\ ev.price \in Nat /\ ev.qty \in Nat \ {0}

AllSound(e) == \A k \in 1..Len(e.eq) : Sound(e.eq[k], e.resting, e.next_order_id)

Scanning == [ltp : Nat, i : Nat]

EInv(v, e) ==
  EngineTyped(e) /\ Numbered(e) /\ Informed(v, e) /\ TopKept(e) /\ AllSound(e)

-----------------------------------------------------------------------------
(* Emissions. *)

(* p is e but for its queue and the price of the last trade. *)
SameBook(p, e) ==
  /\ DOMAIN p = EngineFields
  /\ p.resting = e.resting /\ p.roots = e.roots /\ p.next_order_id = e.next_order_id
  /\ p.clock = e.clock /\ p.stops = e.stops /\ p.lost = e.lost /\ p.last_tob = e.last_tob

SameTrade(p, e) == p.last_trade_price = e.last_trade_price /\ p.last_taker = e.last_taker

SameQueue(p, e) == p.eq = e.eq /\ p.dropped = e.dropped

(* p's queue is that of e after the event, which may have been dropped. *)
Queued(p, e, ev) ==
  \/ p.eq = Append(e.eq, ev) /\ p.dropped = e.dropped
  \/ p.eq = e.eq /\ p.dropped = e.dropped + 1

(* eq_push changes the queue alone. *)
LEMMA PushIs ==
  ASSUME NEW e, DOMAIN e = EngineFields, NEW ev
  PROVE  LET p == eq_push(e, ev) IN SameBook(p, e) /\ SameTrade(p, e) /\ Queued(p, e, ev)
<1> DEFINE a == [e EXCEPT !.eq = Append(e.eq, ev)]
           b == [e EXCEPT !.dropped = e.dropped + 1]
<1>1. eq_push(e, ev) = IF Len(e.eq) < ME_EVENT_QUEUE_CAP - 1 THEN a ELSE b
  BY DEF eq_push
<1>2. SameBook(a, e) /\ SameTrade(a, e) /\ Queued(a, e, ev)
  BY DEF SameBook, SameTrade, Queued, EngineFields
<1>3. SameBook(b, e) /\ SameTrade(b, e) /\ Queued(b, e, ev)
  BY DEF SameBook, SameTrade, Queued, EngineFields
<1> HIDE DEF a, b
<1> QED
  BY <1>1, <1>2, <1>3

(* What the types and numbers of an engine depend on. *)
LEMMA TypedSame ==
  ASSUME NEW e, NEW p, EngineTyped(e), SameBook(p, e), SameTrade(p, e), IsSeq(p.eq), p.dropped \in Nat
  PROVE  EngineTyped(p)
BY DEF EngineTyped, SameBook, SameTrade

(* Numbering looks only at the orders, the stops and the counters. *)
LEMMA NumberedSame ==
  ASSUME NEW e, NEW p, Numbered(e), SameBook(p, e), SameTrade(p, e)
  PROVE  Numbered(p)
<1>1. ActiveStops(p) = ActiveStops(e)
  BY DEF SameBook, ActiveStops
<1> QED
  BY <1>1 DEF Numbered, SameBook, SameTrade

(* The queue remains a sequence, and the consumer learns the event if it is *)
(* not dropped.                                                             *)
LEMMA QueuedIs ==
  ASSUME NEW v, NEW e, NEW p, NEW ev, IsSeq(e.eq), e.dropped \in Nat, Queued(p, e, ev)
  PROVE  /\ IsSeq(p.eq) /\ p.dropped \in Nat
         /\ p.dropped = 0 => e.dropped = 0 /\ Learnt(v, p.eq) = Learn(Learnt(v, e.eq), ev)
<1>1. CASE p.eq = Append(e.eq, ev) /\ p.dropped = e.dropped
  BY <1>1, AppendIs, LearntAppend
<1>2. CASE p.eq = e.eq /\ p.dropped = e.dropped + 1
  BY <1>2
<1> QED
  BY <1>1, <1>2 DEF Queued

(* The consumer who has learnt all that is in p's queue has learnt ev last. *)
LearntLast(v, p, e, ev) ==
  p.dropped = 0 => e.dropped = 0 /\ Learnt(v, p.eq) = Learn(Learnt(v, e.eq), ev)

(* The same, to be cited as a whole. *)
LEMMA QueuedLast ==
  ASSUME NEW v, NEW e, NEW p, NEW ev, IsSeq(e.eq), e.dropped \in Nat, Queued(p, e, ev)
  PROVE  IsSeq(p.eq) /\ p.dropped \in Nat /\ LearntLast(v, p, e, ev)
BY QueuedIs DEF LearntLast

(* All that is said in the queue of immediate orders, and the event, are so. *)
LEMMA SoundQueued ==
  ASSUME NEW e, NEW p, NEW ev, IsSeq(e.eq), Queued(p, e, ev), SameBook(p, e), AllSound(e),
         Sound(ev, e.resting, e.next_order_id)
  PROVE  AllSound(p)
<1>0. p.resting = e.resting /\ p.next_order_id = e.next_order_id
  BY DEF SameBook
<1>1. CASE p.eq = Append(e.eq, ev)
  <2>1. /\ Len(e.eq) \in Nat /\ Len(p.eq) = Len(e.eq) + 1
        /\ \A k \in 1..Len(e.eq) : p.eq[k] = e.eq[k]
        /\ p.eq[Len(e.eq) + 1] = ev
    BY <1>1, AppendIs
  <2> SUFFICES ASSUME NEW k \in 1..Len(p.eq)
               PROVE  Sound(p.eq[k], e.resting, e.next_order_id)
    BY <1>0 DEF AllSound
  <2>2. CASE k = Len(e.eq) + 1
    BY <2>1, <2>2
  <2>3. CASE k # Len(e.eq) + 1
    <3>1. k \in 1..Len(e.eq)
      BY <2>1, <2>3
    <3>2. Sound(e.eq[k], e.resting, e.next_order_id)
      BY <3>1 DEF AllSound
    <3> QED
      BY <2>1, <3>1, <3>2
  <2> QED
    BY <2>2, <2>3
<1>2. CASE p.eq = e.eq
  BY <1>0, <1>2 DEF AllSound
<1> QED
  BY <1>1, <1>2 DEF Queued

(* The invariant but for the snapshot. *)
BeforeTop(v, e) == EngineTyped(e) /\ Numbered(e) /\ Informed(v, e) /\ AllSound(e)

(* The event ev is what the consumer lacks to know e. *)
Tells(v, e, ev) ==
  e.dropped = 0 => /\ Knows(Learn(Learnt(v, e.eq), ev), e.resting, e.lost)
                   /\ Learn(Learnt(v, e.eq), ev).stops = StopIds(e)
                   /\ Learn(Learnt(v, e.eq), ev).tob = e.last_tob

(* Emitting what the consumer lacks. *)
LEMMA EmitTells ==
  ASSUME NEW v, NEW e, NEW ev, EngineTyped(e), Numbered(e), AllSound(e), Tells(v, e, ev),
         Sound(ev, e.resting, e.next_order_id)
  PROVE  LET p == eq_push(e, ev)
         IN  BeforeTop(v, p) /\ SameBook(p, e) /\ SameTrade(p, e)
<1> DEFINE p == eq_push(e, ev)
<1>0. DOMAIN e = EngineFields /\ IsSeq(e.eq) /\ e.dropped \in Nat
  BY DEF EngineTyped
<1>1. SameBook(p, e) /\ SameTrade(p, e) /\ Queued(p, e, ev)
  BY <1>0, PushIs
<1> HIDE DEF p
<1>2. /\ IsSeq(p.eq) /\ p.dropped \in Nat
      /\ p.dropped = 0 => e.dropped = 0 /\ Learnt(v, p.eq) = Learn(Learnt(v, e.eq), ev)
  BY <1>0, <1>1, QueuedIs
<1>3. EngineTyped(p) /\ Numbered(p)
  BY <1>1, <1>2, TypedSame, NumberedSame
<1>4. AllSound(p)
  BY <1>0, <1>1, SoundQueued
<1>5. StopIds(p) = StopIds(e) /\ p.resting = e.resting /\ p.lost = e.lost /\ p.last_tob = e.last_tob
  BY <1>1 DEF SameBook, StopIds, ActiveStops
<1>6. Informed(v, p)
  BY <1>2, <1>5 DEF Informed, Tells
<1> QED
  BY <1>1, <1>3, <1>4, <1>6 DEF p, BeforeTop

-----------------------------------------------------------------------------
(* What is learnt from each kind of event, by someone with knowledge k. *)

KnowledgeFields == {"orders", "stops", "tob"}

(* An event with the remainder of an order. *)
LEMMA LearnOrder ==
  ASSUME NEW k, DOMAIN k = KnowledgeFields, NEW ev, ev.type \in {"ACCEPTED", "PARTIAL", "MODIFIED"},
         ev.order_type \notin {"STOP", "STOP_LIMIT"}
  PROVE  /\ DOMAIN Learn(k, ev) = KnowledgeFields
         /\ Learn(k, ev).orders = With(k.orders, ev.id, ev.qty_remain)
         /\ Learn(k, ev).stops = k.stops /\ Learn(k, ev).tob = k.tob
<1>1. Learn(k, ev) = [k EXCEPT !.orders = With(k.orders, ev.id, ev.qty_remain)]
  BY DEF Learn
<1> QED
  BY <1>1 DEF KnowledgeFields

(* The acceptance of a stop. *)
LEMMA LearnStop ==
  ASSUME NEW k, DOMAIN k = KnowledgeFields, NEW ev, ev.type = "ACCEPTED",
         ev.order_type \in {"STOP", "STOP_LIMIT"}
  PROVE  /\ DOMAIN Learn(k, ev) = KnowledgeFields
         /\ Learn(k, ev).orders = k.orders
         /\ Learn(k, ev).stops = k.stops \cup {ev.id} /\ Learn(k, ev).tob = k.tob
<1>1. Learn(k, ev) = [k EXCEPT !.stops = k.stops \cup {ev.id}]
  BY DEF Learn
<1> QED
  BY <1>1 DEF KnowledgeFields

(* A cancellation. *)
LEMMA LearnCancelled ==
  ASSUME NEW k, DOMAIN k = KnowledgeFields, NEW ev, ev.type = "CANCELLED"
  PROVE  /\ DOMAIN Learn(k, ev) = KnowledgeFields
         /\ Learn(k, ev).orders = Without(k.orders, ev.id)
         /\ Learn(k, ev).stops = k.stops \ {ev.id} /\ Learn(k, ev).tob = k.tob
<1>1. Learn(k, ev) = [[k EXCEPT !.orders = Without(k.orders, ev.id)] EXCEPT !.stops = k.stops \ {ev.id}]
  BY DEF Learn, KnowledgeFields
<1> QED
  BY <1>1 DEF KnowledgeFields

(* The firing of a stop. *)
LEMMA LearnTriggered ==
  ASSUME NEW k, DOMAIN k = KnowledgeFields, NEW ev, ev.type = "STOP_TRIGGERED"
  PROVE  /\ DOMAIN Learn(k, ev) = KnowledgeFields
         /\ Learn(k, ev).orders = k.orders
         /\ Learn(k, ev).stops = k.stops \ {ev.id} /\ Learn(k, ev).tob = k.tob
<1>1. Learn(k, ev) = [k EXCEPT !.stops = k.stops \ {ev.id}]
  BY DEF Learn
<1> QED
  BY <1>1 DEF KnowledgeFields

(* The resting order is reduced, or gone. *)
LEMMA LearnTrade ==
  ASSUME NEW k, DOMAIN k = KnowledgeFields, NEW ev, ev.type = "TRADE", ev.resting_id \in DOMAIN k.orders
  PROVE  LET left == k.orders[ev.resting_id] - ev.qty
         IN  /\ DOMAIN Learn(k, ev) = KnowledgeFields
             /\ Learn(k, ev).orders = IF left > 0 THEN With(k.orders, ev.resting_id, left)
                                      ELSE Without(k.orders, ev.resting_id)
             /\ Learn(k, ev).stops = k.stops /\ Learn(k, ev).tob = k.tob
<1> DEFINE left == k.orders[ev.resting_id] - ev.qty
           new == IF left > 0 THEN With(k.orders, ev.resting_id, left) ELSE Without(k.orders, ev.resting_id)
<1>1. Learn(k, ev) = [k EXCEPT !.orders = new]
  BY DEF Learn
<1> HIDE DEF new
<1>2. /\ DOMAIN Learn(k, ev) = KnowledgeFields /\ Learn(k, ev).orders = new
      /\ Learn(k, ev).stops = k.stops /\ Learn(k, ev).tob = k.tob
  BY <1>1 DEF KnowledgeFields
<1> QED
  BY <1>2 DEF new

(* A new top of book. *)
LEMMA LearnTop ==
  ASSUME NEW k, DOMAIN k = KnowledgeFields, NEW ev, ev.type = "BOOK_UPDATED"
  PROVE  /\ DOMAIN Learn(k, ev) = KnowledgeFields
         /\ Learn(k, ev).orders = k.orders /\ Learn(k, ev).stops = k.stops
         /\ Learn(k, ev).tob = ev.tob
<1>1. Learn(k, ev) = [k EXCEPT !.tob = ev.tob]
  BY DEF Learn
<1> QED
  BY <1>1 DEF KnowledgeFields

(* Refusals, and an order filled: its fills have told it. *)
LEMMA LearnOther ==
  ASSUME NEW k, NEW ev, ev.type \in {"REJECTED", "FILLED"}
  PROVE  Learn(k, ev) = k
BY DEF Learn
-----------------------------------------------------------------------------
(* The engine's calls one by one keep the invariant of the engine. *)

(* p is e but for the queue, the snapshot and the caller's result. *)
SameCore(p, e) ==
  /\ DOMAIN p = EngineFields
  /\ p.resting = e.resting /\ p.roots = e.roots /\ p.next_order_id = e.next_order_id
  /\ p.clock = e.clock /\ p.stops = e.stops /\ p.lost = e.lost
  /\ SameTrade(p, e)

(* What is said in the queue remains so when ids are handed out and orders  *)
(* leave or change.                                                         *)
LEMMA SoundStays ==
  ASSUME NEW e, NEW p, EngineTyped(e), EngineTyped(p), AllSound(e), p.eq = e.eq,
         e.next_order_id <= p.next_order_id,
         \A o \in p.resting : o.id \in Ids(e.resting) \/ o.id >= e.next_order_id
  PROVE  AllSound(p)
<1>0. e.next_order_id \in Nat /\ p.next_order_id \in Nat
  BY DEF EngineTyped
<1> SUFFICES ASSUME NEW k \in 1..Len(e.eq)
             PROVE  Sound(e.eq[k], p.resting, p.next_order_id)
  BY DEF AllSound
<1> DEFINE ev == e.eq[k]
<1>1. Sound(ev, e.resting, e.next_order_id)
  BY DEF AllSound
<1> HIDE DEF ev
<1>2. ASSUME ev.id \in Nat, ev.id < e.next_order_id, ev.id \notin Ids(e.resting)
      PROVE  ev.id < p.next_order_id /\ ev.id \notin Ids(p.resting)
  BY <1>0, <1>2 DEF Ids
<1>3. Sound(ev, p.resting, p.next_order_id)
  BY <1>1, <1>2 DEF Sound
<1> QED
  BY <1>3 DEF ev

(* maybe_emit_tob brings the snapshot up to date, and the consumer with it. *)
LEMMA TopEmitted ==
  ASSUME NEW v, NEW e, BeforeTop(v, e)
  PROVE  LET p == maybe_emit_tob(e) IN EInv(v, p) /\ SameCore(p, e)
<1> DEFINE tob == me_top_of_book(e)
           ev == [type |-> "BOOK_UPDATED", tob |-> tob]
           q == eq_push(e, ev)
           p == [q EXCEPT !.last_tob = tob]
<1>0. EngineTyped(e) /\ Numbered(e) /\ Informed(v, e) /\ AllSound(e)
  BY DEF BeforeTop
<1>1. DOMAIN e = EngineFields /\ IsSeq(e.eq) /\ e.dropped \in Nat
  BY <1>0 DEF EngineTyped
<1>2. maybe_emit_tob(e) = IF tob = e.last_tob THEN e ELSE p
  BY Zenon DEF maybe_emit_tob
<1>3. CASE tob = e.last_tob
  <2>1. EInv(v, e) /\ SameCore(e, e)
    BY <1>0, <1>1, <1>3 DEF EInv, TopKept, SameCore, SameTrade
  <2> QED
    BY <1>2, <1>3, <2>1
<1>4. CASE tob # e.last_tob
  <2> HIDE DEF tob
  <2>0. ev.type = "BOOK_UPDATED" /\ ev.tob = tob
    OBVIOUS
  <2> HIDE DEF ev
  <2>1. SameBook(q, e) /\ SameTrade(q, e) /\ Queued(q, e, ev)
    BY <1>1, PushIs
  <2> HIDE DEF q
  <2>2. AllSound(q)
    <3>1. Sound(ev, e.resting, e.next_order_id)
      BY <2>0 DEF Sound
    <3> QED
      BY <1>0, <1>1, <2>1, <3>1, SoundQueued
  <2>3. /\ IsSeq(q.eq) /\ q.dropped \in Nat
        /\ q.dropped = 0 => e.dropped = 0 /\ Learnt(v, q.eq) = Learn(Learnt(v, e.eq), ev)
    BY <1>1, <2>1, QueuedIs
  <2>4. EngineTyped(q) /\ Numbered(q)
    BY <1>0, <2>1, <2>3, TypedSame, NumberedSame
  <2>5. /\ DOMAIN p = EngineFields /\ p.last_tob = tob
        /\ p.resting = q.resting /\ p.roots = q.roots /\ p.next_order_id = q.next_order_id
        /\ p.clock = q.clock /\ p.stops = q.stops /\ p.lost = q.lost
        /\ p.eq = q.eq /\ p.dropped = q.dropped
        /\ p.last_trade_price = q.last_trade_price /\ p.last_taker = q.last_taker
    BY <2>1 DEF SameBook, EngineFields
  <2> HIDE DEF p
  <2>6. SameCore(p, e)
    BY <2>1, <2>5 DEF SameCore, SameBook, SameTrade
  <2>7. EngineTyped(p) /\ Numbered(p) /\ AllSound(p)
    BY <2>2, <2>4, <2>5 DEF EngineTyped, Numbered, ActiveStops, AllSound
  <2>8. TopKept(p)
    BY <2>5, <2>6 DEF TopKept, me_top_of_book, SameCore, tob
  <2>9. Informed(v, p)
    <3> SUFFICES ASSUME p.dropped = 0
                 PROVE  /\ Knows(Learnt(v, p.eq), p.resting, p.lost)
                        /\ Learnt(v, p.eq).stops = StopIds(p)
                        /\ Learnt(v, p.eq).tob = p.last_tob
      BY DEF Informed
    <3> DEFINE k == Learnt(v, e.eq)
               n == Learn(k, ev)
    <3>1. e.dropped = 0 /\ Learnt(v, p.eq) = n
      BY <2>3, <2>5
    <3>2. Knows(k, e.resting, e.lost) /\ k.stops = StopIds(e)
      BY <1>0, <3>1 DEF Informed
    <3> HIDE DEF k
    <3>3. DOMAIN k = KnowledgeFields
      BY <3>2 DEF Knows, KnowledgeFields
    <3>4. /\ DOMAIN n = KnowledgeFields
          /\ n.orders = k.orders /\ n.stops = k.stops /\ n.tob = tob
      BY <2>0, <3>3, LearnTop
    <3> HIDE DEF n
    <3>5. Knows(n, e.resting, e.lost)
      BY <3>2, <3>4 DEF Knows, KnowledgeFields
    <3>6. StopIds(p) = StopIds(e)
      BY <2>6 DEF SameCore, StopIds, ActiveStops
    <3> QED
      BY <2>5, <2>6, <3>1, <3>2, <3>4, <3>5, <3>6 DEF SameCore
  <2> QED
    BY <1>2, <1>4, <2>6, <2>7, <2>8, <2>9 DEF EInv
<1> QED
  BY <1>3, <1>4

(* A snapshot that was the book's remains it while the book does not change. *)
LEMMA TopStays ==
  ASSUME NEW e, NEW p, TopKept(e), p.resting = e.resting, p.roots = e.roots, p.lost = e.lost,
         p.last_tob = e.last_tob
  PROVE  TopKept(p)
BY DEF TopKept, me_top_of_book

(* The caller's result is of no concern. *)
LEMMA EInvSame ==
  ASSUME NEW v, NEW e, NEW p, EInv(v, e), SameBook(p, e), SameTrade(p, e), SameQueue(p, e)
  PROVE  EInv(v, p)
<1>1. EngineTyped(p) /\ Numbered(p)
  BY TypedSame, NumberedSame DEF EInv, EngineTyped, SameQueue
<1>2. TopKept(p)
  BY TopStays DEF EInv, SameBook
<1>3. StopIds(p) = StopIds(e)
  BY DEF SameBook, StopIds, ActiveStops
<1>4. Informed(v, p)
  BY <1>3 DEF EInv, Informed, SameBook, SameQueue
<1>5. AllSound(p)
  BY DEF EInv, AllSound, SameBook, SameQueue
<1> QED
  BY <1>1, <1>2, <1>4, <1>5 DEF EInv

(* What a call of the client may do to the stops: none that was dormant is  *)
(* changed but by being withdrawn, and a new one is younger than the last   *)
(* aggressor.                                                               *)
StopsKept(p, e) ==
  /\ SameTrade(p, e)
  /\ \A j \in ActiveStops(p) : \/ j \in ActiveStops(e) /\ p.stops[j] = e.stops[j]
                               \/ p.stops[j].id >= e.last_taker

(* A step that touches neither the book nor the stops. *)
LEMMA CoreKeepsStops ==
  ASSUME NEW e, NEW p, SameCore(p, e)
  PROVE  StopsKept(p, e) /\ ActiveStops(p) = ActiveStops(e)
BY DEF StopsKept, SameCore, ActiveStops

(* What a slot of the pool holds. *)
LEMMA StopFields ==
  ASSUME NEW e, EngineTyped(e), NEW i \in Slots
  PROVE  /\ e.stops[i] \in Stop \cup {NoStop}
         /\ e.stops[i].active \in BOOLEAN
         /\ i \in ActiveStops(e) <=> e.stops[i].active
         /\ i \in ActiveStops(e) <=> e.stops[i] \in Stop
<1>1. e.stops[i] \in Stop \cup {NoStop}
  BY DEF EngineTyped
<1>2. CASE e.stops[i] \in Stop
  BY <1>1, <1>2 DEF Stop, ActiveStops
<1>3. CASE e.stops[i] = NoStop
  <2>1. ~e.stops[i].active /\ e.stops[i].active \in BOOLEAN
    BY <1>3 DEF NoStop
  <2>2. e.stops[i] \notin Stop
    BY <2>1 DEF Stop
  <2> QED
    BY <1>1, <2>1, <2>2 DEF ActiveStops
<1> QED
  BY <1>1, <1>2, <1>3

(* A refused stop is only told. *)
LEMMA EmitRejected ==
  ASSUME NEW v, NEW e, EInv(v, e), NEW id, NEW type, NEW qty, NEW remain, NEW filled
  PROVE  LET p == emit_order_event(e, "REJECTED", id, type, qty, remain, filled)
         IN  EInv(v, p) /\ SameBook(p, e) /\ SameTrade(p, e)
<1> DEFINE ev == [type |-> "REJECTED", id |-> id, order_type |-> type, qty_original |-> qty,
                  qty_remain |-> remain, qty_filled |-> filled]
           p == eq_push(e, ev)
<1>1. p = emit_order_event(e, "REJECTED", id, type, qty, remain, filled)
  BY Zenon DEF emit_order_event
<1>2. ev.type = "REJECTED"
  OBVIOUS
<1> HIDE DEF ev
<1>3. Tells(v, e, ev)
  <2>1. Learn(Learnt(v, e.eq), ev) = Learnt(v, e.eq)
    BY <1>2, LearnOther
  <2> QED
    BY <2>1 DEF Tells, EInv, Informed
<1>4. Sound(ev, e.resting, e.next_order_id)
  BY <1>2 DEF Sound
<1>5. BeforeTop(v, p) /\ SameBook(p, e) /\ SameTrade(p, e)
  BY <1>3, <1>4, EmitTells DEF EInv
<1> HIDE DEF p
<1>6. TopKept(p)
  BY <1>5, TopStays DEF EInv, SameBook
<1>7. EInv(v, p)
  BY <1>5, <1>6 DEF EInv, BeforeTop
<1> QED
  BY <1>1, <1>5, <1>7

(* me_submit_stop: the new id is told, and is not below a triggering taker. *)
LEMMA SubmitStopKeeps ==
  ASSUME NEW v, NEW e, EInv(v, e), NEW type \in {"STOP", "STOP_LIMIT"}, NEW side \in Side,
         NEW trigger \in Nat, NEW limit \in Nat, NEW qty \in Nat \ {0}, NEW ttl \in BOOLEAN
  PROVE  LET p == me_submit_stop(e, type, side, trigger, limit, qty, ttl)
         IN  EInv(v, p) /\ StopsKept(p, e)
<1> DEFINE free == Slots \ ActiveStops(e)
           slot == CHOOSE i \in free : \A j \in free : i <= j
           stop == [active |-> TRUE, id |-> e.next_order_id, side |-> side, orig_type |-> type,
                    trigger |-> trigger, limit |-> limit, qty |-> qty, ttl |-> ttl]
           out == [status |-> "OK", id |-> stop.id]
           a == [e EXCEPT !.stops[slot] = stop, !.next_order_id = @ + 1, !.out = out]
           ev == [type |-> "ACCEPTED", id |-> stop.id, order_type |-> type, qty_original |-> qty,
                  qty_remain |-> qty, qty_filled |-> 0]
           p == eq_push(a, ev)
           b == [e EXCEPT !.out = [status |-> "REJECTED", id |-> 0]]
           q == emit_order_event(b, "REJECTED", 0, type, qty, qty, 0)
<1>0. EngineTyped(e) /\ Numbered(e) /\ Informed(v, e) /\ TopKept(e) /\ AllSound(e)
  BY DEF EInv
<1>1. DOMAIN e = EngineFields /\ e.next_order_id \in Nat \ {0} /\ e.last_taker \in Nat
  BY <1>0 DEF EngineTyped
<1>2. me_submit_stop(e, type, side, trigger, limit, qty, ttl)
        = IF ValidStop(type, trigger, limit) /\ free # {} THEN p ELSE q
  BY Zenon DEF me_submit_stop, emit_order_event
<1>3. CASE ~(ValidStop(type, trigger, limit) /\ free # {})
  <2>1. SameBook(b, e) /\ SameTrade(b, e) /\ SameQueue(b, e)
    BY <1>1 DEF SameBook, SameTrade, SameQueue, EngineFields
  <2> HIDE DEF b
  <2>2. EInv(v, b)
    BY <2>1, EInvSame
  <2>3. EInv(v, q) /\ SameBook(q, b) /\ SameTrade(q, b)
    BY <2>2, EmitRejected
  <2> HIDE DEF q
  <2>4. StopsKept(q, e)
    BY <2>1, <2>3 DEF StopsKept, SameBook, SameTrade, ActiveStops
  <2> QED
    BY <1>2, <1>3, <2>3, <2>4
<1>4. CASE ValidStop(type, trigger, limit) /\ free # {}
  <2>1. slot \in free
    <3>1. free \subseteq Nat
      BY DEF Slots
    <3>2. \E i \in free : \A j \in free : i <= j
      <4> HIDE DEF free
      <4> QED
        BY <1>4, <3>1, LeastOf
    <3> HIDE DEF free
    <3> QED
      BY <3>2
  <2> HIDE DEF slot
  <2>2. slot \in Slots /\ slot \notin ActiveStops(e)
    BY <2>1
  <2>3. stop \in Stop /\ stop.id = e.next_order_id /\ stop.active
    BY <1>1 DEF Stop
  <2>4. ev.type = "ACCEPTED" /\ ev.order_type \in {"STOP", "STOP_LIMIT"} /\ ev.id = e.next_order_id
    BY <2>3
  <2> HIDE DEF stop, ev, out
  <2>5. /\ DOMAIN a = EngineFields /\ a.resting = e.resting /\ a.roots = e.roots
        /\ a.next_order_id = e.next_order_id + 1 /\ a.clock = e.clock
        /\ a.stops = [e.stops EXCEPT ![slot] = stop]
        /\ a.last_trade_price = e.last_trade_price /\ a.last_taker = e.last_taker
        /\ a.lost = e.lost /\ a.eq = e.eq /\ a.dropped = e.dropped /\ a.last_tob = e.last_tob
    BY <1>1 DEF EngineFields
  <2> HIDE DEF a
  <2>6. EngineTyped(a)
    BY <1>0, <2>2, <2>3, <2>5 DEF EngineTyped
  <2>7. /\ ActiveStops(a) = ActiveStops(e) \cup {slot} /\ a.stops[slot] = stop
        /\ \A j \in ActiveStops(e) : a.stops[j] = e.stops[j]
    <3>1. DOMAIN e.stops = Slots
      BY <1>0 DEF EngineTyped
    <3>2. a.stops[slot] = stop /\ \A j \in Slots : j # slot => a.stops[j] = e.stops[j]
      BY <2>2, <2>5, <3>1
    <3> QED
      BY <2>2, <2>3, <3>2 DEF ActiveStops
  <2>8. Numbered(a)
    <3>1. Apart(a.resting, a.next_order_id, a.clock)
      <4>1. \A o \in e.resting : o.id \in Nat
        BY <1>0 DEF EngineTyped, Order
      <4> QED
        BY <1>0, <1>1, <2>5, <4>1 DEF Numbered, Apart
    <3>2. a.lost \cap Ids(a.resting) = {} /\ \A n \in a.lost : n < a.next_order_id
      <4>1. \A n \in e.lost : n \in Nat
        BY <1>0 DEF EngineTyped
      <4> QED
        BY <1>0, <1>1, <2>5, <4>1 DEF Numbered
    <3>3. \A i \in ActiveStops(e) : /\ e.stops[i].id \in Nat /\ e.stops[i].id < e.next_order_id
                                    /\ e.stops[i].id \notin Ids(e.resting)
      <4>1. \A i \in ActiveStops(e) : e.stops[i].id \in Nat
        <5> TAKE i \in ActiveStops(e)
        <5>1. i \in Slots
          BY DEF ActiveStops
        <5>2. e.stops[i] \in Stop
          BY <1>0, <5>1, StopFields
        <5> QED
          BY <5>2 DEF Stop
      <4> QED
        BY <1>0, <4>1 DEF Numbered
    <3>4. stop.id \notin Ids(e.resting)
      <4>1. \A o \in e.resting : o.id \in Nat /\ o.id < e.next_order_id
        BY <1>0 DEF EngineTyped, Order, Numbered, Apart
      <4> QED
        BY <1>1, <2>3, <4>1 DEF Ids
    <3>5. \A i \in ActiveStops(a) : /\ a.stops[i].id < a.next_order_id
                                    /\ a.stops[i].id \notin Ids(a.resting)
      BY <1>1, <2>3, <2>5, <2>7, <3>3, <3>4
    <3>6. \A i, j \in ActiveStops(a) : a.stops[i].id = a.stops[j].id => i = j
      <4>1. \A i, j \in ActiveStops(e) : e.stops[i].id = e.stops[j].id => i = j
        BY <1>0 DEF Numbered
      <4>2. \A i \in ActiveStops(e) : e.stops[i].id # stop.id
        BY <1>1, <2>3, <3>3
      <4> QED
        BY <2>7, <4>1, <4>2
    <3>7. a.last_taker < a.next_order_id
      BY <1>0, <1>1, <2>5 DEF Numbered
    <3> QED
      BY <3>1, <3>2, <3>5, <3>6, <3>7 DEF Numbered
  <2>9. AllSound(a)
    <3>1. e.next_order_id <= a.next_order_id
      BY <1>1, <2>5
    <3>2. \A o \in a.resting : o.id \in Ids(e.resting)
      BY <2>5 DEF Ids
    <3> QED
      BY <1>0, <2>5, <2>6, <3>1, <3>2, SoundStays
  <2>10. Tells(v, a, ev)
    <3> SUFFICES ASSUME a.dropped = 0
                 PROVE  /\ Knows(Learn(Learnt(v, a.eq), ev), a.resting, a.lost)
                        /\ Learn(Learnt(v, a.eq), ev).stops = StopIds(a)
                        /\ Learn(Learnt(v, a.eq), ev).tob = a.last_tob
      BY DEF Tells
    <3> DEFINE k == Learnt(v, e.eq)
               n == Learn(k, ev)
    <3>1. Knows(k, e.resting, e.lost) /\ k.stops = StopIds(e) /\ k.tob = e.last_tob
      BY <1>0, <2>5 DEF Informed
    <3> HIDE DEF k
    <3>2. DOMAIN k = KnowledgeFields
      BY <3>1 DEF Knows, KnowledgeFields
    <3>3. /\ DOMAIN n = KnowledgeFields /\ n.orders = k.orders
          /\ n.stops = k.stops \cup {ev.id} /\ n.tob = k.tob
      BY <2>4, <3>2, LearnStop
    <3> HIDE DEF n
    <3>4. Knows(n, a.resting, a.lost)
      BY <2>5, <3>1, <3>3 DEF Knows, KnowledgeFields
    <3>5. StopIds(a) = StopIds(e) \cup {stop.id}
      BY <2>7 DEF StopIds
    <3>6. Learn(Learnt(v, a.eq), ev) = n
      BY <2>5 DEF n, k
    <3> QED
      BY <2>3, <2>4, <2>5, <3>1, <3>3, <3>4, <3>5, <3>6
  <2>11. Sound(ev, a.resting, a.next_order_id)
    BY <2>4 DEF Sound
  <2>12. BeforeTop(v, p) /\ SameBook(p, a) /\ SameTrade(p, a)
    BY <2>6, <2>8, <2>9, <2>10, <2>11, EmitTells
  <2> HIDE DEF p
  <2>13. TopKept(p)
    BY <1>0, <2>5, <2>12, TopStays DEF SameBook
  <2>14. EInv(v, p)
    BY <2>12, <2>13 DEF EInv, BeforeTop
  <2>15. StopsKept(p, e)
    <3>1. SameTrade(p, e)
      BY <2>5, <2>12 DEF SameTrade
    <3>2. ActiveStops(p) = ActiveStops(a) /\ p.stops = a.stops
      BY <2>12 DEF SameBook, ActiveStops
    <3>3. stop.id >= e.last_taker
      BY <1>0, <1>1, <2>3 DEF Numbered
    <3> QED
      BY <2>7, <3>1, <3>2, <3>3 DEF StopsKept
  <2> QED
    BY <1>2, <1>4, <2>14, <2>15
<1> QED
  BY <1>3, <1>4
(* The knowledge k without the id of a stop. *)
LEMMA KnowsWithout ==
  ASSUME NEW k, NEW n, NEW id, NEW R, NEW lost, Knows(k, R, lost), id \notin Ids(R),
         DOMAIN n = KnowledgeFields, n.orders \in {k.orders, Without(k.orders, id)}
  PROVE  Knows(n, R, lost)
<1>1. /\ DOMAIN k.orders \ lost = Ids(R)
      /\ \A o \in R : k.orders[o.id] = o.qty
  BY DEF Knows
<1>2. CASE n.orders = k.orders
  BY <1>1, <1>2 DEF Knows, KnowledgeFields
<1>3. CASE n.orders = Without(k.orders, id)
  <2>1. DOMAIN n.orders = DOMAIN k.orders \ {id}
    BY <1>3 DEF Without
  <2>2. DOMAIN n.orders \ lost = Ids(R)
    BY <1>1, <2>1
  <2>3. ASSUME NEW o \in R PROVE n.orders[o.id] = o.qty
    <3>1. o.id \in Ids(R)
      BY DEF Ids
    <3>2. o.id \in DOMAIN n.orders
      BY <2>2, <3>1
    <3>3. n.orders[o.id] = k.orders[o.id]
      BY <1>3, <3>2 DEF Without
    <3> QED
      BY <1>1, <3>3
  <2> QED
    BY <2>2, <2>3 DEF Knows, KnowledgeFields
<1> QED
  BY <1>2, <1>3

(* p is e after the stop of slot i left the pool. *)
Disarmed(p, e, i) ==
  /\ DOMAIN p = EngineFields
  /\ p.resting = e.resting /\ p.roots = e.roots /\ p.next_order_id = e.next_order_id
  /\ p.clock = e.clock /\ p.lost = e.lost /\ SameTrade(p, e)
  /\ p.stops = [e.stops EXCEPT ![i] = NoStop]

(* Clearing a slot leaves the other stops alone. *)
LEMMA DisarmedStops ==
  ASSUME NEW e, EngineTyped(e), NEW p, NEW i \in Slots, Disarmed(p, e, i)
  PROVE  /\ ActiveStops(p) = ActiveStops(e) \ {i}
         /\ \A j \in ActiveStops(p) : p.stops[j] = e.stops[j]
<1>1. DOMAIN e.stops = Slots
  BY DEF EngineTyped
<1>2. p.stops[i] = NoStop /\ \A j \in Slots : j # i => p.stops[j] = e.stops[j]
  BY <1>1 DEF Disarmed
<1>3. ~NoStop.active
  BY DEF NoStop
<1> QED
  BY <1>2, <1>3 DEF ActiveStops

(* A stop leaves the pool, with an event of its own. *)
LEMMA DisarmKeeps ==
  ASSUME NEW v, NEW e, EInv(v, e), NEW i \in ActiveStops(e), NEW ev,
         ev.type \in {"CANCELLED", "STOP_TRIGGERED"}, ev.id = e.stops[i].id,
         ev.order_type \in {"STOP", "STOP_LIMIT"}
  PROVE  LET p == eq_push(Deactivate(e, i), ev) IN EInv(v, p) /\ Disarmed(p, e, i)
<1> DEFINE a == Deactivate(e, i)
           p == eq_push(a, ev)
<1>0. EngineTyped(e) /\ Numbered(e) /\ Informed(v, e) /\ TopKept(e) /\ AllSound(e)
  BY DEF EInv
<1>1. DOMAIN e = EngineFields /\ e.next_order_id \in Nat
  BY <1>0 DEF EngineTyped
<1>2. i \in Slots
  BY DEF ActiveStops
<1>3. /\ DOMAIN a = EngineFields /\ a.resting = e.resting /\ a.roots = e.roots
      /\ a.next_order_id = e.next_order_id /\ a.clock = e.clock
      /\ a.stops = [e.stops EXCEPT ![i] = NoStop]
      /\ a.last_trade_price = e.last_trade_price /\ a.last_taker = e.last_taker
      /\ a.lost = e.lost /\ a.eq = e.eq /\ a.dropped = e.dropped /\ a.last_tob = e.last_tob
  BY <1>1 DEF Deactivate, EngineFields
<1> HIDE DEF a
<1>4. Disarmed(a, e, i)
  BY <1>3 DEF Disarmed, SameTrade
<1>5. ActiveStops(a) = ActiveStops(e) \ {i} /\ \A j \in ActiveStops(a) : a.stops[j] = e.stops[j]
  BY <1>0, <1>2, <1>4, DisarmedStops
<1>6. EngineTyped(a)
  BY <1>0, <1>2, <1>3 DEF EngineTyped
<1>7. Numbered(a)
  BY <1>0, <1>3, <1>5 DEF Numbered
<1>8. AllSound(a)
  BY <1>0, <1>3 DEF AllSound
<1>9. StopIds(a) = StopIds(e) \ {ev.id}
  BY <1>0, <1>5 DEF StopIds, Numbered
<1>10. Tells(v, a, ev)
  <2> SUFFICES ASSUME a.dropped = 0
               PROVE  /\ Knows(Learn(Learnt(v, a.eq), ev), a.resting, a.lost)
                      /\ Learn(Learnt(v, a.eq), ev).stops = StopIds(a)
                      /\ Learn(Learnt(v, a.eq), ev).tob = a.last_tob
    BY DEF Tells
  <2> DEFINE k == Learnt(v, e.eq)
             n == Learn(k, ev)
  <2>1. Knows(k, e.resting, e.lost) /\ k.stops = StopIds(e) /\ k.tob = e.last_tob
    BY <1>0, <1>3 DEF Informed
  <2> HIDE DEF k
  <2>2. DOMAIN k = KnowledgeFields
    BY <2>1 DEF Knows, KnowledgeFields
  <2>3. /\ DOMAIN n = KnowledgeFields /\ n.orders \in {k.orders, Without(k.orders, ev.id)}
        /\ n.stops = k.stops \ {ev.id} /\ n.tob = k.tob
    <3>1. CASE ev.type = "CANCELLED"
      BY <2>2, <3>1, LearnCancelled
    <3>2. CASE ev.type = "STOP_TRIGGERED"
      BY <2>2, <3>2, LearnTriggered
    <3> QED
      BY <3>1, <3>2
  <2> HIDE DEF n
  <2>4. ev.id \notin Ids(e.resting)
    BY <1>0 DEF Numbered
  <2>5. Knows(n, e.resting, e.lost)
    BY <2>1, <2>3, <2>4, KnowsWithout
  <2>6. Learn(Learnt(v, a.eq), ev) = n
    BY <1>3 DEF n, k
  <2> QED
    BY <1>3, <1>9, <2>1, <2>3, <2>5, <2>6
<1>11. Sound(ev, a.resting, a.next_order_id)
  BY DEF Sound
<1>12. BeforeTop(v, p) /\ SameBook(p, a) /\ SameTrade(p, a)
  BY <1>6, <1>7, <1>8, <1>10, <1>11, EmitTells
<1> HIDE DEF p
<1>13. TopKept(p)
  BY <1>0, <1>3, <1>12, TopStays DEF SameBook
<1>14. EInv(v, p)
  BY <1>12, <1>13 DEF EInv, BeforeTop
<1>15. Disarmed(p, e, i)
  BY <1>3, <1>12 DEF Disarmed, SameBook, SameTrade
<1> QED
  BY <1>14, <1>15 DEF p, a

(* The stop that is withdrawn is told as cancelled. *)
LEMMA WithdrawStopKeeps ==
  ASSUME NEW v, NEW e, EInv(v, e), NEW i \in ActiveStops(e)
  PROVE  EInv(v, WithdrawStop(e, i)) /\ Disarmed(WithdrawStop(e, i), e, i)
<1> DEFINE s == e.stops[i]
           ev == [type |-> "CANCELLED", id |-> s.id, order_type |-> s.orig_type,
                  qty_original |-> s.qty, qty_remain |-> 0, qty_filled |-> 0]
<1>1. WithdrawStop(e, i) = eq_push(Deactivate(e, i), ev)
  BY Zenon DEF WithdrawStop, emit_order_event
<1>2. s \in Stop
  BY StopFields DEF EInv, ActiveStops
<1>3. ev.type \in {"CANCELLED", "STOP_TRIGGERED"} /\ ev.id = s.id /\ ev.order_type \in {"STOP", "STOP_LIMIT"}
  BY <1>2 DEF Stop
<1> HIDE DEF ev
<1> QED
  BY <1>1, <1>3, DisarmKeeps

(* me_cancel_stop, whether or not the id is a dormant stop's. *)
LEMMA CancelStopKeeps ==
  ASSUME NEW v, NEW e, EInv(v, e), NEW id
  PROVE  EInv(v, me_cancel_stop(e, id)) /\ StopsKept(me_cancel_stop(e, id), e)
<1> DEFINE at == {i \in ActiveStops(e) : e.stops[i].id = id}
           i == CHOOSE i \in at : TRUE
           p == WithdrawStop(e, i)
<1>1. me_cancel_stop(e, id) = IF at = {} THEN e ELSE p
  BY Zenon DEF me_cancel_stop
<1>2. CASE at = {}
  BY <1>1, <1>2 DEF StopsKept, SameTrade
<1>3. CASE at # {}
  <2>1. i \in ActiveStops(e)
    BY <1>3
  <2> HIDE DEF i
  <2>2. EInv(v, p) /\ Disarmed(p, e, i)
    BY <2>1, WithdrawStopKeeps
  <2> HIDE DEF p
  <2>3. i \in Slots /\ EngineTyped(e)
    BY <2>1 DEF ActiveStops, EInv
  <2>4. ActiveStops(p) = ActiveStops(e) \ {i} /\ \A j \in ActiveStops(p) : p.stops[j] = e.stops[j]
    BY <2>2, <2>3, DisarmedStops
  <2>5. StopsKept(p, e)
    BY <2>2, <2>4 DEF StopsKept, Disarmed
  <2> QED
    BY <1>1, <1>3, <2>2, <2>5
<1> QED
  BY <1>2, <1>3

(* The stops that are due are withdrawn one after the other. *)
LEMMA ExpireKeeps ==
  ASSUME NEW v, NEW e, EInv(v, e), NEW due, due \subseteq ActiveStops(e)
  PROVE  EInv(v, me_expire_orders(e, due)) /\ StopsKept(me_expire_orders(e, due), e)
<1>1. ME_MAX_STOPS \in Nat
  BY EngineAssumption
<1>2. PICK g : /\ g[0] = e
               /\ \A n \in 1..ME_MAX_STOPS : g[n] = IF n \in due THEN WithdrawStop(g[n - 1], n) ELSE g[n - 1]
               /\ me_expire_orders(e, due) = maybe_emit_tob(g[ME_MAX_STOPS])
  BY <1>1, ExpiryIs
<1> DEFINE Kept(a) == SameTrade(a, e) /\ \A j \in ActiveStops(a) : j \in ActiveStops(e) /\ a.stops[j] = e.stops[j]
           Fine(n) == /\ EInv(v, g[n]) /\ Kept(g[n])
                      /\ \A j \in Slots : j <= n \/ g[n].stops[j] = e.stops[j]
           G == {n \in Nat : n <= ME_MAX_STOPS => Fine(n)}
<1>3. 0 \in G
  BY <1>2 DEF SameTrade
<1>4. ASSUME NEW n \in Nat, n \in G PROVE n + 1 \in G
  <2> SUFFICES ASSUME n + 1 <= ME_MAX_STOPS PROVE Fine(n + 1)
    OBVIOUS
  <2>1. n + 1 \in 1..ME_MAX_STOPS /\ n <= ME_MAX_STOPS /\ (n + 1) - 1 = n
    BY <1>1
  <2>2. Fine(n)
    BY <1>4, <2>1
  <2>3. g[n + 1] = IF n + 1 \in due THEN WithdrawStop(g[n], n + 1) ELSE g[n]
    <3>1. g[n + 1] = IF n + 1 \in due THEN WithdrawStop(g[(n + 1) - 1], n + 1) ELSE g[(n + 1) - 1]
      BY <1>2, <2>1, Zenon
    <3> QED
      BY <2>1, <3>1
  <2> DEFINE a == g[n]
             p == g[n + 1]
  <2>4. EInv(v, a) /\ Kept(a) /\ \A j \in Slots : j <= n \/ a.stops[j] = e.stops[j]
    BY <2>2
  <2>5. \A j \in Slots : j \in Nat
    BY DEF Slots
  <2>6. CASE n + 1 \notin due
    <3>1. p = a
      BY <2>3, <2>6
    <3> HIDE DEF p, a
    <3>2. \A j \in Slots : j <= n + 1 \/ a.stops[j] = e.stops[j]
      BY <2>4, <2>5
    <3> QED
      BY <2>4, <3>1, <3>2 DEF p
  <2>7. CASE n + 1 \in due
    <3>1. n + 1 \in ActiveStops(a)
      <4>1. n + 1 \in ActiveStops(e) /\ n + 1 \in Slots
        BY <2>7 DEF ActiveStops
      <4>2. a.stops[n + 1] = e.stops[n + 1]
        BY <2>4, <4>1
      <4> QED
        BY <4>1, <4>2 DEF ActiveStops
    <3>2. p = WithdrawStop(a, n + 1)
      BY <2>3, <2>7
    <3> HIDE DEF p, a
    <3>3. EInv(v, p) /\ Disarmed(p, a, n + 1)
      BY <2>4, <3>1, <3>2, WithdrawStopKeeps
    <3>4. n + 1 \in Slots /\ EngineTyped(a)
      BY <2>4, <3>1 DEF ActiveStops, EInv
    <3>5. ActiveStops(p) = ActiveStops(a) \ {n + 1} /\ \A j \in ActiveStops(p) : p.stops[j] = a.stops[j]
      BY <3>3, <3>4, DisarmedStops
    <3>6. Kept(p)
      BY <2>4, <3>3, <3>5 DEF Disarmed, SameTrade
    <3>7. \A j \in Slots : j # n + 1 => p.stops[j] = a.stops[j]
      BY <3>3, <3>4 DEF Disarmed, EngineTyped
    <3>8. \A j \in Slots : j <= n + 1 \/ p.stops[j] = e.stops[j]
      BY <2>4, <2>5, <3>7
    <3> QED
      BY <3>3, <3>6, <3>8 DEF p
  <2> QED
    BY <2>6, <2>7
<1>5. Nat \subseteq G
  <2> HIDE DEF G
  <2> QED
    BY <1>3, <1>4, SetOfNats
<1> DEFINE a == g[ME_MAX_STOPS]
           p == maybe_emit_tob(a)
<1>6. EInv(v, a) /\ Kept(a)
  BY <1>1, <1>5
<1> HIDE DEF a
<1>7. EInv(v, p) /\ SameCore(p, a)
  BY <1>6, TopEmitted DEF EInv, BeforeTop
<1> HIDE DEF p
<1>8. StopsKept(p, e)
  BY <1>6, <1>7 DEF StopsKept, SameCore, SameTrade, ActiveStops
<1> QED
  BY <1>2, <1>7, <1>8 DEF p, a

-----------------------------------------------------------------------------
(* Cancels and modifications. *)

(* What the book holds, and nothing else, is replaced. *)
LEMMA HoldingIs ==
  ASSUME NEW e, DOMAIN e = EngineFields, NEW R
  PROVE  LET p == Holding(e, R)
         IN  /\ DOMAIN p = EngineFields /\ p.resting = R
             /\ p.next_order_id = e.next_order_id /\ p.clock = e.clock /\ p.stops = e.stops
             /\ p.lost = e.lost /\ p.last_tob = e.last_tob /\ SameTrade(p, e) /\ SameQueue(p, e)
<1> DEFINE r == Grown(e, R)
           p == [[e EXCEPT !.resting = R] EXCEPT !.roots = r]
<1>3. Holding(e, R) = p
  BY Zenon DEF Holding
<1> HIDE DEF r
<1>4. /\ DOMAIN p = EngineFields /\ p.resting = R
      /\ p.next_order_id = e.next_order_id /\ p.clock = e.clock /\ p.stops = e.stops
      /\ p.lost = e.lost /\ p.last_tob = e.last_tob /\ SameTrade(p, e) /\ SameQueue(p, e)
  BY DEF EngineFields, SameTrade, SameQueue
<1> QED
  BY <1>3, <1>4

(* p is e without the orders of one id, or else unchanged. *)
Removed(p, e, id) ==
  /\ DOMAIN p = EngineFields
  /\ p.resting = {o \in e.resting : o.id # id}
  /\ p.next_order_id = e.next_order_id /\ p.clock = e.clock /\ p.stops = e.stops
  /\ p.lost = e.lost /\ p.last_tob = e.last_tob /\ SameTrade(p, e) /\ SameQueue(p, e)

(* ob_cancel_order from the fields of the engine. *)
LEMMA CancelIs ==
  ASSUME NEW e, EngineTyped(e), NEW id
  PROVE  Removed(ob_cancel_order(e, id), e, id)
<1> DEFINE R == {o \in e.resting : o.id # id}
<1>1. DOMAIN e = EngineFields /\ ob_cancel_order(e, id) = Holding(e, R)
  BY DEF EngineTyped, ob_cancel_order
<1>2. R = {o \in e.resting : o.id # id}
  OBVIOUS
<1> HIDE DEF R
<1>3. LET p == Holding(e, R)
      IN  /\ DOMAIN p = EngineFields /\ p.resting = R
          /\ p.next_order_id = e.next_order_id /\ p.clock = e.clock /\ p.stops = e.stops
          /\ p.lost = e.lost /\ p.last_tob = e.last_tob /\ SameTrade(p, e) /\ SameQueue(p, e)
  BY <1>1, HoldingIs
<1> QED
  BY <1>1, <1>2, <1>3 DEF Removed

(* Without an order the book is still typed and numbered. *)
LEMMA RemovedKeeps ==
  ASSUME NEW e, EngineTyped(e), Numbered(e), AllSound(e), NEW p, NEW id, Removed(p, e, id)
  PROVE  /\ EngineTyped(p) /\ Numbered(p) /\ AllSound(p)
         /\ Ids(p.resting) = Ids(e.resting) \ {id}
         /\ StopIds(p) = StopIds(e)
<1>0. /\ p.resting \subseteq e.resting /\ p.next_order_id = e.next_order_id /\ p.clock = e.clock
      /\ p.stops = e.stops /\ p.lost = e.lost /\ DOMAIN p = EngineFields
      /\ p.eq = e.eq /\ p.dropped = e.dropped
      /\ p.last_trade_price = e.last_trade_price /\ p.last_taker = e.last_taker
  BY DEF Removed, SameTrade, SameQueue
<1>1. Ids(p.resting) = Ids(e.resting) \ {id}
  BY DEF Removed, Ids
<1>2. ActiveStops(p) = ActiveStops(e) /\ StopIds(p) = StopIds(e)
  BY <1>0 DEF ActiveStops, StopIds
<1>3. EngineTyped(p)
  <2>1. IsFiniteSet(p.resting)
    BY <1>0, FS_Subset DEF EngineTyped
  <2> QED
    BY <1>0, <2>1 DEF EngineTyped
<1>4. Numbered(p)
  <2>1. Apart(p.resting, p.next_order_id, p.clock)
    BY <1>0 DEF Numbered, Apart
  <2> QED
    BY <1>0, <1>1, <1>2, <2>1 DEF Numbered
<1>5. AllSound(p)
  <2>1. e.next_order_id <= p.next_order_id
    BY <1>0 DEF EngineTyped
  <2>2. \A o \in p.resting : o.id \in Ids(e.resting)
    BY <1>0 DEF Ids
  <2> QED
    BY <1>0, <1>3, <2>1, <2>2, SoundStays
<1> QED
  BY <1>1, <1>2, <1>3, <1>4, <1>5

(* Ids of resting orders are not those of stops. *)
LEMMA NotAStop ==
  ASSUME NEW e, Numbered(e), NEW o \in e.resting
  PROVE  o.id \notin StopIds(e) /\ o.id \notin e.lost
BY DEF Numbered, StopIds, Ids

(* me_cancel_order: the order leaves the book and the event tells it. *)
LEMMA CancelOrderKeeps ==
  ASSUME NEW v, NEW e, EInv(v, e), NEW o \in e.resting
  PROVE  EInv(v, me_cancel_order(e, o)) /\ StopsKept(me_cancel_order(e, o), e)
<1> DEFINE a == ob_cancel_order(e, o.id)
           ev == [type |-> "CANCELLED", id |-> o.id, order_type |-> "LIMIT", qty_original |-> o.qty,
                  qty_remain |-> 0, qty_filled |-> o.qty]
           q == eq_push(a, ev)
           p == maybe_emit_tob(q)
<1>0. EngineTyped(e) /\ Numbered(e) /\ Informed(v, e) /\ AllSound(e)
  BY DEF EInv
<1>1. me_cancel_order(e, o) = p
  BY Zenon DEF me_cancel_order, emit_order_event
<1>2. Removed(a, e, o.id)
  BY <1>0, CancelIs
<1>3. ev.type = "CANCELLED" /\ ev.id = o.id /\ ev.order_type = "LIMIT"
  OBVIOUS
<1> HIDE DEF a, ev
<1>4. /\ EngineTyped(a) /\ Numbered(a) /\ AllSound(a)
      /\ Ids(a.resting) = Ids(e.resting) \ {o.id} /\ StopIds(a) = StopIds(e)
  BY <1>0, <1>2, RemovedKeeps
<1>5. Tells(v, a, ev)
  <2> SUFFICES ASSUME a.dropped = 0
               PROVE  /\ Knows(Learn(Learnt(v, a.eq), ev), a.resting, a.lost)
                      /\ Learn(Learnt(v, a.eq), ev).stops = StopIds(a)
                      /\ Learn(Learnt(v, a.eq), ev).tob = a.last_tob
    BY DEF Tells
  <2> DEFINE k == Learnt(v, e.eq)
             n == Learn(k, ev)
  <2>0. a.lost = e.lost /\ a.eq = e.eq /\ a.dropped = e.dropped /\ a.last_tob = e.last_tob
        /\ a.resting = {w \in e.resting : w.id # o.id}
    BY <1>2 DEF Removed, SameQueue
  <2>1. Knows(k, e.resting, e.lost) /\ k.stops = StopIds(e) /\ k.tob = e.last_tob
    BY <1>0, <2>0 DEF Informed
  <2> HIDE DEF k
  <2>2. DOMAIN k = KnowledgeFields
    BY <2>1 DEF Knows, KnowledgeFields
  <2>3. /\ DOMAIN n = KnowledgeFields /\ n.orders = Without(k.orders, o.id)
        /\ n.stops = k.stops \ {o.id} /\ n.tob = k.tob
    BY <1>3, <2>2, LearnCancelled
  <2> HIDE DEF n
  <2>4. n.stops = StopIds(e)
    BY <1>0, <2>1, <2>3, NotAStop
  <2>5. /\ DOMAIN n.orders = DOMAIN k.orders \ {o.id}
        /\ \A i \in DOMAIN n.orders : n.orders[i] = k.orders[i]
    BY <2>3 DEF Without
  <2>6. DOMAIN n.orders \ a.lost = Ids(a.resting)
    BY <1>4, <2>0, <2>1, <2>5 DEF Knows
  <2>7. ASSUME NEW w \in a.resting PROVE n.orders[w.id] = w.qty
    <3>1. w.id \in Ids(a.resting) /\ w \in e.resting
      BY <2>0 DEF Ids
    <3>2. w.id \in DOMAIN n.orders
      BY <2>6, <3>1
    <3> QED
      BY <2>1, <2>5, <3>1, <3>2 DEF Knows
  <2>8. Knows(n, a.resting, a.lost)
    BY <2>3, <2>6, <2>7 DEF Knows, KnowledgeFields
  <2>9. Learn(Learnt(v, a.eq), ev) = n
    BY <2>0 DEF n, k
  <2> QED
    BY <1>4, <2>0, <2>1, <2>3, <2>4, <2>8, <2>9
<1>6. Sound(ev, a.resting, a.next_order_id)
  BY <1>3 DEF Sound
<1>7. BeforeTop(v, q) /\ SameBook(q, a) /\ SameTrade(q, a)
  BY <1>4, <1>5, <1>6, EmitTells
<1> HIDE DEF q
<1>8. EInv(v, p) /\ SameCore(p, q)
  BY <1>7, TopEmitted
<1> HIDE DEF p
<1>9. p.stops = e.stops /\ SameTrade(p, e)
  BY <1>2, <1>7, <1>8 DEF SameCore, SameBook, SameTrade, Removed
<1>10. StopsKept(p, e)
  BY <1>9 DEF StopsKept, ActiveStops
<1> QED
  BY <1>1, <1>8, <1>10
(* The modified order is back under its id, with a new time. *)
LEMMA ReplacedKeeps ==
  ASSUME NEW e, EngineTyped(e), Numbered(e), AllSound(e), NEW o \in e.resting,
         NEW new \in Order, new.id = o.id, new.ts = e.clock + 1,
         NEW p, DOMAIN p = EngineFields,
         p.resting = {w \in e.resting : w.id # o.id} \cup {new},
         p.next_order_id = e.next_order_id, p.clock = e.clock + 1, p.stops = e.stops,
         p.lost = e.lost, SameTrade(p, e), SameQueue(p, e)
  PROVE  /\ EngineTyped(p) /\ Numbered(p) /\ AllSound(p)
         /\ Ids(p.resting) = Ids(e.resting)
         /\ StopIds(p) = StopIds(e)
<1> DEFINE R == {w \in e.resting : w.id # o.id}
<1>0. /\ p.eq = e.eq /\ p.dropped = e.dropped
      /\ p.last_trade_price = e.last_trade_price /\ p.last_taker = e.last_taker
  BY DEF SameTrade, SameQueue
<1>1. Ids(p.resting) = Ids(e.resting)
  BY DEF Ids
<1>2. ActiveStops(p) = ActiveStops(e) /\ StopIds(p) = StopIds(e)
  BY DEF ActiveStops, StopIds
<1>3. e.clock \in Nat /\ e.next_order_id \in Nat /\ e.resting \subseteq Order
  BY DEF EngineTyped
<1>4. EngineTyped(p)
  <2>1. R \subseteq e.resting
    OBVIOUS
  <2>2. IsFiniteSet(R)
    BY <2>1, FS_Subset DEF EngineTyped
  <2> HIDE DEF R
  <2>3. IsFiniteSet(R \cup {new})
    BY <2>2, FS_AddElement
  <2>4. IsFiniteSet(p.resting)
    BY <2>3 DEF R
  <2>5. p.resting \subseteq Order
    BY <1>3
  <2> QED
    BY <1>0, <1>3, <2>4, <2>5 DEF EngineTyped
<1>5. Apart(p.resting, p.next_order_id, p.clock)
  <2>1. \A w \in e.resting : w.ts \in Nat /\ w.id \in Nat /\ w.ts <= e.clock /\ w.id < e.next_order_id
    BY <1>3 DEF Order, Numbered, Apart
  <2>2. \A w \in p.resting : w = new \/ (w \in e.resting /\ w.id # new.id /\ w.ts # new.ts)
    BY <1>3, <2>1
  <2>3. \A w, x \in e.resting : w.id = x.id \/ w.ts = x.ts => w = x
    BY DEF Numbered, Apart
  <2>4. \A w, x \in p.resting : w.id = x.id \/ w.ts = x.ts => w = x
    BY <2>2, <2>3
  <2>5. \A w \in p.resting : w.id < p.next_order_id /\ w.ts <= p.clock
    BY <1>3, <2>1, <2>2
  <2> QED
    BY <2>4, <2>5 DEF Apart
<1>6. Numbered(p)
  BY <1>0, <1>1, <1>2, <1>5 DEF Numbered
<1>7. AllSound(p)
  <2>1. e.next_order_id <= p.next_order_id
    BY <1>3
  <2>2. \A w \in p.resting : w.id \in Ids(e.resting)
    BY DEF Ids
  <2> QED
    BY <1>0, <1>4, <2>1, <2>2, SoundStays
<1> QED
  BY <1>1, <1>2, <1>4, <1>6, <1>7

(* Knowing one order's new quantity. *)
LEMMA KnowsWith ==
  ASSUME NEW k, NEW n, NEW R, NEW S, NEW lost, Knows(k, R, lost), NEW o \in S,
         o.id \notin lost, DOMAIN n = KnowledgeFields, n.orders = With(k.orders, o.id, o.qty),
         Ids(S) = Ids(R) \cup {o.id},
         \A w \in S : w = o \/ (w \in R /\ w.id # o.id)
  PROVE  Knows(n, S, lost)
<1>1. DOMAIN n.orders = DOMAIN k.orders \cup {o.id}
  BY DEF With
<1>2. \A j \in DOMAIN n.orders : n.orders[j] = IF j = o.id THEN o.qty ELSE k.orders[j]
  BY <1>1 DEF With
<1>3. DOMAIN n.orders \ lost = Ids(S)
  BY <1>1 DEF Knows
<1>4. ASSUME NEW w \in S PROVE n.orders[w.id] = w.qty
  <2>1. w.id \in DOMAIN n.orders
    BY <1>3 DEF Ids
  <2>2. CASE w = o
    BY <1>2, <2>1, <2>2
  <2>3. CASE w # o
    <3>1. w \in R /\ w.id # o.id
      BY <2>3
    <3>2. k.orders[w.id] = w.qty
      BY <3>1 DEF Knows
    <3> QED
      BY <1>2, <2>1, <3>1, <3>2
  <2> QED
    BY <2>2, <2>3
<1> QED
  BY <1>3, <1>4 DEF Knows, KnowledgeFields

IsChanged(new, o, price, qty, ts) == new = [o EXCEPT !.price = price, !.qty = qty, !.ts = ts]

(* An order with a new price, quantity and time is an order. *)
LEMMA OrderChanged ==
  ASSUME NEW o \in Order, NEW price \in Nat, NEW qty \in Nat \ {0}, NEW ts \in Nat,
         NEW new, IsChanged(new, o, price, qty, ts)
  PROVE  new \in Order /\ new.id = o.id /\ new.ts = ts /\ new.qty = qty
<1> DEFINE a == [o EXCEPT !.price = price]
           b == [a EXCEPT !.qty = qty]
           c == [b EXCEPT !.ts = ts]
<1>1. new = c
  BY DEF IsChanged
<1>2. a \in Order /\ a.id = o.id
  BY DEF Order
<1> HIDE DEF a
<1>3. b \in Order /\ b.id = o.id /\ b.qty = qty
  BY <1>2 DEF Order
<1> HIDE DEF b
<1>4. c \in Order /\ c.id = o.id /\ c.qty = qty /\ c.ts = ts
  BY <1>3 DEF Order
<1> QED
  BY <1>1, <1>4

(* me_modify_order: the order comes back changed and told, or is lost untold. *)
LEMMA ModifyOrderKeeps ==
  ASSUME NEW v, NEW e, EInv(v, e), NEW o \in e.resting, NEW price \in Nat, NEW qty \in Nat \ {0}
  PROVE  EInv(v, me_modify_order(e, o, price, qty)) /\ StopsKept(me_modify_order(e, o, price, qty), e)
<1> DEFINE c == ob_cancel_order(e, o.id)
           new == [o EXCEPT !.price = price, !.qty = qty, !.ts = e.clock + 1]
           h == Holding(c, c.resting \cup {new})
           a == [h EXCEPT !.clock = @ + 1]
           ev == [type |-> "MODIFIED", id |-> o.id, order_type |-> "LIMIT", price |-> price,
                  qty_original |-> o.qty, qty_remain |-> qty, qty_filled |-> 0]
           q == eq_push(a, ev)
           p == maybe_emit_tob(q)
           l == [c EXCEPT !.clock = @ + 1, !.lost = @ \cup {o.id}]
           room == HasRoom(c.resting, o.side, price, OB_MAX_LEVELS)
<1>0. EngineTyped(e) /\ Numbered(e) /\ Informed(v, e) /\ TopKept(e) /\ AllSound(e)
  BY DEF EInv
<1>1. me_modify_order(e, o, price, qty) = IF room THEN p ELSE l
  BY Zenon DEF me_modify_order, emit_modified
<1>2. Removed(c, e, o.id)
  BY <1>0, CancelIs
<1>3. ev.type = "MODIFIED" /\ ev.id = o.id /\ ev.order_type = "LIMIT" /\ ev.qty_remain = qty
  OBVIOUS
<1>4. /\ e.resting \subseteq Order /\ e.clock \in Nat /\ e.next_order_id \in Nat /\ DOMAIN e = EngineFields
      /\ o \in Order
  BY <1>0 DEF EngineTyped
<1>5. new \in Order /\ new.id = o.id /\ new.ts = e.clock + 1 /\ new.qty = qty
  <2>1. e.clock + 1 \in Nat
    BY <1>4
  <2>2. IsChanged(new, o, price, qty, e.clock + 1)
    BY Zenon DEF IsChanged
  <2> HIDE DEF new
  <2> QED
    BY <1>4, <2>1, <2>2, OrderChanged
<1> HIDE DEF c, ev, new, room
<1>6. /\ EngineTyped(c) /\ Numbered(c) /\ AllSound(c)
      /\ Ids(c.resting) = Ids(e.resting) \ {o.id} /\ StopIds(c) = StopIds(e)
  BY <1>0, <1>2, RemovedKeeps
<1>7. o.id \in Nat /\ o.id < e.next_order_id /\ o.id \in Ids(e.resting) /\ o.id \notin e.lost
  BY <1>0, <1>4, NotAStop DEF Order, Numbered, Apart, Ids
<1>8. CASE room
  <2>1. /\ DOMAIN h = EngineFields /\ h.resting = c.resting \cup {new}
        /\ h.next_order_id = c.next_order_id /\ h.clock = c.clock /\ h.stops = c.stops
        /\ h.lost = c.lost /\ h.last_tob = c.last_tob /\ SameTrade(h, c) /\ SameQueue(h, c)
    BY <1>6, HoldingIs DEF EngineTyped
  <2> HIDE DEF h
  <2>2. /\ DOMAIN a = EngineFields /\ a.resting = h.resting
        /\ a.next_order_id = h.next_order_id /\ a.clock = h.clock + 1 /\ a.stops = h.stops
        /\ a.lost = h.lost /\ a.last_tob = h.last_tob /\ SameTrade(a, h) /\ SameQueue(a, h)
    BY <2>1 DEF EngineFields, SameTrade, SameQueue
  <2> HIDE DEF a
  <2>3. /\ DOMAIN a = EngineFields
        /\ a.resting = {w \in e.resting : w.id # o.id} \cup {new}
        /\ a.next_order_id = e.next_order_id /\ a.clock = e.clock + 1 /\ a.stops = e.stops
        /\ a.lost = e.lost /\ a.last_tob = e.last_tob /\ SameTrade(a, e) /\ SameQueue(a, e)
    BY <1>2, <2>1, <2>2 DEF Removed, SameTrade, SameQueue
  <2>4. /\ EngineTyped(a) /\ Numbered(a) /\ AllSound(a)
        /\ Ids(a.resting) = Ids(e.resting) /\ StopIds(a) = StopIds(e)
    BY <1>0, <1>5, <2>3, ReplacedKeeps
  <2>5. Tells(v, a, ev)
    <3> SUFFICES ASSUME a.dropped = 0
                 PROVE  /\ Knows(Learn(Learnt(v, a.eq), ev), a.resting, a.lost)
                        /\ Learn(Learnt(v, a.eq), ev).stops = StopIds(a)
                        /\ Learn(Learnt(v, a.eq), ev).tob = a.last_tob
      BY DEF Tells
    <3> DEFINE k == Learnt(v, e.eq)
               n == Learn(k, ev)
    <3>0. a.eq = e.eq /\ a.dropped = e.dropped
      BY <2>3 DEF SameQueue
    <3>1. Knows(k, e.resting, e.lost) /\ k.stops = StopIds(e) /\ k.tob = e.last_tob
      BY <1>0, <3>0 DEF Informed
    <3> HIDE DEF k
    <3>2. DOMAIN k = KnowledgeFields
      BY <3>1 DEF Knows, KnowledgeFields
    <3>3. /\ DOMAIN n = KnowledgeFields /\ n.orders = With(k.orders, o.id, qty)
          /\ n.stops = k.stops /\ n.tob = k.tob
      BY <1>3, <3>2, LearnOrder
    <3> HIDE DEF n
    <3>4. Knows(n, a.resting, e.lost)
      <4>1. Ids(a.resting) = Ids(e.resting) \cup {new.id}
        BY <1>5, <1>7, <2>4
      <4>2. \A w \in a.resting : w = new \/ (w \in e.resting /\ w.id # new.id)
        BY <1>5, <2>3
      <4>3. new \in a.resting
        BY <2>3
      <4> QED
        BY <1>5, <1>7, <3>1, <3>3, <4>1, <4>2, <4>3, KnowsWith
    <3>5. Learn(Learnt(v, a.eq), ev) = n
      BY <3>0 DEF n, k
    <3> QED
      BY <2>3, <2>4, <3>1, <3>3, <3>4, <3>5
  <2>6. Sound(ev, a.resting, a.next_order_id)
    BY <1>3 DEF Sound
  <2>7. BeforeTop(v, q) /\ SameBook(q, a) /\ SameTrade(q, a)
    BY <2>4, <2>5, <2>6, EmitTells
  <2> HIDE DEF q
  <2>8. EInv(v, p) /\ SameCore(p, q)
    BY <2>7, TopEmitted
  <2> HIDE DEF p
  <2>9. p.stops = e.stops /\ SameTrade(p, e)
    BY <2>3, <2>7, <2>8 DEF SameCore, SameBook, SameTrade
  <2>10. StopsKept(p, e)
    BY <2>9 DEF StopsKept, ActiveStops
  <2> QED
    BY <1>1, <1>8, <2>8, <2>10
<1>9. CASE ~room
  <2>1. /\ DOMAIN l = EngineFields /\ l.resting = c.resting
        /\ l.next_order_id = c.next_order_id /\ l.clock = c.clock + 1 /\ l.stops = c.stops
        /\ l.lost = c.lost \cup {o.id} /\ l.last_tob = c.last_tob /\ SameTrade(l, c) /\ SameQueue(l, c)
    BY <1>6 DEF EngineTyped, EngineFields, SameTrade, SameQueue
  <2> HIDE DEF l
  <2>2. /\ l.resting = c.resting /\ l.clock = e.clock + 1 /\ l.stops = e.stops
        /\ l.next_order_id = e.next_order_id /\ l.lost = e.lost \cup {o.id}
        /\ l.last_tob = e.last_tob /\ l.eq = e.eq /\ l.dropped = e.dropped
        /\ l.last_trade_price = e.last_trade_price /\ l.last_taker = e.last_taker
        /\ l.last_trade_price = c.last_trade_price /\ l.last_taker = c.last_taker
        /\ l.eq = c.eq /\ l.dropped = c.dropped /\ c.clock = e.clock /\ c.next_order_id = e.next_order_id
        /\ c.lost = e.lost /\ c.stops = e.stops
    BY <1>2, <2>1 DEF Removed, SameTrade, SameQueue
  <2>3. ActiveStops(l) = ActiveStops(c) /\ StopIds(l) = StopIds(c)
    BY <2>2 DEF ActiveStops, StopIds
  <2>4. EngineTyped(l)
    BY <1>4, <1>6, <1>7, <2>1, <2>2 DEF EngineTyped
  <2>5. Numbered(l)
    <3>1. Apart(l.resting, l.next_order_id, l.clock)
      <4>1. \A w \in c.resting : w.ts \in Nat /\ w.ts <= e.clock
        BY <1>6, <2>2 DEF EngineTyped, Order, Numbered, Apart
      <4>2. \A w \in c.resting : w.ts <= e.clock + 1
        BY <1>4, <4>1
      <4> QED
        BY <1>6, <2>2, <4>2 DEF Numbered, Apart
    <3>2. l.lost \cap Ids(l.resting) = {}
      BY <1>0, <1>6, <2>2 DEF Numbered
    <3>3. \A n \in l.lost : n < l.next_order_id
      BY <1>0, <1>7, <2>2 DEF Numbered
    <3> QED
      BY <1>6, <2>2, <2>3, <3>1, <3>2, <3>3 DEF Numbered
  <2>6. AllSound(l)
    BY <1>6, <2>2 DEF AllSound
  <2>7. Informed(v, l)
    <3> SUFFICES ASSUME l.dropped = 0
                 PROVE  /\ Knows(Learnt(v, e.eq), c.resting, e.lost \cup {o.id})
                        /\ Learnt(v, e.eq).stops = StopIds(e)
                        /\ Learnt(v, e.eq).tob = e.last_tob
      BY <1>6, <2>2, <2>3 DEF Informed
    <3>1. /\ Knows(Learnt(v, e.eq), e.resting, e.lost)
          /\ Learnt(v, e.eq).stops = StopIds(e) /\ Learnt(v, e.eq).tob = e.last_tob
      BY <1>0, <2>2 DEF Informed
    <3>2. c.resting \subseteq e.resting
      BY <1>2 DEF Removed
    <3> DEFINE k == Learnt(v, e.eq)
    <3> HIDE DEF k
    <3>3. Knows(k, e.resting, e.lost)
      BY <3>1 DEF k
    <3>4. DOMAIN k.orders \ (e.lost \cup {o.id}) = Ids(c.resting)
      BY <1>6, <3>3 DEF Knows
    <3>5. Knows(k, c.resting, e.lost \cup {o.id})
      BY <3>2, <3>3, <3>4 DEF Knows
    <3> QED
      BY <3>1, <3>5 DEF k
  <2>8. TopKept(l)
    BY <2>2 DEF TopKept
  <2>9. StopsKept(l, e)
    BY <2>2 DEF StopsKept, SameTrade, ActiveStops
  <2>10. EInv(v, l)
    BY <2>4, <2>5, <2>6, <2>7, <2>8 DEF EInv
  <2> QED
    BY <1>1, <1>9, <2>9, <2>10
<1> QED
  BY <1>8, <1>9

-----------------------------------------------------------------------------
(* The fill loop. *)

(* Some order is first among the orders of a side. *)
LEMMA FirstExists ==
  ASSUME NEW S, IsFiniteSet(S), S # {}, S \subseteq Order,
         \A o, w \in S : o.side = w.side /\ (o.ts = w.ts => o = w)
  PROVE  \E o \in S : IsFirst(o, S)
<1> DEFINE Before(o) == {w \in S : Precedes(w, o)}
           G == {Before(o) : o \in S}
<1>1. \A o \in S : o.side \in Side /\ o.price \in Nat /\ o.ts \in Nat
  BY DEF Order
<1>2. G \subseteq SUBSET S /\ G # {}
  <2>1. \A o \in S : Before(o) \in SUBSET S
    OBVIOUS
  <2> HIDE DEF Before
  <2>2. G \subseteq SUBSET S
    BY <2>1
  <2>3. PICK o \in S : TRUE
    OBVIOUS
  <2>4. Before(o) \in G
    OBVIOUS
  <2> QED
    BY <2>2, <2>4
<1>3. PICK m \in G : \A y \in G : y \subseteq m => y = m
  <2> HIDE DEF G
  <2> QED
    BY <1>2, SmallestSubset
<1>4. PICK o \in S : m = Before(o)
  BY <1>3
<1>5. ASSUME NEW w \in S, w # o, ~Precedes(o, w) PROVE FALSE
  <2>1. w.side = o.side /\ w.ts # o.ts
    BY <1>5
  <2>2. Precedes(w, o)
    BY <1>1, <1>5, <2>1 DEF Precedes, Better
  <2>3. ~Precedes(w, w)
    BY <1>1 DEF Precedes, Better
  <2>4. ASSUME NEW x \in S, Precedes(x, w) PROVE Precedes(x, o)
    <3>1. x.side = w.side
      OBVIOUS
    <3> QED
      BY <1>1, <2>1, <2>2, <2>4, <3>1 DEF Precedes, Better
  <2>5. Before(w) \subseteq Before(o) /\ w \in Before(o) /\ w \notin Before(w)
    BY <2>2, <2>3, <2>4
  <2>6. Before(w) \in G
    OBVIOUS
  <2> HIDE DEF Before, G
  <2> QED
    BY <1>3, <1>4, <2>5, <2>6
<1>6. IsFirst(o, S)
  BY <1>5 DEF IsFirst
<1> QED
  BY <1>6

(* The quantity of orders. *)
LEMMA TotalType ==
  ASSUME NEW S, IsFiniteSet(S), S \subseteq Order
  PROVE  Total(S) \in Int /\ (S = {} => Total(S) = 0)
<1> DEFINE f == [o \in S |-> o.qty]
<1>1. \A o \in S : f[o] \in Int
  BY DEF Order
<1>2. Total(S) = SumFunctionOnSet(f, S)
  <2>1. DOMAIN f = S
    OBVIOUS
  <2> HIDE DEF f
  <2>2. Total(S) = SumFunction(f)
    BY Zenon DEF Total, f
  <2> QED
    BY <2>1, <2>2 DEF SumFunction
<1> HIDE DEF f
<1> QED
  BY <1>1, <1>2, SumType

(* The total as the library's sum of a function on a set. *)
LEMMA TotalIs ==
  ASSUME NEW S, IsFiniteSet(S), NEW g, \A o \in S : g[o] = o.qty
  PROVE  Total(S) = SumFunctionOnSet(g, S)
<1> DEFINE f == [o \in S |-> o.qty]
<1>1. DOMAIN f = S /\ \A o \in S : f[o] = g[o]
  OBVIOUS
<1> HIDE DEF f
<1>2. Total(S) = SumFunction(f)
  BY Zenon DEF Total, f
<1>3. Total(S) = SumFunctionOnSet(f, S)
  BY <1>1, <1>2 DEF SumFunction
<1> QED
  BY <1>1, <1>3, SumOfEqual

(* The total, one order aside. *)
LEMMA TotalWithout ==
  ASSUME NEW S, IsFiniteSet(S), S \subseteq Order, NEW o \in S
  PROVE  Total(S) = o.qty + Total(S \ {o})
<1> DEFINE g == [w \in Order |-> w.qty]
<1>1. \A w \in S : g[w] \in Int /\ g[w] = w.qty
  BY DEF Order
<1> HIDE DEF g
<1>2. IsFiniteSet(S \ {o}) /\ \A w \in S \ {o} : g[w] = w.qty
  BY <1>1, FS_RemoveElement
<1>3. Total(S) = SumFunctionOnSet(g, S)
  BY <1>1, TotalIs
<1>4. Total(S \ {o}) = SumFunctionOnSet(g, S \ {o})
  <2> DEFINE T == S \ {o}
  <2> HIDE DEF T
  <2>1. IsFiniteSet(T) /\ \A w \in T : g[w] = w.qty
    BY <1>2 DEF T
  <2>2. Total(T) = SumFunctionOnSet(g, T)
    BY <2>1, TotalIs
  <2> QED
    BY <2>2 DEF T
<1>5. SumFunctionOnSet(g, S) = g[o] + SumFunctionOnSet(g, S \ {o})
  BY <1>1, SumSplit
<1> QED
  BY <1>1, <1>3, <1>4, <1>5
(* Orders of a book: each has an id and a time of its own. *)
IsBook(R) ==
  /\ R \subseteq Order /\ IsFiniteSet(R)
  /\ \A o, w \in R : o.id = w.id \/ o.ts = w.ts => o = w

Reduced(o, n) == [o EXCEPT !.qty = @ - n]

FillOf(o, n) == [resting_id |-> o.id, price |-> o.price, qty |-> n]

(* A turn of the fill loop took n from the order o. *)
Turn(a, acc, o, n) ==
  /\ a.resting = (acc.resting \ {o}) \cup (IF o.qty > n THEN {Reduced(o, n)} ELSE {})
  /\ a.left = acc.left - n
  /\ a.fills = Append(acc.fills, FillOf(o, n))
  /\ n \in Nat \ {0} /\ n <= o.qty /\ n <= acc.left /\ (n = o.qty \/ n = acc.left)

(* The eligible orders are resting, finitely many, and all on one side. *)
LEMMA EligibleIs ==
  ASSUME NEW R, IsBook(R), NEW side \in Side, NEW price
  PROVE  /\ Eligible(R, side, price) \subseteq R /\ IsFiniteSet(Eligible(R, side, price))
         /\ \A o, w \in Eligible(R, side, price) : o.side = w.side
<1> DEFINE A == Eligible(R, side, price)
<1>1. A \subseteq R /\ \A o \in A : o.side = Opp(side)
  BY DEF Eligible
<1>2. IsFiniteSet(A)
  BY <1>1, FS_Subset DEF IsBook
<1> QED
  BY <1>1, <1>2

(* NextFill takes a turn, or the loop has ended. *)
LEMMA NextFillIs ==
  ASSUME NEW acc, IsBook(acc.resting), acc.left \in Nat, NEW side \in Side, NEW price
  PROVE  LET able == Eligible(acc.resting, side, price)
             a == NextFill(acc, side, price)
         IN  \/ a = acc /\ (acc.left = 0 \/ able = {})
             \/ \E o \in able : \E n \in Nat : Turn(a, acc, o, n)
<1> DEFINE able == Eligible(acc.resting, side, price)
           o == CHOOSE w \in able : IsFirst(w, able)
           n == Lesser(acc.left, o.qty)
           a == NextFill(acc, side, price)
           c == [resting |-> (acc.resting \ {o}) \cup
                             (IF o.qty > n THEN {[o EXCEPT !.qty = @ - n]} ELSE {}),
                 left |-> acc.left - n,
                 fills |-> Append(acc.fills, [resting_id |-> o.id, price |-> o.price, qty |-> n])]
<1>1. a = IF acc.left = 0 \/ able = {} THEN acc ELSE c
  BY Zenon DEF NextFill
<1>2. ASSUME acc.left # 0, able # {} PROVE Turn(c, acc, o, n) /\ o \in able /\ n \in Nat
  <2>1. \E w \in able : IsFirst(w, able)
    <3>1. able \subseteq acc.resting /\ IsFiniteSet(able) /\ \A x, w \in able : x.side = w.side
      BY EligibleIs
    <3> HIDE DEF able
    <3>2. able \subseteq Order /\ \A x, w \in able : x.side = w.side /\ (x.ts = w.ts => x = w)
      BY <3>1 DEF IsBook
    <3> QED
      BY <1>2, <3>1, <3>2, FirstExists
  <2>2. o \in able
    <3> HIDE DEF able
    <3> QED
      BY <2>1
  <2>3. o \in Order
    BY <2>2, EligibleIs DEF IsBook
  <2>4. c.resting = (acc.resting \ {o}) \cup (IF o.qty > n THEN {Reduced(o, n)} ELSE {})
    <3> HIDE DEF n, o, able
    <3> QED
      BY Zenon DEF Reduced
  <2> HIDE DEF o, able
  <2>5. c.left = acc.left - n /\ c.fills = Append(acc.fills, FillOf(o, n))
    <3> HIDE DEF n
    <3> QED
      BY DEF FillOf
  <2>6. n \in Nat \ {0} /\ n <= o.qty /\ n <= acc.left /\ (n = o.qty \/ n = acc.left)
    <3>1. o.qty \in Nat \ {0}
      BY <2>3 DEF Order
    <3> QED
      BY <1>2, <3>1 DEF Lesser
  <2> HIDE DEF c, n
  <2> QED
    BY <2>2, <2>4, <2>5, <2>6 DEF Turn
<1> HIDE DEF c, n, o, able, a
<1> QED
  BY <1>1, <1>2 DEF a, able

(* What is left of the order that was taken from. *)
LEMMA ReducedIs ==
  ASSUME NEW o \in Order, NEW n \in Nat, n < o.qty
  PROVE  /\ Reduced(o, n) \in Order /\ Reduced(o, n).id = o.id /\ Reduced(o, n).ts = o.ts
         /\ Reduced(o, n).side = o.side /\ Reduced(o, n).price = o.price
         /\ Reduced(o, n).qty = o.qty - n
<1>1. o.qty \in Nat /\ o.qty - n \in Nat \ {0}
  BY DEF Order
<1> DEFINE q == o.qty - n
<1>2. Reduced(o, n) = [o EXCEPT !.qty = q]
  BY DEF Reduced
<1> HIDE DEF q
<1>3. q \in Nat \ {0}
  BY <1>1 DEF q
<1> QED
  BY <1>2, <1>3 DEF Order, q

(* After a turn the book is a book, of the same orders or fewer. *)
LEMMA TurnKeepsBook ==
  ASSUME NEW acc, IsBook(acc.resting), NEW o \in acc.resting, NEW n, NEW a, Turn(a, acc, o, n)
  PROVE  /\ IsBook(a.resting)
         /\ \A w \in a.resting : \E x \in acc.resting : w.id = x.id /\ w.ts = x.ts
<1> DEFINE r == Reduced(o, n)
           S == acc.resting \ {o}
<1>1. o \in Order /\ n \in Nat /\ n <= o.qty /\ o.qty \in Nat
  BY DEF IsBook, Turn, Order
<1>2. CASE n < o.qty
  <2>1. r \in Order /\ r.id = o.id /\ r.ts = o.ts
    BY <1>1, <1>2, ReducedIs
  <2>2. a.resting = S \cup {r}
    BY <1>1, <1>2 DEF Turn
  <2> HIDE DEF r
  <2>3. IsFiniteSet(S)
    BY FS_RemoveElement DEF IsBook
  <2> DEFINE T == S \cup {r}
  <2>4. IsFiniteSet(T)
    <3> HIDE DEF S
    <3> QED
      BY <2>3, FS_AddElement
  <2>5. T \subseteq Order
    BY <2>1 DEF IsBook
  <2>6. \A w \in T : w = r \/ (w \in acc.resting /\ w # o)
    OBVIOUS
  <2>7. \A w, x \in T : w.id = x.id \/ w.ts = x.ts => w = x
    BY <2>1, <2>6 DEF IsBook
  <2>8. \A w \in T : \E x \in acc.resting : w.id = x.id /\ w.ts = x.ts
    BY <2>1, <2>6
  <2> HIDE DEF T
  <2>9. IsBook(T)
    BY <2>4, <2>5, <2>7 DEF IsBook
  <2> QED
    BY <2>2, <2>8, <2>9 DEF T
<1>3. CASE ~(n < o.qty)
  <2>1. a.resting = S
    BY <1>1, <1>3 DEF Turn
  <2>2. IsFiniteSet(S)
    BY FS_RemoveElement DEF IsBook
  <2>3. IsBook(S)
    BY <2>2 DEF IsBook
  <2> QED
    BY <2>1, <2>3
<1> QED
  BY <1>2, <1>3

(* A turn takes its quantity from what can be taken, and an order from      *)
(* those that can be taken from unless nothing is left to fill.             *)
TakesOne(a, acc, o, n, side, price) ==
  /\ Total(Eligible(a.resting, side, price)) = Total(Eligible(acc.resting, side, price)) - n
  /\ \/ a.left = 0
     \/ Eligible(a.resting, side, price) = Eligible(acc.resting, side, price) \ {o}

(* A turn lowers the eligible total by what it fills. *)
LEMMA TurnTakes ==
  ASSUME NEW acc, IsBook(acc.resting), acc.left \in Nat, NEW side \in Side, NEW price,
         NEW o \in Eligible(acc.resting, side, price), NEW n, NEW a, Turn(a, acc, o, n)
  PROVE  TakesOne(a, acc, o, n, side, price)
<1> DEFINE A == Eligible(acc.resting, side, price)
           B == Eligible(a.resting, side, price)
           r == Reduced(o, n)
<1>1. o \in acc.resting /\ A \subseteq acc.resting /\ IsFiniteSet(A)
  BY EligibleIs
<1>2. o \in Order /\ n \in Nat /\ n <= o.qty /\ o.qty \in Nat /\ A \subseteq Order
  BY <1>1 DEF IsBook, Turn, Order
<1>3. Total(A) = o.qty + Total(A \ {o})
  <2> HIDE DEF A
  <2> QED
    BY <1>1, <1>2, TotalWithout DEF A
<1>4. CASE n < o.qty
  <2>1. r \in Order /\ r.side = o.side /\ r.price = o.price /\ r.qty = o.qty - n /\ r.id = o.id
    BY <1>2, <1>4, ReducedIs
  <2>2. a.resting = (acc.resting \ {o}) \cup {r}
    BY <1>2, <1>4 DEF Turn
  <2>3. r # o
    BY <1>2, <2>1 DEF Turn
  <2> HIDE DEF r
  <2>4. r \notin acc.resting
    BY <1>1, <2>1, <2>3 DEF IsBook
  <2>5. B = (A \ {o}) \cup {r}
    BY <2>1, <2>2 DEF Eligible
  <2>6. B \ {r} = A \ {o}
    BY <1>1, <2>4, <2>5
  <2>7. IsFiniteSet(A \ {o})
    <3> HIDE DEF A
    <3> QED
      BY <1>1, FS_RemoveElement
  <2>8. IsFiniteSet(B) /\ B \subseteq Order /\ r \in B
    <3> DEFINE S == A \ {o}
    <3>1. IsFiniteSet(S) /\ S \subseteq Order
      BY <1>2, <2>7
    <3> HIDE DEF S
    <3>2. IsFiniteSet(S \cup {r}) /\ S \cup {r} \subseteq Order /\ r \in S \cup {r}
      BY <2>1, <3>1, FS_AddElement
    <3> QED
      BY <2>5, <3>2 DEF S
  <2> DEFINE S == A \ {o}
  <2>9. Total(S) \in Int
    <3>1. S \subseteq Order /\ IsFiniteSet(S)
      BY <1>2, <2>7
    <3> HIDE DEF S
    <3> QED
      BY <3>1, TotalType
  <2> HIDE DEF B
  <2>10. Total(B) = r.qty + Total(B \ {r})
    BY <2>8, TotalWithout
  <2>11. Total(B) = r.qty + Total(S) /\ Total(A) = o.qty + Total(S)
    BY <1>3, <2>6, <2>10
  <2> HIDE DEF S, A
  <2>12. Total(B) = Total(A) - n
    BY <1>2, <2>1, <2>9, <2>11
  <2>13. a.left = 0
    BY <1>2, <1>4 DEF Turn
  <2> QED
    BY <2>12, <2>13 DEF A, B, TakesOne
<1>5. CASE ~(n < o.qty)
  <2>1. n = o.qty
    BY <1>2, <1>5
  <2>2. a.resting = acc.resting \ {o}
    BY <1>2, <1>5 DEF Turn
  <2>3. B = A \ {o}
    BY <2>2 DEF Eligible
  <2> DEFINE S == A \ {o}
  <2>4. Total(S) \in Int
    <3>1. S \subseteq Order /\ IsFiniteSet(S)
      <4> HIDE DEF A
      <4> QED
        BY <1>1, <1>2, FS_RemoveElement
    <3> HIDE DEF S
    <3> QED
      BY <3>1, TotalType
  <2>5. B = S /\ Total(A) = o.qty + Total(S)
    BY <1>3, <2>3
  <2> HIDE DEF S, A, B
  <2>6. Total(B) = Total(A) - n
    BY <1>2, <2>1, <2>4, <2>5
  <2> QED
    BY <2>3, <2>6 DEF A, B, TakesOne
<1> QED
  BY <1>4, <1>5
(* What emit_trade emits. *)
TradeEvent(id, side, fill) ==
  [type |-> "TRADE", id |-> id, side |-> side, resting_id |-> fill.resting_id,
   price |-> fill.price, qty |-> fill.qty]

(* k and n differ in the orders they know alone. *)
SameButOrders(n, k) == DOMAIN n = KnowledgeFields /\ n.stops = k.stops /\ n.tob = k.tob

(* Who knows the book before a turn knows it after the event of its trade.  *)
LEMMA TurnTold ==
  ASSUME NEW acc, IsBook(acc.resting), NEW o \in acc.resting, NEW n, NEW a, Turn(a, acc, o, n),
         NEW k, NEW lost, Knows(k, acc.resting, lost), lost \cap Ids(acc.resting) = {},
         NEW id, NEW side
  PROVE  LET m == Learn(k, TradeEvent(id, side, FillOf(o, n)))
         IN  Knows(m, a.resting, lost) /\ SameButOrders(m, k)
<1> DEFINE ev == TradeEvent(id, side, FillOf(o, n))
           m == Learn(k, ev)
           r == Reduced(o, n)
           left == k.orders[o.id] - n
<1>1. ev.type = "TRADE" /\ ev.resting_id = o.id /\ ev.qty = n
  BY DEF TradeEvent, FillOf
<1>2. DOMAIN k = KnowledgeFields
  BY DEF Knows, KnowledgeFields
<1>3. o.id \in Ids(acc.resting) /\ o.id \in DOMAIN k.orders /\ k.orders[o.id] = o.qty /\ o.id \notin lost
  BY DEF Knows, Ids
<1>4. o \in Order /\ n \in Nat /\ n <= o.qty /\ o.qty \in Nat
  BY DEF IsBook, Turn, Order
<1> HIDE DEF ev
<1>5. /\ DOMAIN m = KnowledgeFields
      /\ m.orders = IF left > 0 THEN With(k.orders, o.id, left) ELSE Without(k.orders, o.id)
      /\ m.stops = k.stops /\ m.tob = k.tob
  BY <1>1, <1>2, <1>3, LearnTrade
<1> HIDE DEF m
<1>6. SameButOrders(m, k)
  BY <1>5 DEF SameButOrders
<1>7. CASE n < o.qty
  <2>1. r \in Order /\ r.id = o.id /\ r.qty = left
    BY <1>3, <1>4, <1>7, ReducedIs
  <2>2. a.resting = (acc.resting \ {o}) \cup {r}
    BY <1>4, <1>7 DEF Turn
  <2>3. m.orders = With(k.orders, r.id, r.qty)
    BY <1>3, <1>4, <1>5, <1>7, <2>1
  <2> HIDE DEF r, left
  <2>4. r \in a.resting /\ r.id \notin lost
    BY <1>3, <2>1, <2>2
  <2>5. \A w \in a.resting : w = r \/ (w \in acc.resting /\ w.id # r.id)
    BY <2>1, <2>2 DEF IsBook
  <2>6. Ids(a.resting) = Ids(acc.resting) \cup {r.id}
    <3>1. Ids(a.resting) \subseteq Ids(acc.resting) \cup {r.id}
      BY <2>5 DEF Ids
    <3>2. \A w \in acc.resting : w.id \in Ids(a.resting)
      BY <2>1, <2>2 DEF Ids
    <3>3. r.id \in Ids(a.resting)
      BY <2>4 DEF Ids
    <3> QED
      BY <3>1, <3>2, <3>3 DEF Ids
  <2>7. Knows(m, a.resting, lost)
    BY <1>5, <2>3, <2>4, <2>5, <2>6, KnowsWith
  <2> QED
    BY <1>6, <2>7 DEF m, ev
<1>8. CASE ~(n < o.qty)
  <2>1. a.resting = acc.resting \ {o}
    BY <1>4, <1>8 DEF Turn
  <2>2. m.orders = Without(k.orders, o.id)
    BY <1>3, <1>4, <1>5, <1>8
  <2>3. Ids(a.resting) = Ids(acc.resting) \ {o.id}
    BY <2>1 DEF Ids, IsBook
  <2>4. DOMAIN m.orders = DOMAIN k.orders \ {o.id} /\ \A j \in DOMAIN m.orders : m.orders[j] = k.orders[j]
    BY <2>2 DEF Without
  <2>5. DOMAIN m.orders \ lost = Ids(a.resting)
    BY <2>3, <2>4 DEF Knows
  <2>6. \A w \in a.resting : m.orders[w.id] = w.qty
    <3>1. \A w \in a.resting : w.id \in DOMAIN m.orders /\ w \in acc.resting
      BY <2>1, <2>5 DEF Ids
    <3> QED
      BY <2>4, <3>1 DEF Knows
  <2>7. Knows(m, a.resting, lost)
    BY <1>5, <2>5, <2>6 DEF Knows, KnowledgeFields
  <2> QED
    BY <1>6, <2>7 DEF m, ev
<1> QED
  BY <1>7, <1>8

(* The knowledge along the fills, and their quantities added up. *)
Learning(tr, k, id, side, fills) ==
  tr[0] = k /\ \A j \in 1..Len(fills) : tr[j] = Learn(tr[j - 1], TradeEvent(id, side, fills[j]))

Adding(su, fills) ==
  su[0] = 0 /\ \A j \in 1..Len(fills) : su[j] = su[j - 1] + fills[j].qty

(* Going on with one fill more. *)
LEMMA LearningMore ==
  ASSUME NEW tr, NEW k, NEW id, NEW side, NEW fills, IsSeq(fills), NEW f,
         Learning(tr, k, id, side, fills)
  PROVE  \E t : /\ Learning(t, k, id, side, Append(fills, f))
                /\ t[Len(fills) + 1] = Learn(tr[Len(fills)], TradeEvent(id, side, f))
<1> DEFINE N == Len(fills)
           new == Learn(tr[N], TradeEvent(id, side, f))
           t == [j \in 0..(N + 1) |-> IF j = N + 1 THEN new ELSE tr[j]]
           g == Append(fills, f)
<1>1. /\ N \in Nat /\ Len(g) = N + 1 /\ g[N + 1] = f
      /\ \A j \in 1..N : g[j] = fills[j]
  BY AppendIs
<1> HIDE DEF g, new
<1>2. t[0] = k /\ t[N + 1] = new /\ \A j \in 0..N : t[j] = tr[j]
  BY <1>1 DEF Learning
<1> HIDE DEF t
<1>3. ASSUME NEW j \in 1..(N + 1) PROVE t[j] = Learn(t[j - 1], TradeEvent(id, side, g[j]))
  <2>1. CASE j = N + 1
    <3>1. j - 1 = N /\ N \in 0..N
      BY <1>1, <2>1
    <3> QED
      BY <1>1, <1>2, <2>1, <3>1 DEF new
  <2>2. CASE j # N + 1
    <3>1. j \in 1..N /\ j \in 0..N /\ j - 1 \in 0..N
      BY <1>1, <2>2
    <3>2. tr[j] = Learn(tr[j - 1], TradeEvent(id, side, fills[j]))
      BY <3>1, Zenon DEF Learning
    <3> QED
      BY <1>1, <1>2, <3>1, <3>2
  <2> QED
    BY <2>1, <2>2
<1>4. Learning(t, k, id, side, g)
  BY <1>1, <1>2, <1>3 DEF Learning
<1> QED
  BY <1>2, <1>4 DEF g, new

(* The running sum of the fills, one fill further. *)
LEMMA AddingMore ==
  ASSUME NEW su, NEW fills, IsSeq(fills), NEW f, Adding(su, fills)
  PROVE  \E t : Adding(t, Append(fills, f)) /\ t[Len(fills) + 1] = su[Len(fills)] + f.qty
<1> DEFINE N == Len(fills)
           new == su[N] + f.qty
           t == [j \in 0..(N + 1) |-> IF j = N + 1 THEN new ELSE su[j]]
           g == Append(fills, f)
<1>1. /\ N \in Nat /\ Len(g) = N + 1 /\ g[N + 1] = f
      /\ \A j \in 1..N : g[j] = fills[j]
  BY AppendIs
<1> HIDE DEF g, new
<1>2. t[0] = 0 /\ t[N + 1] = new /\ \A j \in 0..N : t[j] = su[j]
  BY <1>1 DEF Adding
<1> HIDE DEF t
<1>3. ASSUME NEW j \in 1..(N + 1) PROVE t[j] = t[j - 1] + g[j].qty
  <2>1. CASE j = N + 1
    <3>1. j - 1 = N /\ N \in 0..N
      BY <1>1, <2>1
    <3> QED
      BY <1>1, <1>2, <2>1, <3>1 DEF new
  <2>2. CASE j # N + 1
    <3>1. j \in 1..N /\ j \in 0..N /\ j - 1 \in 0..N
      BY <1>1, <2>2
    <3>2. su[j] = su[j - 1] + fills[j].qty
      BY <3>1, Zenon DEF Adding
    <3> QED
      BY <1>1, <1>2, <3>1, <3>2
  <2> QED
    BY <2>1, <2>2
<1>4. Adding(t, g)
  BY <1>1, <1>2, <1>3 DEF Adding
<1> QED
  BY <1>2, <1>4 DEF g, new
IsFill(f) == f.price \in Nat /\ f.qty \in Nat \ {0}

(* What the fill loop keeps: with the quantity `left` of qty, the book it   *)
(* started with being R.                                                    *)
Filling(acc, R, side, price, qty) ==
  /\ IsBook(acc.resting)
  /\ \A w \in acc.resting : \E o \in R : w.id = o.id /\ w.ts = o.ts
  /\ acc.left \in Nat /\ acc.left <= qty
  /\ IsSeq(acc.fills) /\ \A j \in 1..Len(acc.fills) : IsFill(acc.fills[j])
  /\ \E su : Adding(su, acc.fills) /\ su[Len(acc.fills)] = qty - acc.left
  /\ Total(Eligible(acc.resting, side, price)) = Total(Eligible(R, side, price)) - (qty - acc.left)

(* Who knows k learns the book by the events of the fills. *)
FillsTell(acc, k, lost, id, side) ==
  \E tr : /\ Learning(tr, k, id, side, acc.fills)
          /\ Knows(tr[Len(acc.fills)], acc.resting, lost)
          /\ SameButOrders(tr[Len(acc.fills)], k)

(* With n turns to go. *)
Ending(acc, n, side, price) ==
  acc.left = 0 \/ Cardinality(Eligible(acc.resting, side, price)) <= n

(* The eligible total is a number. *)
LEMMA FillingTotals ==
  ASSUME NEW R, IsBook(R), NEW side \in Side, NEW price
  PROVE  Total(Eligible(R, side, price)) \in Int
<1> DEFINE A == Eligible(R, side, price)
<1>1. IsFiniteSet(A) /\ A \subseteq Order
  BY EligibleIs DEF IsBook
<1> HIDE DEF A
<1>2. Total(A) \in Int
  BY <1>1, TotalType
<1> QED
  BY <1>2 DEF A

(* A turn keeps the book and the quantities. *)
LEMMA FillingKept ==
  ASSUME NEW R, IsBook(R), NEW side \in Side, NEW price, NEW qty \in Nat,
         NEW acc, Filling(acc, R, side, price, qty)
  PROVE  Filling(NextFill(acc, side, price), R, side, price, qty)
<1> DEFINE a == NextFill(acc, side, price)
           able == Eligible(acc.resting, side, price)
<1>1. IsBook(acc.resting) /\ acc.left \in Nat /\ IsSeq(acc.fills)
  BY DEF Filling
<1>2. \/ a = acc
      \/ \E o \in able : \E n \in Nat : Turn(a, acc, o, n)
  BY <1>1, NextFillIs
<1> HIDE DEF a
<1> SUFFICES ASSUME NEW o \in able, NEW n \in Nat, Turn(a, acc, o, n)
             PROVE  Filling(a, R, side, price, qty)
  BY <1>2 DEF a
<1>3. o \in acc.resting
  BY DEF Eligible
<1>4. /\ IsBook(a.resting)
      /\ \A w \in a.resting : \E x \in acc.resting : w.id = x.id /\ w.ts = x.ts
  BY <1>1, <1>3, TurnKeepsBook
<1>5. \A w \in a.resting : \E x \in R : w.id = x.id /\ w.ts = x.ts
  <2> TAKE w \in a.resting
  <2>1. PICK x \in acc.resting : w.id = x.id /\ w.ts = x.ts
    BY <1>4
  <2>2. PICK y \in R : x.id = y.id /\ x.ts = y.ts
    BY DEF Filling
  <2> QED
    BY <2>1, <2>2
<1>6. a.left = acc.left - n /\ n <= acc.left /\ a.fills = Append(acc.fills, FillOf(o, n))
  BY DEF Turn
<1>7. a.left \in Nat /\ a.left <= qty
  <2>1. acc.left <= qty
    BY DEF Filling
  <2> QED
    BY <1>1, <1>6, <2>1
<1> DEFINE f == FillOf(o, n)
           N == Len(acc.fills)
<1>8. IsFill(f) /\ f.qty = n
  BY <1>1, <1>3 DEF FillOf, IsBook, Order, IsFill, Turn
<1> HIDE DEF f
<1>9. /\ N \in Nat /\ Len(a.fills) = N + 1 /\ a.fills[N + 1] = f /\ IsSeq(a.fills)
      /\ \A j \in 1..N : a.fills[j] = acc.fills[j]
  BY <1>1, <1>6, AppendIs DEF f
<1>10. \A j \in 1..Len(a.fills) : IsFill(a.fills[j])
  <2> SUFFICES ASSUME NEW j \in 1..(N + 1) PROVE IsFill(a.fills[j])
    BY <1>9
  <2>1. j \in 1..N \/ j = N + 1
    BY <1>9
  <2> QED
    BY <1>8, <1>9, <2>1 DEF Filling
<1>11. \E su : Adding(su, a.fills) /\ su[Len(a.fills)] = qty - a.left
  <2>1. PICK su : Adding(su, acc.fills) /\ su[N] = qty - acc.left
    BY DEF Filling
  <2>2. PICK t : Adding(t, Append(acc.fills, f)) /\ t[N + 1] = su[N] + f.qty
    BY <1>1, <2>1, AddingMore
  <2>3. t[N + 1] = qty - a.left
    BY <1>1, <1>6, <1>8, <2>1, <2>2
  <2> QED
    BY <1>6, <1>9, <2>2, <2>3 DEF f
<1>12. Total(Eligible(a.resting, side, price)) = Total(Eligible(R, side, price)) - (qty - a.left)
  <2>0. o \in Eligible(acc.resting, side, price)
    OBVIOUS
  <2>1. Total(Eligible(a.resting, side, price)) = Total(able) - n
    <3>1. TakesOne(a, acc, o, n, side, price)
      <4> HIDE DEF able
      <4> QED
        BY <1>1, <2>0, TurnTakes, Zenon
    <3> QED
      BY <3>1, Zenon DEF TakesOne
  <2>2. Total(able) = Total(Eligible(R, side, price)) - (qty - acc.left)
    BY DEF Filling
  <2>3. Total(Eligible(R, side, price)) \in Int
    BY FillingTotals
  <2> DEFINE T == Total(Eligible(R, side, price))
             A == Total(able)
             B == Total(Eligible(a.resting, side, price))
  <2>4. B = A - n /\ A = T - (qty - acc.left) /\ T \in Int
    BY <2>1, <2>2, <2>3
  <2> HIDE DEF A, B, T
  <2>5. B = T - (qty - a.left)
    BY <1>1, <1>6, <2>4
  <2> QED
    BY <2>5 DEF B, T
<1> QED
  BY <1>4, <1>5, <1>7, <1>9, <1>10, <1>11, <1>12 DEF Filling

(* A turn keeps the fills telling the book. *)
LEMMA FillsTellKept ==
  ASSUME NEW R, NEW side \in Side, NEW price, NEW qty,
         NEW acc, Filling(acc, R, side, price, qty), NEW k, NEW lost, lost \cap Ids(R) = {}, NEW id,
         FillsTell(acc, k, lost, id, side)
  PROVE  FillsTell(NextFill(acc, side, price), k, lost, id, side)
<1> DEFINE a == NextFill(acc, side, price)
           able == Eligible(acc.resting, side, price)
           N == Len(acc.fills)
<1>1. IsBook(acc.resting) /\ acc.left \in Nat /\ IsSeq(acc.fills)
  BY DEF Filling
<1>2. \/ a = acc
      \/ \E o \in able : \E n \in Nat : Turn(a, acc, o, n)
  BY <1>1, NextFillIs
<1> HIDE DEF a
<1> SUFFICES ASSUME NEW o \in able, NEW n \in Nat, Turn(a, acc, o, n)
             PROVE  FillsTell(a, k, lost, id, side)
  BY <1>2 DEF a
<1>3. o \in acc.resting
  BY DEF Eligible
<1>4. lost \cap Ids(acc.resting) = {}
  <2> SUFFICES ASSUME NEW w \in acc.resting PROVE w.id \notin lost
    BY DEF Ids
  <2>1. PICK x \in R : w.id = x.id
    BY DEF Filling
  <2> QED
    BY <2>1 DEF Ids
<1> DEFINE f == FillOf(o, n)
<1>5. a.fills = Append(acc.fills, f)
  BY DEF Turn
<1>6. PICK tr : /\ Learning(tr, k, id, side, acc.fills)
                /\ Knows(tr[N], acc.resting, lost) /\ SameButOrders(tr[N], k)
  BY DEF FillsTell
<1> DEFINE m == Learn(tr[N], TradeEvent(id, side, f))
<1>7. Knows(m, a.resting, lost) /\ SameButOrders(m, tr[N])
  BY <1>1, <1>3, <1>4, <1>6, TurnTold
<1> HIDE DEF f, m
<1>8. PICK t : Learning(t, k, id, side, Append(acc.fills, f)) /\ t[N + 1] = m
  BY <1>1, <1>6, LearningMore DEF m
<1>9. Len(a.fills) = N + 1
  BY <1>1, <1>5, AppendIs
<1>10. SameButOrders(m, k)
  BY <1>6, <1>7 DEF SameButOrders
<1> QED
  BY <1>5, <1>7, <1>8, <1>9, <1>10 DEF FillsTell

(* After n more turns the order is filled or nothing is eligible. *)
LEMMA EndingKept ==
  ASSUME NEW acc, IsBook(acc.resting), acc.left \in Nat, NEW side \in Side, NEW price, NEW n \in Nat,
         Ending(acc, n + 1, side, price)
  PROVE  Ending(NextFill(acc, side, price), n, side, price)
<1> DEFINE a == NextFill(acc, side, price)
           able == Eligible(acc.resting, side, price)
<1>1. \/ a = acc /\ (acc.left = 0 \/ able = {})
      \/ \E o \in able : \E m \in Nat : Turn(a, acc, o, m)
  BY NextFillIs
<1> HIDE DEF a
<1>2. CASE a = acc /\ (acc.left = 0 \/ able = {})
  BY <1>2, FS_EmptySet DEF Ending, a
<1>3. CASE \E o \in able : \E m \in Nat : Turn(a, acc, o, m)
  <2>1. PICK o \in able, m \in Nat : Turn(a, acc, o, m)
    BY <1>3
  <2>2. CASE a.left = 0
    BY <2>2 DEF Ending, a
  <2>3. CASE Eligible(a.resting, side, price) = able \ {o} /\ a.left # 0
    <3>1. acc.left # 0
      BY <2>1, <2>3 DEF Turn
    <3>2. IsFiniteSet(able)
      BY EligibleIs
    <3>3. Cardinality(able) <= n + 1
      BY <3>1 DEF Ending
    <3> HIDE DEF able
    <3>4. Cardinality(able \ {o}) = Cardinality(able) - 1 /\ Cardinality(able) \in Nat
      BY <2>1, <3>2, FS_RemoveElement, FS_CardinalityType
    <3>5. Cardinality(able \ {o}) <= n
      BY <3>3, <3>4
    <3> QED
      BY <2>3, <3>5 DEF Ending, a
  <2>0. o \in Eligible(acc.resting, side, price) /\ Turn(a, acc, o, m)
    BY <2>1
  <2>4. a.left = 0 \/ Eligible(a.resting, side, price) = able \ {o}
    <3>1. TakesOne(a, acc, o, m, side, price)
      <4> HIDE DEF able
      <4> QED
        BY <2>0, TurnTakes, Zenon
    <3> QED
      BY <3>1, Zenon DEF TakesOne
  <2> QED
    BY <2>2, <2>3, <2>4
<1> QED
  BY <1>1, <1>2, <1>3
(* Before the first turn. *)
LEMMA FillingStarts ==
  ASSUME NEW R, IsBook(R), NEW side \in Side, NEW price, NEW qty \in Nat,
         NEW acc, acc = [resting |-> R, left |-> qty, fills |-> <<>>]
  PROVE  Filling(acc, R, side, price, qty) /\ Ending(acc, Cardinality(R), side, price)
<1>1. acc.resting = R /\ acc.left = qty /\ acc.fills = <<>>
  OBVIOUS
<1>2. IsSeq(acc.fills) /\ Len(acc.fills) = 0
  BY <1>1 DEF IsSeq
<1>3. \E su : Adding(su, acc.fills) /\ su[Len(acc.fills)] = qty - acc.left
  <2> DEFINE su == [j \in {0} |-> 0]
  <2>1. su[0] = 0
    OBVIOUS
  <2> HIDE DEF su
  <2>2. Adding(su, acc.fills) /\ su[Len(acc.fills)] = qty - acc.left
    BY <1>1, <1>2, <2>1 DEF Adding
  <2> QED
    BY <2>2
<1>4. Total(Eligible(acc.resting, side, price)) = Total(Eligible(R, side, price)) - (qty - acc.left)
  <2> DEFINE T == Total(Eligible(R, side, price))
  <2>1. T \in Int
    BY FillingTotals
  <2> HIDE DEF T
  <2>2. T = T - (qty - acc.left)
    BY <1>1, <2>1
  <2> QED
    BY <1>1, <2>2 DEF T
<1>5. Cardinality(Eligible(R, side, price)) <= Cardinality(R)
  BY EligibleIs, FS_Subset DEF IsBook
<1> QED
  BY <1>1, <1>2, <1>3, <1>4, <1>5 DEF Filling, Ending

(* Match leaves nothing of the order, or nothing it could trade with. *)
LEMMA MatchFills ==
  ASSUME NEW R, IsBook(R), NEW side \in Side, NEW price, NEW qty \in Nat
  PROVE  LET m == Match(R, side, price, qty)
         IN  Filling(m, R, side, price, qty) /\ (m.left = 0 \/ Eligible(m.resting, side, price) = {})
<1> DEFINE N == Cardinality(R)
           m == Match(R, side, price, qty)
<1>1. N \in Nat
  BY FS_CardinalityType DEF IsBook
<1>2. PICK g : FillRun(g, m, N, R, side, price, qty)
  BY <1>1, MatchIs
<1> DEFINE G == {n \in Nat : n <= N => /\ Filling(g[n], R, side, price, qty)
                                       /\ Ending(g[n], N - n, side, price)}
<1>3. 0 \in G
  <2>1. N - 0 = N
    BY <1>1
  <2>2. Filling(g[0], R, side, price, qty) /\ Ending(g[0], N, side, price)
    BY <1>2, FillingStarts DEF FillRun
  <2> QED
    BY <2>1, <2>2
<1>4. ASSUME NEW n \in Nat, n \in G PROVE n + 1 \in G
  <2> SUFFICES ASSUME n + 1 <= N
               PROVE  /\ Filling(g[n + 1], R, side, price, qty)
                      /\ Ending(g[n + 1], N - (n + 1), side, price)
    OBVIOUS
  <2>1. n <= N /\ n + 1 \in 1..N /\ (n + 1) - 1 = n /\ N - (n + 1) \in Nat
        /\ N - n = (N - (n + 1)) + 1
    BY <1>1
  <2>2. Filling(g[n], R, side, price, qty) /\ Ending(g[n], (N - (n + 1)) + 1, side, price)
    BY <1>4, <2>1
  <2>3. g[n + 1] = NextFill(g[n], side, price)
    <3>1. g[n + 1] = NextFill(g[(n + 1) - 1], side, price)
      BY <1>2, <2>1, Zenon DEF FillRun
    <3> QED
      BY <2>1, <3>1
  <2> DEFINE a == g[n]
             j == N - (n + 1)
  <2>4. IsBook(a.resting) /\ a.left \in Nat
    BY <2>2 DEF Filling
  <2>5. Filling(NextFill(a, side, price), R, side, price, qty)
    BY <2>2, FillingKept
  <2>6. j \in Nat /\ Ending(a, j + 1, side, price)
    BY <2>1, <2>2
  <2> HIDE DEF a, j
  <2>7. Ending(NextFill(a, side, price), j, side, price)
    BY <2>4, <2>6, EndingKept
  <2> QED
    BY <2>3, <2>5, <2>7 DEF a, j
<1>5. Nat \subseteq G
  <2> HIDE DEF G
  <2> QED
    BY <1>3, <1>4, SetOfNats
<1>6. Filling(m, R, side, price, qty) /\ Ending(m, 0, side, price)
  <2>1. N <= N /\ N - N = 0
    BY <1>1
  <2>2. Filling(g[N], R, side, price, qty) /\ Ending(g[N], N - N, side, price)
    BY <1>1, <1>5, <2>1
  <2> QED
    BY <1>2, <2>1, <2>2 DEF FillRun
<1> HIDE DEF m
<1>7. m.left = 0 \/ Eligible(m.resting, side, price) = {}
  <2> DEFINE A == Eligible(m.resting, side, price)
  <2>1. IsBook(m.resting)
    BY <1>6 DEF Filling
  <2>2. IsFiniteSet(A)
    BY <2>1, EligibleIs
  <2>3. m.left = 0 \/ Cardinality(A) <= 0
    BY <1>6 DEF Ending
  <2> HIDE DEF A
  <2>4. m.left = 0 \/ A = {}
    BY <2>2, <2>3, FS_CardinalityType, FS_EmptySet
  <2> QED
    BY <2>4 DEF A
<1> QED
  BY <1>6, <1>7 DEF m

(* The fills of a whole match tell the book that is left. *)
LEMMA MatchTells ==
  ASSUME NEW R, IsBook(R), NEW side \in Side, NEW price, NEW qty \in Nat,
         NEW k, NEW lost, Knows(k, R, lost), lost \cap Ids(R) = {}, NEW id
  PROVE  FillsTell(Match(R, side, price, qty), k, lost, id, side)
<1> DEFINE N == Cardinality(R)
           m == Match(R, side, price, qty)
<1>1. N \in Nat
  BY FS_CardinalityType DEF IsBook
<1>2. PICK g : FillRun(g, m, N, R, side, price, qty)
  BY <1>1, MatchIs
<1> DEFINE G == {n \in Nat : n <= N => /\ Filling(g[n], R, side, price, qty)
                                       /\ FillsTell(g[n], k, lost, id, side)}
<1>3. 0 \in G
  <2> DEFINE a == g[0]
  <2>1. a = [resting |-> R, left |-> qty, fills |-> <<>>]
    BY <1>2 DEF FillRun
  <2>2. a.resting = R /\ a.fills = <<>> /\ Len(a.fills) = 0
    BY <2>1
  <2>3. Filling(a, R, side, price, qty)
    BY <2>1, FillingStarts
  <2> HIDE DEF a
  <2> DEFINE tr == [j \in {0} |-> k]
  <2>4. tr[0] = k
    OBVIOUS
  <2> HIDE DEF tr
  <2>5. SameButOrders(k, k)
    BY DEF SameButOrders, Knows, KnowledgeFields
  <2>6. Learning(tr, k, id, side, a.fills)
    BY <2>2, <2>4 DEF Learning
  <2>7. FillsTell(a, k, lost, id, side)
    BY <2>2, <2>4, <2>5, <2>6 DEF FillsTell
  <2> QED
    BY <2>3, <2>7 DEF a
<1>4. ASSUME NEW n \in Nat, n \in G PROVE n + 1 \in G
  <2> SUFFICES ASSUME n + 1 <= N
               PROVE  /\ Filling(g[n + 1], R, side, price, qty)
                      /\ FillsTell(g[n + 1], k, lost, id, side)
    OBVIOUS
  <2>1. n <= N /\ n + 1 \in 1..N /\ (n + 1) - 1 = n
    BY <1>1
  <2>2. Filling(g[n], R, side, price, qty) /\ FillsTell(g[n], k, lost, id, side)
    BY <1>4, <2>1
  <2>3. g[n + 1] = NextFill(g[n], side, price)
    <3>1. g[n + 1] = NextFill(g[(n + 1) - 1], side, price)
      BY <1>2, <2>1, Zenon DEF FillRun
    <3> QED
      BY <2>1, <3>1
  <2> DEFINE a == g[n]
  <2>4. Filling(NextFill(a, side, price), R, side, price, qty)
    BY <2>2, FillingKept
  <2>5. FillsTell(NextFill(a, side, price), k, lost, id, side)
    BY <2>2, FillsTellKept
  <2> QED
    BY <2>3, <2>4, <2>5
<1>5. Nat \subseteq G
  <2> HIDE DEF G
  <2> QED
    BY <1>3, <1>4, SetOfNats
<1>6. N <= N
  BY <1>1
<1> QED
  BY <1>1, <1>2, <1>5, <1>6 DEF FillRun
-----------------------------------------------------------------------------
(* Telling the fills. *)

(* emit_trade from the fields of the engine. *)
LEMMA EmitTradeIs ==
  ASSUME NEW e, DOMAIN e = EngineFields, NEW id, NEW side, NEW fill
  PROVE  LET p == emit_trade(e, id, side, fill)
         IN  /\ SameBook(p, e) /\ Queued(p, e, TradeEvent(id, side, fill))
             /\ p.last_trade_price = fill.price /\ p.last_taker = id
<1> DEFINE ev == TradeEvent(id, side, fill)
           q == eq_push(e, ev)
           a == [q EXCEPT !.last_trade_price = fill.price]
           b == [a EXCEPT !.last_taker = id]
           p == emit_trade(e, id, side, fill)
<1>1. p = b
  <2>1. p = [q EXCEPT !.last_trade_price = fill.price, !.last_taker = id]
    BY Zenon DEF emit_trade, TradeEvent
  <2> HIDE DEF q, p
  <2> QED
    BY <2>1
<1>2. SameBook(q, e) /\ Queued(q, e, ev)
  BY PushIs
<1> HIDE DEF q, ev, p
<1>3. SameBook(a, e) /\ Queued(a, e, ev) /\ a.last_trade_price = fill.price
  BY <1>2 DEF SameBook, Queued, EngineFields
<1> HIDE DEF a
<1>4. /\ SameBook(b, e) /\ Queued(b, e, ev)
      /\ b.last_trade_price = fill.price /\ b.last_taker = id
  BY <1>3 DEF SameBook, Queued, EngineFields
<1> HIDE DEF b
<1> QED
  BY <1>1, <1>4 DEF p, ev

(* The first n fills of b have been told. *)
Telling(x, b, n, v, tr, su) ==
  /\ SameBook(x.e, b.e)
  /\ x.filled = su[n]
  /\ n = 0 => SameTrade(x.e, b.e)
  /\ n # 0 => x.e.last_trade_price = b.fills[n].price /\ x.e.last_taker = b.id
  /\ IsSeq(x.e.eq) /\ x.e.dropped \in Nat
  /\ x.e.dropped = 0 => b.e.dropped = 0 /\ Learnt(v, x.e.eq) = tr[n]
  /\ AllSound(x.e)

(* One fill more is told. *)
LEMMA TellingMore ==
  ASSUME NEW v, NEW b, NEW side \in Side, NEW n \in Nat, n < Len(b.fills), Len(b.fills) \in Nat,
         IsFill(b.fills[n + 1]),
         NEW tr, b.e.dropped = 0 => Learning(tr, Learnt(v, b.e.eq), b.id, side, b.fills),
         NEW su, Adding(su, b.fills), NEW x, Telling(x, b, n, v, tr, su)
  PROVE  Telling(NextTrade(x, b.id, side, b.fills[n + 1]), b, n + 1, v, tr, su)
<1> DEFINE f == b.fills[n + 1]
           e == x.e
           p == emit_trade(e, b.id, side, f)
           ev == TradeEvent(b.id, side, f)
           y == NextTrade(x, b.id, side, f)
<1>1. DOMAIN e = EngineFields /\ IsSeq(e.eq) /\ e.dropped \in Nat /\ AllSound(e) /\ SameBook(e, b.e)
  BY DEF Telling, SameBook
<1>2. SameBook(p, e) /\ Queued(p, e, ev) /\ p.last_trade_price = f.price /\ p.last_taker = b.id
  BY <1>1, EmitTradeIs
<1>3. y.e = p /\ y.filled = x.filled + f.qty
  BY DEF NextTrade
<1>4. n + 1 \in 1..Len(b.fills) /\ (n + 1) - 1 = n /\ n + 1 # 0 /\ n + 1 \in Nat
  OBVIOUS
<1>5. su[n + 1] = su[n] + f.qty
  <2>1. su[n + 1] = su[(n + 1) - 1] + f.qty
    BY <1>4, Zenon DEF Adding
  <2> QED
    BY <1>4, <2>1
<1>6. b.e.dropped = 0 => tr[n + 1] = Learn(tr[n], ev)
  <2>1. b.e.dropped = 0 => tr[n + 1] = Learn(tr[(n + 1) - 1], ev)
    BY <1>4, Zenon DEF Learning
  <2> QED
    BY <1>4, <2>1
<1> HIDE DEF p, y
<1>7. /\ IsSeq(p.eq) /\ p.dropped \in Nat
      /\ p.dropped = 0 => e.dropped = 0 /\ Learnt(v, p.eq) = Learn(Learnt(v, e.eq), ev)
  <2> DEFINE q == p
  <2>1. IsSeq(e.eq) /\ e.dropped \in Nat /\ Queued(q, e, ev)
    BY <1>1, <1>2
  <2> HIDE DEF ev, e, f, q
  <2>2. IsSeq(q.eq) /\ q.dropped \in Nat /\ LearntLast(v, q, e, ev)
    BY <2>1, QueuedLast, Zenon
  <2> QED
    BY <2>2 DEF q, LearntLast
<1>8. AllSound(p)
  <2>1. Sound(ev, e.resting, e.next_order_id)
    BY DEF Sound, TradeEvent, IsFill
  <2> HIDE DEF ev, e
  <2> QED
    BY <1>1, <1>2, <2>1, SoundQueued
<1>9. p.dropped = 0 => b.e.dropped = 0 /\ Learnt(v, p.eq) = tr[n + 1]
  <2> HIDE DEF ev
  <2> QED
    BY <1>6, <1>7 DEF Telling
<1>10. SameBook(p, b.e)
  BY <1>1, <1>2 DEF SameBook
<1>11. y.filled = su[n + 1]
  <2> HIDE DEF f
  <2> QED
    BY <1>3, <1>5 DEF Telling
<1>12. Telling(y, b, n + 1, v, tr, su)
  BY <1>2, <1>3, <1>4, <1>7, <1>8, <1>9, <1>10, <1>11 DEF Telling
<1> QED
  BY <1>12 DEF y

(* Once every fill is told, the consumer knows the book and the sum is that of the fills. *)
LEMMA AllTold ==
  ASSUME NEW v, NEW b, NEW side \in Side, Len(b.fills) \in Nat, \A j \in 1..Len(b.fills) : IsFill(b.fills[j]),
         DOMAIN b.e = EngineFields, IsSeq(b.e.eq), b.e.dropped \in Nat, AllSound(b.e),
         NEW tr, b.e.dropped = 0 => Learning(tr, Learnt(v, b.e.eq), b.id, side, b.fills),
         NEW su, Adding(su, b.fills)
  PROVE  Telling(TradesTold(b, side), b, Len(b.fills), v, tr, su)
<1> DEFINE N == Len(b.fills)
<1>1. PICK g : /\ g[0] = [e |-> b.e, filled |-> 0]
               /\ \A n \in 1..N : g[n] = NextTrade(g[n - 1], b.id, side, b.fills[n])
               /\ TradesTold(b, side) = g[N]
  BY TradedIs
<1> DEFINE G == {n \in Nat : n <= N => Telling(g[n], b, n, v, tr, su)}
<1>2. 0 \in G
  <2> DEFINE x == g[0]
  <2>1. x.e = b.e /\ x.filled = 0
    BY <1>1
  <2> HIDE DEF x
  <2>2. SameBook(x.e, b.e) /\ SameTrade(x.e, b.e)
    BY <2>1 DEF SameBook, SameTrade
  <2>3. su[0] = 0 /\ (b.e.dropped = 0 => tr[0] = Learnt(v, b.e.eq))
    BY DEF Adding, Learning
  <2>4. Telling(x, b, 0, v, tr, su)
    BY <2>1, <2>2, <2>3 DEF Telling
  <2> QED
    BY <2>4 DEF x
<1>3. ASSUME NEW n \in Nat, n \in G PROVE n + 1 \in G
  <2> SUFFICES ASSUME n + 1 <= N PROVE Telling(g[n + 1], b, n + 1, v, tr, su)
    OBVIOUS
  <2>1. n <= N /\ n < N /\ n + 1 \in 1..N /\ (n + 1) - 1 = n
    OBVIOUS
  <2>2. Telling(g[n], b, n, v, tr, su)
    BY <1>3, <2>1
  <2>3. g[n + 1] = NextTrade(g[n], b.id, side, b.fills[n + 1])
    <3>1. g[n + 1] = NextTrade(g[(n + 1) - 1], b.id, side, b.fills[n + 1])
      BY <1>1, <2>1, Zenon
    <3> QED
      BY <2>1, <3>1
  <2> DEFINE x == g[n]
  <2>4. Telling(x, b, n, v, tr, su)
    BY <2>2
  <2> HIDE DEF x
  <2>5. Telling(NextTrade(x, b.id, side, b.fills[n + 1]), b, n + 1, v, tr, su)
    <3>1. IsFill(b.fills[n + 1])
      BY <2>1
    <3> QED
      BY <2>1, <2>4, <3>1, TellingMore
  <2> QED
    BY <2>3, <2>5 DEF x
<1>4. Nat \subseteq G
  <2> HIDE DEF G
  <2> QED
    BY <1>2, <1>3, SetOfNats
<1>5. N <= N
  OBVIOUS
<1> QED
  BY <1>1, <1>4, <1>5
-----------------------------------------------------------------------------
(* Submitting an order. *)

(* What the book returns when it is not full, after the fill loop ended     *)
(* with m.                                                                  *)
Added(b, e, m) ==
  /\ DOMAIN b.e = EngineFields
  /\ b.e.next_order_id = e.next_order_id + 1 /\ b.e.clock = e.clock + 1 /\ b.e.stops = e.stops
  /\ b.e.lost = e.lost /\ b.e.last_tob = e.last_tob /\ SameTrade(b.e, e) /\ SameQueue(b.e, e)
  /\ b.id = e.next_order_id /\ b.fills = m.fills

(* What was left rests as an order of its own. *)
Rests(b, e, m) ==
  /\ b.st = "OK" /\ m.left > 0
  /\ \E o \in Order : /\ o.id = b.id /\ o.qty = m.left /\ o.ts = e.clock + 1
                      /\ b.e.resting = m.resting \cup {o}

(* Nothing of it rests: nothing was left, or there was no room for it. *)
Leaves(b, m) ==
  /\ b.e.resting = m.resting
  /\ b.st = IF m.left > 0 THEN "REJECTED" ELSE "OK"

(* ob_add_order: refused, or matched and then resting or gone. *)
LEMMA AddIs ==
  ASSUME NEW e, EngineTyped(e), NEW side \in Side, NEW price \in Nat, NEW qty \in Nat,
         Match(e.resting, side, price, qty).left \in Nat
  PROVE  LET b == ob_add_order(e, side, price, qty)
             m == Match(e.resting, side, price, qty)
         IN  \/ b = [e |-> e, st |-> "REJECTED", id |-> 0, fills |-> <<>>]
             \/ Added(b, e, m) /\ (Rests(b, e, m) \/ Leaves(b, m))
<1> DEFINE b == ob_add_order(e, side, price, qty)
           m == Match(e.resting, side, price, qty)
           id == e.next_order_id
           rest == [id |-> id, side |-> side, price |-> price, qty |-> m.left, ts |-> e.clock + 1]
           room == HasRoom(m.resting, side, price, OB_MAX_LEVELS)
           R == IF m.left > 0 /\ room THEN m.resting \cup {rest} ELSE m.resting
           h == Holding(e, R)
           a == [h EXCEPT !.next_order_id = @ + 1, !.clock = @ + 1]
           full == [e |-> e, st |-> "REJECTED", id |-> 0, fills |-> <<>>]
           c == [e |-> a, st |-> IF m.left > 0 /\ ~room THEN "REJECTED" ELSE "OK",
                 id |-> id, fills |-> m.fills]
<1>0. DOMAIN e = EngineFields /\ e.next_order_id \in Nat \ {0} /\ e.clock \in Nat
  BY DEF EngineTyped
<1>1. b = full \/ b = c
  <2>1. b = IF Cardinality(e.resting) >= OB_MAX_ORDERS THEN full ELSE c
    BY Zenon DEF ob_add_order
  <2> HIDE DEF b, c, full
  <2> QED
    BY <2>1
<1>2. /\ DOMAIN h = EngineFields /\ h.resting = R
      /\ h.next_order_id = e.next_order_id /\ h.clock = e.clock /\ h.stops = e.stops
      /\ h.lost = e.lost /\ h.last_tob = e.last_tob /\ SameTrade(h, e) /\ SameQueue(h, e)
  <2> HIDE DEF R
  <2> QED
    BY <1>0, HoldingIs
<1> HIDE DEF h, m, room, R
<1>3. /\ DOMAIN a = EngineFields /\ a.resting = h.resting
      /\ a.next_order_id = h.next_order_id + 1 /\ a.clock = h.clock + 1 /\ a.stops = h.stops
      /\ a.lost = h.lost /\ a.last_tob = h.last_tob /\ SameTrade(a, h) /\ SameQueue(a, h)
  <2> DEFINE a1 == [h EXCEPT !.next_order_id = h.next_order_id + 1]
             a2 == [a1 EXCEPT !.clock = a1.clock + 1]
  <2>1. a = a2
    BY <1>2
  <2>2. /\ DOMAIN a1 = EngineFields /\ a1.resting = h.resting
        /\ a1.next_order_id = h.next_order_id + 1 /\ a1.clock = h.clock /\ a1.stops = h.stops
        /\ a1.lost = h.lost /\ a1.last_tob = h.last_tob /\ SameTrade(a1, h) /\ SameQueue(a1, h)
    BY <1>2 DEF EngineFields, SameTrade, SameQueue
  <2> HIDE DEF a1, a
  <2>3. /\ DOMAIN a2 = EngineFields /\ a2.resting = a1.resting
        /\ a2.next_order_id = a1.next_order_id /\ a2.clock = a1.clock + 1 /\ a2.stops = a1.stops
        /\ a2.lost = a1.lost /\ a2.last_tob = a1.last_tob /\ SameTrade(a2, a1) /\ SameQueue(a2, a1)
    BY <2>2 DEF EngineFields, SameTrade, SameQueue
  <2> HIDE DEF a2
  <2> QED
    BY <2>1, <2>2, <2>3 DEF SameTrade, SameQueue
<1> HIDE DEF a
<1>4. /\ DOMAIN a = EngineFields /\ a.resting = R
      /\ a.next_order_id = e.next_order_id + 1 /\ a.clock = e.clock + 1 /\ a.stops = e.stops
      /\ a.lost = e.lost /\ a.last_tob = e.last_tob /\ SameTrade(a, e) /\ SameQueue(a, e)
  BY <1>2, <1>3 DEF SameTrade, SameQueue
<1>5. c.e = a /\ c.id = id /\ c.fills = m.fills
      /\ c.st = IF m.left > 0 /\ ~room THEN "REJECTED" ELSE "OK"
  OBVIOUS
<1> HIDE DEF c
<1>6. Added(c, e, m)
  BY <1>4, <1>5 DEF Added
<1>7. m.left \in Nat
  BY DEF m
<1>8. Rests(c, e, m) \/ Leaves(c, m)
  <2>1. CASE m.left > 0 /\ room
    <3>1. rest \in Order /\ rest.id = id /\ rest.qty = m.left /\ rest.ts = e.clock + 1
      BY <1>0, <1>7, <2>1 DEF Order
    <3> HIDE DEF rest
    <3>2. c.e.resting = m.resting \cup {rest}
      BY <1>4, <1>5, <2>1 DEF R
    <3> QED
      BY <1>5, <2>1, <3>1, <3>2 DEF Rests
  <2>2. CASE ~(m.left > 0 /\ room)
    <3>1. c.e.resting = m.resting
      BY <1>4, <1>5, <2>2 DEF R
    <3> QED
      BY <1>5, <2>2, <3>1 DEF Leaves
  <2> QED
    BY <2>1, <2>2
<1> HIDE DEF b, full
<1> QED
  BY <1>1, <1>6, <1>8 DEF b, full, m

(* The engine's resting orders are a book without a lost order. *)
LEMMA BookOfEngine ==
  ASSUME NEW e, EngineTyped(e), Numbered(e)
  PROVE  IsBook(e.resting) /\ e.lost \cap Ids(e.resting) = {}
BY DEF EngineTyped, Numbered, Apart, IsBook

(* The engine after the book's call, with nothing told yet. *)
LEMMA AddedKeeps ==
  ASSUME NEW e, EngineTyped(e), Numbered(e), AllSound(e), NEW side, NEW price, NEW qty,
         NEW m, Filling(m, e.resting, side, price, qty), NEW b, Added(b, e, m), Rests(b, e, m) \/ Leaves(b, m)
  PROVE  /\ EngineTyped(b.e) /\ Numbered(b.e) /\ AllSound(b.e)
         /\ StopIds(b.e) = StopIds(e) /\ b.id \notin StopIds(e)
         /\ b.id \notin Ids(m.resting) /\ b.id \notin e.lost
         /\ b.id \in Nat \ {0} /\ b.id < b.e.next_order_id
<1> DEFINE p == b.e
           id == e.next_order_id
<1>0. /\ p.next_order_id = id + 1 /\ p.clock = e.clock + 1 /\ p.stops = e.stops /\ p.lost = e.lost
      /\ DOMAIN p = EngineFields /\ p.eq = e.eq /\ p.dropped = e.dropped
      /\ p.last_trade_price = e.last_trade_price /\ p.last_taker = e.last_taker /\ b.id = id
  BY DEF Added, SameTrade, SameQueue
<1>1. id \in Nat \ {0} /\ e.clock \in Nat /\ e.resting \subseteq Order
  BY DEF EngineTyped
<1>2. ActiveStops(p) = ActiveStops(e) /\ StopIds(p) = StopIds(e)
  BY <1>0 DEF ActiveStops, StopIds
<1>3. /\ IsBook(m.resting)
      /\ \A w \in m.resting : \E o \in e.resting : w.id = o.id /\ w.ts = o.ts
  BY DEF Filling
<1>4. \A w \in m.resting : w.id \in Ids(e.resting) /\ w.id < id /\ w.ts <= e.clock
  BY <1>3 DEF Ids, Numbered, Apart
<1>5. id \notin Ids(m.resting) /\ id \notin StopIds(e) /\ id \notin e.lost /\ Ids(m.resting) \subseteq Ids(e.resting)
  <2>1. id \notin Ids(m.resting) /\ Ids(m.resting) \subseteq Ids(e.resting)
    BY <1>1, <1>4 DEF Ids
  <2>2. \A i \in ActiveStops(e) : e.stops[i].id < id
    BY DEF Numbered
  <2>3. id \notin StopIds(e)
    BY <1>1, <2>2 DEF StopIds
  <2>4. id \notin e.lost
    BY <1>1 DEF Numbered
  <2> QED
    BY <2>1, <2>3, <2>4
<1>6. /\ IsBook(p.resting)
      /\ \A w \in p.resting : w \in m.resting \/ (w.id = id /\ w.ts = e.clock + 1)
      /\ m.resting \subseteq p.resting
  <2>1. CASE Leaves(b, m)
    BY <1>3, <2>1 DEF Leaves
  <2>2. CASE Rests(b, e, m)
    <3>1. PICK o \in Order : o.id = id /\ o.ts = e.clock + 1 /\ p.resting = m.resting \cup {o}
      BY <1>0, <2>2 DEF Rests
    <3>2. IsFiniteSet(p.resting)
      <4>1. IsFiniteSet(m.resting)
        BY <1>3 DEF IsBook
      <4>2. IsFiniteSet(m.resting \cup {o})
        BY <4>1, FS_AddElement
      <4> QED
        BY <3>1, <4>2
    <3>3. \A w \in m.resting : w.id # o.id /\ w.ts # o.ts
      <4>1. \A w \in m.resting : w.id \in Nat /\ w.ts \in Nat
        BY <1>3 DEF IsBook, Order
      <4> QED
        BY <1>1, <1>4, <3>1, <4>1
    <3>4. p.resting \subseteq Order
      BY <1>3, <3>1 DEF IsBook
    <3>5. \A w, x \in p.resting : w.id = x.id \/ w.ts = x.ts => w = x
      BY <1>3, <3>1, <3>3 DEF IsBook
    <3>6. IsBook(p.resting)
      BY <3>2, <3>4, <3>5 DEF IsBook
    <3> QED
      BY <3>1, <3>6
  <2> QED
    BY <2>1, <2>2
<1>7. EngineTyped(p)
  BY <1>0, <1>1, <1>6 DEF EngineTyped, IsBook
<1>8. Apart(p.resting, p.next_order_id, p.clock)
  <2>1. \A w \in p.resting : w.id \in Nat /\ w.ts \in Nat
    BY <1>6 DEF IsBook, Order
  <2>2. \A w \in p.resting : w.id < id + 1 /\ w.ts <= e.clock + 1
    BY <1>1, <1>4, <1>6, <2>1
  <2> QED
    BY <1>0, <1>6, <2>2 DEF Apart, IsBook
<1>9. Ids(p.resting) \subseteq Ids(e.resting) \cup {id}
  BY <1>4, <1>6 DEF Ids
<1>10. Numbered(p)
  <2>1. p.lost \cap Ids(p.resting) = {}
    BY <1>0, <1>5, <1>9 DEF Numbered
  <2>2. \A n \in p.lost : n < p.next_order_id
    <3>1. \A n \in e.lost : n < id /\ n \in Nat
      BY DEF Numbered, EngineTyped
    <3> QED
      BY <1>0, <1>1, <3>1
  <2>3. \A i \in ActiveStops(p) : /\ p.stops[i].id < p.next_order_id
                                  /\ p.stops[i].id \notin Ids(p.resting)
    <3> SUFFICES ASSUME NEW i \in ActiveStops(p)
                 PROVE  p.stops[i].id < id + 1 /\ p.stops[i].id \notin Ids(p.resting)
      BY <1>0
    <3> DEFINE n == e.stops[i].id
    <3>1. p.stops[i].id = n /\ n < id /\ n \notin Ids(e.resting)
      BY <1>0, <1>2 DEF Numbered
    <3>2. n \in Nat
      <4>1. i \in ActiveStops(e) /\ i \in Slots
        BY <1>2 DEF ActiveStops
      <4>2. e.stops[i] \in Stop
        BY <4>1, StopFields
      <4> QED
        BY <4>2 DEF Stop
    <3> HIDE DEF n
    <3>3. n < id + 1 /\ n # id
      BY <1>1, <3>1, <3>2
    <3> QED
      BY <1>9, <3>1, <3>3
  <2>4. \A i, j \in ActiveStops(p) : p.stops[i].id = p.stops[j].id => i = j
    BY <1>0, <1>2 DEF Numbered
  <2>5. p.last_taker < p.next_order_id
    <3>1. e.last_taker < id /\ e.last_taker \in Nat
      BY DEF Numbered, EngineTyped
    <3> QED
      BY <1>0, <1>1, <3>1
  <2> QED
    BY <1>8, <2>1, <2>2, <2>3, <2>4, <2>5 DEF Numbered
<1>11. AllSound(p)
  <2>1. e.next_order_id <= p.next_order_id
    BY <1>0, <1>1
  <2>2. \A o \in p.resting : o.id \in Ids(e.resting) \/ o.id >= e.next_order_id
    BY <1>1, <1>4, <1>6
  <2> QED
    BY <1>0, <1>7, <2>1, <2>2, SoundStays
<1> QED
  BY <1>0, <1>1, <1>2, <1>5, <1>7, <1>10, <1>11

(* Once the consumer has learnt all that is in the queue, it knows the book *)
(* as if R rested in it.                                                    *)
KnownAs(v, e, R) ==
  e.dropped = 0 => /\ Knows(Learnt(v, e.eq), R, e.lost)
                   /\ Learnt(v, e.eq).stops = StopIds(e)
                   /\ Learnt(v, e.eq).tob = e.last_tob

(* The engine after the trades have been told. *)
LEMMA TradedKeeps ==
  ASSUME NEW v, NEW e, EInv(v, e), NEW side \in Side, NEW price, NEW qty \in Nat,
         NEW m, m = Match(e.resting, side, price, qty),
         NEW b, Added(b, e, m), Rests(b, e, m) \/ Leaves(b, m)
  PROVE  LET x == TradesTold(b, side)
         IN  /\ EngineTyped(x.e) /\ Numbered(x.e) /\ AllSound(x.e)
             /\ SameBook(x.e, b.e) /\ KnownAs(v, x.e, m.resting)
             /\ x.filled = qty - m.left
             /\ b.fills = <<>> => SameTrade(x.e, e)
<1> DEFINE x == TradesTold(b, side)
           N == Len(b.fills)
           k == Learnt(v, e.eq)
<1>0. EngineTyped(e) /\ Numbered(e) /\ AllSound(e) /\ Informed(v, e)
  BY DEF EInv
<1>1. IsBook(e.resting) /\ e.lost \cap Ids(e.resting) = {}
  BY <1>0, BookOfEngine
<1>2. Filling(m, e.resting, side, price, qty)
  BY <1>1, MatchFills
<1>3. /\ EngineTyped(b.e) /\ Numbered(b.e) /\ AllSound(b.e) /\ StopIds(b.e) = StopIds(e)
      /\ b.id \in Nat \ {0} /\ b.id < b.e.next_order_id
  BY <1>0, <1>2, AddedKeeps
<1>4. /\ b.fills = m.fills /\ b.e.eq = e.eq /\ b.e.dropped = e.dropped /\ b.e.lost = e.lost
      /\ b.e.last_tob = e.last_tob /\ SameTrade(b.e, e)
  BY DEF Added, SameQueue
<1>5. IsSeq(b.fills) /\ N \in Nat /\ (N = 0 <=> b.fills = <<>>)
  <2>1. IsSeq(b.fills)
    BY <1>2, <1>4 DEF Filling
  <2> QED
    BY <2>1 DEF IsSeq
<1>6. PICK su : Adding(su, b.fills) /\ su[N] = qty - m.left
  BY <1>2, <1>4 DEF Filling
<1> HIDE DEF N
<1>7. \E tr : b.e.dropped = 0 => /\ Learning(tr, k, b.id, side, b.fills)
                                 /\ Knows(tr[N], m.resting, e.lost)
                                 /\ SameButOrders(tr[N], k)
  <2>1. CASE b.e.dropped = 0
    <3>1. Knows(k, e.resting, e.lost)
      BY <1>0, <1>4, <2>1 DEF Informed
    <3> HIDE DEF k
    <3>2. FillsTell(m, k, e.lost, b.id, side)
      BY <1>1, <3>1, MatchTells
    <3> QED
      BY <1>4, <3>2 DEF FillsTell, N
  <2>2. CASE b.e.dropped # 0
    BY <2>2
  <2> QED
    BY <2>1, <2>2
<1>8. PICK tr : b.e.dropped = 0 => /\ Learning(tr, k, b.id, side, b.fills)
                                   /\ Knows(tr[N], m.resting, e.lost)
                                   /\ SameButOrders(tr[N], k)
  BY <1>7
<1>9. Telling(x, b, N, v, tr, su)
  <2>1. DOMAIN b.e = EngineFields /\ IsSeq(b.e.eq) /\ b.e.dropped \in Nat
    BY <1>3 DEF EngineTyped
  <2>2. b.e.dropped = 0 => Learning(tr, Learnt(v, b.e.eq), b.id, side, b.fills)
    BY <1>4, <1>8
  <2>3. \A j \in 1..Len(b.fills) : IsFill(b.fills[j])
    BY <1>2, <1>4 DEF Filling
  <2> QED
    BY <1>3, <1>5, <1>6, <2>1, <2>2, <2>3, AllTold DEF N
<1> HIDE DEF x
<1>10. /\ SameBook(x.e, b.e) /\ x.filled = qty - m.left
       /\ N = 0 => SameTrade(x.e, b.e)
       /\ N # 0 => x.e.last_trade_price = b.fills[N].price /\ x.e.last_taker = b.id
       /\ IsSeq(x.e.eq) /\ x.e.dropped \in Nat
       /\ x.e.dropped = 0 => b.e.dropped = 0 /\ Learnt(v, x.e.eq) = tr[N]
       /\ AllSound(x.e)
  BY <1>6, <1>9 DEF Telling
<1>11. /\ x.e.last_trade_price \in Nat /\ x.e.last_taker \in Nat
       /\ x.e.last_taker < b.e.next_order_id
  <2>1. CASE N = 0
    BY <1>3, <1>10, <2>1 DEF SameTrade, EngineTyped, Numbered
  <2>2. CASE N # 0
    <3>1. b.fills[N].price \in Nat
      <4>1. N \in 1..N
        BY <1>5, <2>2
      <4> QED
        BY <1>2, <1>4, <4>1 DEF Filling, IsFill, N
    <3> QED
      BY <1>3, <1>10, <2>2, <3>1
  <2> QED
    BY <2>1, <2>2
<1>12. EngineTyped(x.e)
  BY <1>3, <1>10, <1>11 DEF EngineTyped, SameBook
<1>13. ActiveStops(x.e) = ActiveStops(b.e) /\ StopIds(x.e) = StopIds(e)
  <2>1. x.e.stops = b.e.stops
    BY <1>10 DEF SameBook
  <2>2. ActiveStops(x.e) = ActiveStops(b.e)
    BY <2>1 DEF ActiveStops
  <2>3. StopIds(x.e) = StopIds(b.e)
    BY <2>1, <2>2 DEF StopIds
  <2> QED
    BY <1>3, <2>2, <2>3
<1>14. Numbered(x.e)
  BY <1>3, <1>10, <1>11, <1>13 DEF Numbered, SameBook
<1>15. KnownAs(v, x.e, m.resting)
  <2> SUFFICES ASSUME x.e.dropped = 0
               PROVE  /\ Knows(Learnt(v, x.e.eq), m.resting, x.e.lost)
                      /\ Learnt(v, x.e.eq).stops = StopIds(x.e)
                      /\ Learnt(v, x.e.eq).tob = x.e.last_tob
    BY DEF KnownAs
  <2>1. b.e.dropped = 0 /\ Learnt(v, x.e.eq) = tr[N]
    BY <1>10
  <2>2. Knows(tr[N], m.resting, e.lost) /\ SameButOrders(tr[N], k)
    BY <1>8, <2>1
  <2>3. k.stops = StopIds(e) /\ k.tob = e.last_tob
    BY <1>0, <1>4, <2>1 DEF Informed
  <2>4. x.e.lost = e.lost /\ x.e.last_tob = e.last_tob
    BY <1>4, <1>10 DEF SameBook
  <2> HIDE DEF k
  <2> QED
    BY <1>13, <2>1, <2>2, <2>3, <2>4 DEF SameButOrders
<1>16. b.fills = <<>> => SameTrade(x.e, e)
  BY <1>4, <1>5, <1>10 DEF SameTrade
<1> QED
  BY <1>10, <1>12, <1>14, <1>15, <1>16 DEF x
(* An event that tells the consumer nothing new. *)
LEMMA EmitSilent ==
  ASSUME NEW v, NEW e, BeforeTop(v, e), NEW event \in {"REJECTED", "FILLED"}, NEW id, NEW type, NEW qty,
         NEW remain, NEW filled,
         event = "FILLED" /\ type \in {"IOC", "FOK"} => id \in Nat /\ id < e.next_order_id /\ id \notin Ids(e.resting),
         event = "FILLED" /\ type = "FOK" => filled = qty
  PROVE  LET p == emit_order_event(e, event, id, type, qty, remain, filled)
         IN  BeforeTop(v, p) /\ SameBook(p, e) /\ SameTrade(p, e)
<1> DEFINE ev == [type |-> event, id |-> id, order_type |-> type, qty_original |-> qty,
                  qty_remain |-> remain, qty_filled |-> filled]
           p == eq_push(e, ev)
<1>1. p = emit_order_event(e, event, id, type, qty, remain, filled)
  BY Zenon DEF emit_order_event
<1>2. /\ ev.type = event /\ ev.id = id /\ ev.order_type = type /\ ev.qty_original = qty
      /\ ev.qty_filled = filled
  OBVIOUS
<1> HIDE DEF ev
<1>3. Tells(v, e, ev)
  <2>1. Learn(Learnt(v, e.eq), ev) = Learnt(v, e.eq)
    BY <1>2, LearnOther
  <2> QED
    BY <2>1 DEF Tells, BeforeTop, Informed
<1>4. Sound(ev, e.resting, e.next_order_id)
  BY <1>2 DEF Sound
<1>5. BeforeTop(v, p) /\ SameBook(p, e) /\ SameTrade(p, e)
  BY <1>3, <1>4, EmitTells DEF BeforeTop
<1> HIDE DEF p
<1> QED
  BY <1>1, <1>5

(* A refused order is told and changes nothing else. *)
LEMMA RefusedKeeps ==
  ASSUME NEW v, NEW e, EInv(v, e), NEW type, NEW qty
  PROVE  LET p == Refused(e, type, qty) IN EInv(v, p) /\ SameCore(p, e)
<1> DEFINE q == emit_order_event(e, "REJECTED", 0, type, qty, qty, 0)
           p == maybe_emit_tob(q)
<1>1. p = Refused(e, type, qty)
  BY Zenon DEF Refused
<1>2. EInv(v, q) /\ SameBook(q, e) /\ SameTrade(q, e)
  BY EmitRejected
<1> HIDE DEF q
<1>3. EInv(v, p) /\ SameCore(p, q)
  BY <1>2, TopEmitted DEF EInv, BeforeTop
<1> HIDE DEF p
<1>4. SameCore(p, e)
  BY <1>2, <1>3 DEF SameCore, SameBook, SameTrade
<1> QED
  BY <1>1, <1>3, <1>4

(* Step 4: the remainder of an IOC order is withdrawn, and that is told.    *)
LEMMA KillKeeps ==
  ASSUME NEW v, NEW t, EngineTyped(t), Numbered(t), AllSound(t), NEW R, KnownAs(v, t, R),
         NEW id \in Nat, id < t.next_order_id, id \notin StopIds(t), id \notin Ids(R),
         {o \in t.resting : o.id # id} = R, NEW qty, NEW filled
  PROVE  LET p == emit_order_event(ob_cancel_order(t, id), "CANCELLED", id, "IOC", qty, 0, filled)
         IN  /\ BeforeTop(v, p) /\ p.resting = R /\ p.next_order_id = t.next_order_id
             /\ p.stops = t.stops /\ SameTrade(p, t)
<1> DEFINE c == ob_cancel_order(t, id)
           ev == [type |-> "CANCELLED", id |-> id, order_type |-> "IOC", qty_original |-> qty,
                  qty_remain |-> 0, qty_filled |-> filled]
           p == eq_push(c, ev)
<1>1. p = emit_order_event(c, "CANCELLED", id, "IOC", qty, 0, filled)
  BY Zenon DEF emit_order_event
<1>2. Removed(c, t, id)
  BY CancelIs
<1>3. ev.type = "CANCELLED" /\ ev.id = id /\ ev.order_type = "IOC"
  OBVIOUS
<1> HIDE DEF c, ev
<1>4. /\ EngineTyped(c) /\ Numbered(c) /\ AllSound(c) /\ StopIds(c) = StopIds(t)
  BY <1>2, RemovedKeeps
<1>5. /\ c.resting = R /\ c.next_order_id = t.next_order_id /\ c.stops = t.stops /\ SameTrade(c, t)
      /\ c.eq = t.eq /\ c.dropped = t.dropped /\ c.lost = t.lost /\ c.last_tob = t.last_tob
  BY <1>2 DEF Removed, SameQueue
<1>6. Tells(v, c, ev)
  <2> SUFFICES ASSUME c.dropped = 0
               PROVE  /\ Knows(Learn(Learnt(v, c.eq), ev), c.resting, c.lost)
                      /\ Learn(Learnt(v, c.eq), ev).stops = StopIds(c)
                      /\ Learn(Learnt(v, c.eq), ev).tob = c.last_tob
    BY DEF Tells
  <2> DEFINE k == Learnt(v, c.eq)
             n == Learn(k, ev)
  <2>1. Knows(k, R, t.lost) /\ k.stops = StopIds(t) /\ k.tob = t.last_tob
    BY <1>5 DEF KnownAs
  <2> HIDE DEF k
  <2>2. DOMAIN k = KnowledgeFields
    BY <2>1 DEF Knows, KnowledgeFields
  <2>3. /\ DOMAIN n = KnowledgeFields /\ n.orders = Without(k.orders, id)
        /\ n.stops = k.stops \ {id} /\ n.tob = k.tob
    BY <1>3, <2>2, LearnCancelled
  <2> HIDE DEF n
  <2>4. Knows(n, R, t.lost)
    BY <2>1, <2>3, KnowsWithout
  <2> QED
    BY <1>4, <1>5, <2>1, <2>3, <2>4 DEF n, k
<1>7. Sound(ev, c.resting, c.next_order_id)
  BY <1>3, <1>5 DEF Sound
<1>8. BeforeTop(v, p) /\ SameBook(p, c) /\ SameTrade(p, c)
  BY <1>4, <1>6, <1>7, EmitTells
<1> HIDE DEF p
<1>9. /\ p.resting = R /\ p.next_order_id = t.next_order_id
      /\ p.stops = t.stops /\ SameTrade(p, t)
  BY <1>5, <1>8 DEF SameBook, SameTrade
<1> QED
  BY <1>1, <1>8, <1>9 DEF c

(* The order that rests is told with what is left of it. *)
LEMMA RestTold ==
  ASSUME NEW v, NEW t, EngineTyped(t), Numbered(t), AllSound(t), NEW R, KnownAs(v, t, R),
         NEW o \in Order, t.resting = R \cup {o}, o.id \notin Ids(R), o.id \notin t.lost,
         NEW event \in {"ACCEPTED", "PARTIAL"}, NEW type \in {"LIMIT", "MARKET"}, NEW qty, NEW filled
  PROVE  LET p == emit_order_event(t, event, o.id, type, qty, o.qty, filled)
         IN  BeforeTop(v, p) /\ SameBook(p, t) /\ SameTrade(p, t)
<1> DEFINE ev == [type |-> event, id |-> o.id, order_type |-> type, qty_original |-> qty,
                  qty_remain |-> o.qty, qty_filled |-> filled]
           p == eq_push(t, ev)
<1>1. p = emit_order_event(t, event, o.id, type, qty, o.qty, filled)
  BY Zenon DEF emit_order_event
<1>2. ev.type = event /\ ev.id = o.id /\ ev.order_type = type /\ ev.qty_remain = o.qty
  OBVIOUS
<1> HIDE DEF ev
<1>3. Tells(v, t, ev)
  <2> SUFFICES ASSUME t.dropped = 0
               PROVE  /\ Knows(Learn(Learnt(v, t.eq), ev), t.resting, t.lost)
                      /\ Learn(Learnt(v, t.eq), ev).stops = StopIds(t)
                      /\ Learn(Learnt(v, t.eq), ev).tob = t.last_tob
    BY DEF Tells
  <2> DEFINE k == Learnt(v, t.eq)
             n == Learn(k, ev)
  <2>1. Knows(k, R, t.lost) /\ k.stops = StopIds(t) /\ k.tob = t.last_tob
    BY DEF KnownAs
  <2> HIDE DEF k
  <2>2. DOMAIN k = KnowledgeFields
    BY <2>1 DEF Knows, KnowledgeFields
  <2>3. /\ DOMAIN n = KnowledgeFields /\ n.orders = With(k.orders, o.id, o.qty)
        /\ n.stops = k.stops /\ n.tob = k.tob
    <3>1. ev.type \in {"ACCEPTED", "PARTIAL", "MODIFIED"} /\ ev.order_type \notin {"STOP", "STOP_LIMIT"}
      BY <1>2
    <3> QED
      BY <1>2, <2>2, <3>1, LearnOrder
  <2> HIDE DEF n
  <2>4. Knows(n, t.resting, t.lost)
    <3> DEFINE S == t.resting
    <3>1. o \in S /\ Ids(S) = Ids(R) \cup {o.id}
      BY DEF Ids
    <3>2. \A w \in S : w = o \/ (w \in R /\ w.id # o.id)
      BY DEF Ids
    <3> HIDE DEF S
    <3>3. Knows(n, S, t.lost)
      BY <2>1, <2>3, <3>1, <3>2, KnowsWith
    <3> QED
      BY <3>3 DEF S
  <2> QED
    BY <2>1, <2>3, <2>4 DEF n, k
<1>4. Sound(ev, t.resting, t.next_order_id)
  BY <1>2 DEF Sound
<1>5. BeforeTop(v, p) /\ SameBook(p, t) /\ SameTrade(p, t)
  BY <1>3, <1>4, EmitTells
<1> HIDE DEF p
<1> QED
  BY <1>1, <1>5
(* The event of step 5. *)
LEMMA LifecycleIs ==
  ASSUME NEW e, NEW st, NEW id, NEW type, NEW qty, NEW left \in Nat, NEW filled \in Nat
  PROVE  LET p == Lifecycle(e, st, id, type, qty, left, filled)
         IN  /\ st = "REJECTED" => p = emit_order_event(e, "REJECTED", id, type, qty, qty, 0)
             /\ st # "REJECTED" /\ left = 0 => p = emit_order_event(e, "FILLED", id, type, qty, 0, filled)
             /\ st # "REJECTED" /\ left > 0 /\ filled > 0 =>
                  p = emit_order_event(e, "PARTIAL", id, type, qty, left, filled)
             /\ st # "REJECTED" /\ left > 0 /\ filled = 0 =>
                  p = emit_order_event(e, "ACCEPTED", id, type, qty, qty, 0)
<1> DEFINE p == Lifecycle(e, st, id, type, qty, left, filled)
           a == emit_order_event(e, "REJECTED", id, type, qty, qty, 0)
           b == emit_order_event(e, "FILLED", id, type, qty, 0, filled)
           c == emit_order_event(e, "PARTIAL", id, type, qty, left, filled)
           d == emit_order_event(e, "ACCEPTED", id, type, qty, qty, 0)
<1>1. p = CASE st = "REJECTED" -> a
            [] st # "REJECTED" /\ left = 0 -> b
            [] st # "REJECTED" /\ left > 0 /\ filled > 0 -> c
            [] st # "REJECTED" /\ left > 0 /\ filled = 0 -> d
  BY Zenon DEF Lifecycle
<1> HIDE DEF p, a, b, c, d
<1>2. /\ st = "REJECTED" => p = a
      /\ st # "REJECTED" /\ left = 0 => p = b
      /\ st # "REJECTED" /\ left > 0 /\ filled > 0 => p = c
      /\ st # "REJECTED" /\ left > 0 /\ filled = 0 => p = d
  BY <1>1
<1> QED
  BY <1>2 DEF p, a, b, c, d

(* What is left after the trades, of an order of which R does not know yet. *)
Unsettled(t, b, R, left) ==
  \/ /\ b.st = "OK" /\ left > 0
     /\ \E o \in Order : o.id = b.id /\ o.qty = left /\ t.resting = R \cup {o}
  \/ t.resting = R /\ b.st = IF left > 0 THEN "REJECTED" ELSE "OK"

(* p is t after steps 4 and 5, but for the top of book. *)
SettledAs(v, p, t) == BeforeTop(v, p) /\ p.stops = t.stops /\ SameTrade(p, t)

(* Steps 4 and 5 for an IOC order of which something is left. *)
LEMMA KilledKeeps ==
  ASSUME NEW v, NEW t, EngineTyped(t), Numbered(t), AllSound(t), NEW R, KnownAs(v, t, R),
         NEW b, NEW left, Unsettled(t, b, R, left),
         b.id \in Nat, b.id < t.next_order_id, b.id \notin StopIds(t), b.id \notin Ids(R),
         NEW qty, NEW filled \in Nat
  PROVE  LET killed == emit_order_event(ob_cancel_order(t, b.id), "CANCELLED", b.id, "IOC", qty, 0, filled)
         IN  SettledAs(v, Lifecycle(killed, b.st, b.id, "IOC", qty, 0, filled), t)
<1> DEFINE e == emit_order_event(ob_cancel_order(t, b.id), "CANCELLED", b.id, "IOC", qty, 0, filled)
           p == Lifecycle(e, b.st, b.id, "IOC", qty, 0, filled)
<1>1. {o \in t.resting : o.id # b.id} = R
  <2>1. \A o \in R : o.id # b.id
    BY DEF Ids
  <2> QED
    BY <2>1 DEF Unsettled
<1>2. /\ BeforeTop(v, e) /\ e.resting = R /\ e.next_order_id = t.next_order_id
      /\ e.stops = t.stops /\ SameTrade(e, t)
  BY <1>1, KillKeeps
<1> HIDE DEF e
<1>3. /\ b.st = "REJECTED" => p = emit_order_event(e, "REJECTED", b.id, "IOC", qty, qty, 0)
      /\ b.st # "REJECTED" => p = emit_order_event(e, "FILLED", b.id, "IOC", qty, 0, filled)
  BY LifecycleIs
<1>4. b.id < e.next_order_id /\ b.id \notin Ids(e.resting)
  BY <1>2
<1> HIDE DEF p
<1>5. BeforeTop(v, p) /\ SameBook(p, e) /\ SameTrade(p, e)
  <2>1. CASE b.st = "REJECTED"
    BY <1>2, <1>3, <2>1, EmitSilent
  <2>2. CASE b.st # "REJECTED"
    BY <1>2, <1>3, <1>4, <2>2, EmitSilent
  <2> QED
    BY <2>1, <2>2
<1>6. SettledAs(v, p, t)
  BY <1>2, <1>5 DEF SettledAs, SameBook, SameTrade
<1> QED
  BY <1>6 DEF p, e

(* Step 5 for the others. *)
LEMMA LifecycleKeeps ==
  ASSUME NEW v, NEW t, EngineTyped(t), Numbered(t), AllSound(t), NEW R, KnownAs(v, t, R),
         NEW b, NEW left \in Nat, Unsettled(t, b, R, left),
         b.id \in Nat, b.id < t.next_order_id, b.id \notin Ids(R), b.id \notin t.lost,
         NEW type \in {"LIMIT", "MARKET", "IOC", "FOK"}, type = "IOC" \/ type = "FOK" => left = 0,
         NEW qty \in Nat, NEW filled \in Nat, filled = qty - left
  PROVE  SettledAs(v, Lifecycle(t, b.st, b.id, type, qty, left, filled), t)
<1> DEFINE p == Lifecycle(t, b.st, b.id, type, qty, left, filled)
<1>1. /\ b.st = "REJECTED" => p = emit_order_event(t, "REJECTED", b.id, type, qty, qty, 0)
      /\ b.st # "REJECTED" /\ left = 0 => p = emit_order_event(t, "FILLED", b.id, type, qty, 0, filled)
      /\ b.st # "REJECTED" /\ left > 0 /\ filled > 0 =>
           p = emit_order_event(t, "PARTIAL", b.id, type, qty, left, filled)
      /\ b.st # "REJECTED" /\ left > 0 /\ filled = 0 =>
           p = emit_order_event(t, "ACCEPTED", b.id, type, qty, qty, 0)
  BY LifecycleIs
<1> HIDE DEF p
<1>2. CASE t.resting = R /\ b.st = IF left > 0 THEN "REJECTED" ELSE "OK"
  <2>1. BeforeTop(v, t)
    <3>1. Informed(v, t)
      BY <1>2 DEF KnownAs, Informed
    <3> QED
      BY <3>1 DEF BeforeTop
  <2>2. CASE left > 0
    <3>1. p = emit_order_event(t, "REJECTED", b.id, type, qty, qty, 0)
      BY <1>1, <1>2, <2>2
    <3>2. BeforeTop(v, p) /\ SameBook(p, t) /\ SameTrade(p, t)
      BY <2>1, <3>1, EmitSilent
    <3> QED
      BY <3>2 DEF SettledAs, SameBook, p
  <2>3. CASE left = 0
    <3>1. p = emit_order_event(t, "FILLED", b.id, type, qty, 0, filled)
      BY <1>1, <1>2, <2>3
    <3>2. filled = qty /\ b.id \notin Ids(t.resting)
      BY <1>2, <2>3
    <3>3. BeforeTop(v, p) /\ SameBook(p, t) /\ SameTrade(p, t)
      BY <2>1, <3>1, <3>2, EmitSilent
    <3> QED
      BY <3>3 DEF SettledAs, SameBook, p
  <2> QED
    BY <2>2, <2>3
<1>3. CASE b.st = "OK" /\ left > 0 /\ \E o \in Order : o.id = b.id /\ o.qty = left /\ t.resting = R \cup {o}
  <2>1. PICK o \in Order : o.id = b.id /\ o.qty = left /\ t.resting = R \cup {o}
    BY <1>3
  <2>2. type \in {"LIMIT", "MARKET"}
    BY <1>3
  <2>3. PICK event \in {"ACCEPTED", "PARTIAL"} : \E n : p = emit_order_event(t, event, o.id, type, qty, o.qty, n)
    <3>1. CASE filled > 0
      <4>1. p = emit_order_event(t, "PARTIAL", o.id, type, qty, o.qty, filled)
        BY <1>1, <1>3, <2>1, <3>1
      <4> QED
        BY <4>1
    <3>2. CASE filled = 0
      <4>1. p = emit_order_event(t, "ACCEPTED", o.id, type, qty, qty, 0) /\ qty = left
        BY <1>1, <1>3, <2>1, <3>2
      <4>2. p = emit_order_event(t, "ACCEPTED", o.id, type, qty, o.qty, 0)
        BY <2>1, <4>1
      <4> QED
        BY <4>2
    <3> QED
      BY <3>1, <3>2
  <2>4. PICK n : p = emit_order_event(t, event, o.id, type, qty, o.qty, n)
    BY <2>3
  <2>5. BeforeTop(v, p) /\ SameBook(p, t) /\ SameTrade(p, t)
    BY <2>1, <2>2, <2>4, RestTold
  <2> QED
    BY <2>5 DEF SettledAs, SameBook, p
<1> QED
  BY <1>2, <1>3 DEF Unsettled

(* What steps 4 and 5 start from, and what they end with. *)
ToSettle(v, t, R, b, left, type, qty, filled) ==
  /\ EngineTyped(t) /\ Numbered(t) /\ AllSound(t) /\ KnownAs(v, t, R)
  /\ left \in Nat /\ Unsettled(t, b, R, left)
  /\ b.id \in Nat \ {0} /\ b.id < t.next_order_id /\ b.id \notin StopIds(t) /\ b.id \notin Ids(R)
  /\ b.id \notin t.lost
  /\ type \in {"LIMIT", "MARKET", "IOC", "FOK"} /\ (type = "FOK" => left = 0)
  /\ qty \in Nat /\ filled \in Nat /\ filled = qty - left

AfterSettle(v, r, t, b) ==
  /\ EInv(v, r.e) /\ r.e.stops = t.stops /\ SameTrade(r.e, t) /\ r.scan = (b.fills # <<>>)
  /\ DOMAIN r = {"e", "scan", "out"}

(* Steps 4 to 6 of me_submit_order: the remainder is killed or told, then the top. *)
LEMMA SettleKeeps ==
  ASSUME NEW v, NEW t, NEW R, NEW b, NEW left, NEW type, NEW qty, NEW filled,
         ToSettle(v, t, R, b, left, type, qty, filled)
  PROVE  AfterSettle(v, Settle(t, b, filled, type, qty), t, b)
<1>0. /\ EngineTyped(t) /\ Numbered(t) /\ AllSound(t) /\ KnownAs(v, t, R)
      /\ left \in Nat /\ Unsettled(t, b, R, left)
      /\ b.id \in Nat \ {0} /\ b.id < t.next_order_id /\ b.id \notin StopIds(t) /\ b.id \notin Ids(R)
      /\ b.id \notin t.lost
      /\ type \in {"LIMIT", "MARKET", "IOC", "FOK"} /\ (type = "FOK" => left = 0)
      /\ qty \in Nat /\ filled \in Nat /\ filled = qty - left
  BY DEF ToSettle
<1> DEFINE r == Settle(t, b, filled, type, qty)
           kills == KillsRemainder(type, b.id, qty - filled)
           killed == emit_order_event(ob_cancel_order(t, b.id), "CANCELLED", b.id, type, qty, 0, filled)
           p == Lifecycle(IF kills THEN killed ELSE t, b.st, b.id, type, qty,
                          IF kills THEN 0 ELSE qty - filled, filled)
<1>1. r.e = maybe_emit_tob(p) /\ r.scan = (b.fills # <<>>) /\ DOMAIN r = {"e", "scan", "out"}
  <2> DEFINE out == [status |-> SubmitStatus(b.st, IF kills THEN 0 ELSE qty - filled, filled), id |-> b.id]
  <2>1. r = [e |-> maybe_emit_tob(p), scan |-> b.fills # <<>>, out |-> out]
    BY Zenon DEF Settle
  <2> HIDE DEF out, p, r
  <2> QED
    BY <2>1
<1>2. qty - filled = left
  BY <1>0
<1>3. kills <=> type = "IOC" /\ left > 0
  BY <1>0, <1>2 DEF KillsRemainder
<1>4. SettledAs(v, p, t)
  <2>1. CASE kills
    <3>1. type = "IOC"
      BY <1>3, <2>1
    <3>2. p = Lifecycle(killed, b.st, b.id, type, qty, 0, filled)
      <4> HIDE DEF killed, kills
      <4> QED
        BY <2>1
    <3> HIDE DEF p
    <3> QED
      BY <1>0, <3>1, <3>2, KilledKeeps
  <2>2. CASE ~kills
    <3>1. p = Lifecycle(t, b.st, b.id, type, qty, left, filled)
      <4> HIDE DEF killed, kills
      <4> QED
        BY <1>2, <2>2
    <3>2. type = "IOC" \/ type = "FOK" => left = 0
      BY <1>0, <1>3, <2>2
    <3> HIDE DEF p
    <3> QED
      BY <1>0, <3>1, <3>2, LifecycleKeeps
  <2> QED
    BY <2>1, <2>2
<1> HIDE DEF p, r
<1>5. EInv(v, r.e) /\ SameCore(r.e, p)
  BY <1>1, <1>4, TopEmitted DEF SettledAs
<1> QED
  BY <1>1, <1>4, <1>5 DEF r, SettledAs, SameCore, SameTrade, AfterSettle
(* A FOK order that passes the check is filled completely. *)
LEMMA CheckedIsFilled ==
  ASSUME NEW R, IsBook(R), NEW side \in Side, NEW price, NEW qty \in Nat,
         orders_fok_check(R, side, price, qty)
  PROVE  Match(R, side, price, qty).left = 0
<1> DEFINE m == Match(R, side, price, qty)
           T == Total(Eligible(R, side, price))
           A == Eligible(m.resting, side, price)
<1>1. Filling(m, R, side, price, qty) /\ (m.left = 0 \/ A = {})
  BY MatchFills
<1>2. T \in Int /\ T >= qty
  BY FillingTotals DEF orders_fok_check
<1> HIDE DEF m
<1>3. Total(A) = T - (qty - m.left) /\ m.left \in Nat
  BY <1>1 DEF Filling
<1> HIDE DEF T, A
<1>4. ASSUME A = {} PROVE m.left = 0
  <2>1. IsFiniteSet(A) /\ A \subseteq Order
    BY <1>4, FS_EmptySet
  <2>2. Total(A) = 0
    BY <1>4, <2>1, TotalType
  <2> QED
    BY <1>2, <1>3, <2>2
<1> QED
  BY <1>1, <1>4 DEF m

(* r is what me_submit_order made of e. *)
Submitted(v, r, e) ==
  /\ EInv(v, r.e) /\ r.e.stops = e.stops /\ r.scan \in BOOLEAN
  /\ ~r.scan => SameTrade(r.e, e)
  /\ DOMAIN r = {"e", "scan", "out"}

(* The book is full. *)
LEMMA FullKeeps ==
  ASSUME NEW v, NEW e, EInv(v, e), NEW b, b = [e |-> e, st |-> "REJECTED", id |-> 0, fills |-> <<>>],
         NEW type \in {"LIMIT", "MARKET", "IOC", "FOK"}, NEW side, NEW qty \in Nat
  PROVE  Submitted(v, Booked(b, type, side, qty), e)
<1> DEFINE r == Booked(b, type, side, qty)
           p == emit_order_event(e, "REJECTED", 0, type, qty, qty, 0)
<1>1. b.e = e /\ b.st = "REJECTED" /\ b.id = 0 /\ b.fills = <<>> /\ Len(b.fills) = 0
  OBVIOUS
<1>2. TradesTold(b, side) = [e |-> e, filled |-> 0]
  <2>1. PICK g : g[0] = [e |-> b.e, filled |-> 0] /\ TradesTold(b, side) = g[Len(b.fills)]
    BY <1>1, TradedIs
  <2> QED
    BY <1>1, <2>1
<1>3. r = Settle(e, b, 0, type, qty)
  <2>1. TradesTold(b, side).e = e /\ TradesTold(b, side).filled = 0
    BY <1>2
  <2>2. r = Settle(TradesTold(b, side).e, b, TradesTold(b, side).filled, type, qty)
    BY Zenon DEF Booked
  <2> HIDE DEF r
  <2> QED
    BY <2>1, <2>2
<1>4. r.e = maybe_emit_tob(p) /\ r.scan = FALSE /\ DOMAIN r = {"e", "scan", "out"}
  <2> DEFINE kills == KillsRemainder(type, b.id, qty - 0)
             killed == emit_order_event(ob_cancel_order(e, b.id), "CANCELLED", b.id, type, qty, 0, 0)
             q == Lifecycle(IF kills THEN killed ELSE e, b.st, b.id, type, qty,
                            IF kills THEN 0 ELSE qty - 0, 0)
             out == [status |-> SubmitStatus(b.st, IF kills THEN 0 ELSE qty - 0, 0), id |-> b.id]
  <2>1. r = [e |-> maybe_emit_tob(q), scan |-> b.fills # <<>>, out |-> out]
    <3> HIDE DEF r
    <3> QED
      BY <1>3, Zenon DEF Settle
  <2>2. ~kills /\ qty - 0 = qty
    BY <1>1 DEF KillsRemainder
  <2>3. q = Lifecycle(e, "REJECTED", 0, type, qty, qty, 0)
    <3> HIDE DEF killed, kills
    <3> QED
      BY <1>1, <2>2
  <2> HIDE DEF q, out, r
  <2>4. q = p
    BY <2>3, LifecycleIs
  <2> QED
    BY <1>1, <2>1, <2>4
<1> HIDE DEF r
<1>5. EInv(v, p) /\ SameBook(p, e) /\ SameTrade(p, e)
  BY EmitRejected
<1> HIDE DEF p
<1>6. EInv(v, r.e) /\ SameCore(r.e, p)
  BY <1>4, <1>5, TopEmitted DEF EInv, BeforeTop
<1>7. Submitted(v, r, e)
  BY <1>4, <1>5, <1>6 DEF Submitted, SameCore, SameBook, SameTrade
<1> QED
  BY <1>7 DEF r

(* Steps 2 to 5. *)
LEMMA BookedKeeps ==
  ASSUME NEW v, NEW e, EInv(v, e), NEW type \in {"LIMIT", "MARKET", "IOC", "FOK"}, NEW side \in Side,
         NEW price \in Nat, NEW qty \in Nat \ {0},
         type = "FOK" => orders_fok_check(e.resting, side, price, qty)
  PROVE  Submitted(v, Booked(ob_add_order(e, side, price, qty), type, side, qty), e)
<1> DEFINE b == ob_add_order(e, side, price, qty)
           m == Match(e.resting, side, price, qty)
           r == Booked(b, type, side, qty)
           x == TradesTold(b, side)
<1>0. EngineTyped(e) /\ Numbered(e) /\ AllSound(e)
  BY DEF EInv
<1>1. IsBook(e.resting)
  BY <1>0, BookOfEngine
<1>2. Filling(m, e.resting, side, price, qty) /\ m.left \in Nat /\ m.left <= qty
  BY <1>1, MatchFills DEF Filling
<1>3. type = "FOK" => m.left = 0
  BY <1>1, CheckedIsFilled
<1>4. \/ b = [e |-> e, st |-> "REJECTED", id |-> 0, fills |-> <<>>]
      \/ Added(b, e, m) /\ (Rests(b, e, m) \/ Leaves(b, m))
  BY <1>0, <1>2, AddIs
<1>5. r = Settle(x.e, b, x.filled, type, qty)
  BY Zenon DEF Booked
<1> HIDE DEF b, r
<1>6. CASE b = [e |-> e, st |-> "REJECTED", id |-> 0, fills |-> <<>>]
  BY <1>6, FullKeeps DEF r, b
<1>7. CASE Added(b, e, m) /\ (Rests(b, e, m) \/ Leaves(b, m))
  <2>1. /\ EngineTyped(x.e) /\ Numbered(x.e) /\ AllSound(x.e)
        /\ SameBook(x.e, b.e) /\ KnownAs(v, x.e, m.resting)
        /\ x.filled = qty - m.left
        /\ b.fills = <<>> => SameTrade(x.e, e)
    BY <1>7, TradedKeeps
  <2> HIDE DEF x
  <2>2. /\ StopIds(b.e) = StopIds(e) /\ b.id \notin StopIds(e)
        /\ b.id \notin Ids(m.resting) /\ b.id \notin e.lost
        /\ b.id \in Nat \ {0} /\ b.id < b.e.next_order_id
    BY <1>0, <1>2, <1>7, AddedKeeps
  <2> HIDE DEF m
  <2>3. /\ x.e.resting = b.e.resting /\ x.e.next_order_id = b.e.next_order_id
        /\ x.e.stops = b.e.stops /\ x.e.lost = b.e.lost /\ b.e.stops = e.stops /\ b.e.lost = e.lost
    BY <1>7, <2>1 DEF SameBook, Added
  <2>4. StopIds(x.e) = StopIds(e)
    BY <2>3 DEF StopIds, ActiveStops
  <2>5. Unsettled(x.e, b, m.resting, m.left)
    BY <1>7, <2>3 DEF Unsettled, Rests, Leaves
  <2>6. x.filled \in Nat
    BY <1>2, <2>1
  <2> DEFINE t == x.e
             R == m.resting
             left == m.left
             filled == x.filled
  <2>7. ToSettle(v, t, R, b, left, type, qty, filled)
    BY <1>2, <1>3, <2>1, <2>2, <2>3, <2>4, <2>5, <2>6 DEF ToSettle
  <2>8. r = Settle(t, b, filled, type, qty)
    BY <1>5
  <2>9. t.stops = e.stops /\ (b.fills = <<>> => SameTrade(t, e))
    BY <2>1, <2>3
  <2> HIDE DEF t, R, left, filled
  <2>10. Submitted(v, r, e)
    <3>1. AfterSettle(v, r, t, b)
      BY <2>7, <2>8, SettleKeeps
    <3> QED
      BY <2>9, <3>1 DEF AfterSettle, Submitted, SameTrade
  <2> QED
    BY <2>10 DEF r, b
<1> QED
  BY <1>4, <1>6, <1>7

(* me_submit_order as a whole, whatever the order's type. *)
LEMMA SubmitKeeps ==
  ASSUME NEW v, NEW e, EInv(v, e), NEW type \in {"LIMIT", "MARKET", "IOC", "FOK"}, NEW side \in Side,
         NEW price \in Nat, NEW qty \in Nat \ {0}
  PROVE  Submitted(v, me_submit_order(e, type, side, price, qty), e)
<1> DEFINE limit == IF type = "MARKET" THEN orders_market_sentinel(side) ELSE price
           r == me_submit_order(e, type, side, price, qty)
           b == Booked(ob_add_order(e, side, limit, qty), type, side, qty)
           c == [e |-> Refused(e, type, qty), scan |-> FALSE, out |-> [status |-> "REJECTED", id |-> 0]]
<1>1. r = IF Accepts(e.resting, type, side, price, qty) THEN b ELSE c
  BY Zenon DEF me_submit_order
<1>2. limit \in Nat
  BY EngineAssumption DEF orders_market_sentinel
<1> HIDE DEF r
<1>3. CASE Accepts(e.resting, type, side, price, qty)
  <2>1. type = "FOK" => orders_fok_check(e.resting, side, price, qty) /\ limit = price
    BY <1>3 DEF Accepts
  <2> HIDE DEF limit
  <2>2. type = "FOK" => orders_fok_check(e.resting, side, limit, qty)
    BY <2>1
  <2>3. Submitted(v, b, e)
    BY <1>2, <2>2, BookedKeeps
  <2> QED
    BY <1>1, <1>3, <2>3 DEF r
<1>4. CASE ~Accepts(e.resting, type, side, price, qty)
  <2> DEFINE p == Refused(e, type, qty)
  <2>1. EInv(v, p) /\ SameCore(p, e)
    BY RefusedKeeps
  <2>2. r.e = p /\ r.scan = FALSE /\ DOMAIN r = {"e", "scan", "out"}
    <3>1. r = c
      <4> HIDE DEF b, c
      <4> QED
        BY <1>1, <1>4
    <3> QED
      BY <3>1
  <2> HIDE DEF p
  <2>3. Submitted(v, r, e)
    BY <2>1, <2>2 DEF Submitted, SameCore
  <2> QED
    BY <2>3 DEF r
<1> QED
  BY <1>3, <1>4
-----------------------------------------------------------------------------
(* The cascade. *)

(* Disarming a stop and telling that it was triggered. *)
LEMMA ArmedKeeps ==
  ASSUME NEW v, NEW e, EInv(v, e), NEW i \in ActiveStops(e)
  PROVE  LET s == e.stops[i]
             p == emit_order_event(Disarm(e, i), "STOP_TRIGGERED", s.id, s.orig_type, s.qty, s.qty, 0)
         IN  EInv(v, p) /\ Disarmed(p, e, i)
<1> DEFINE s == e.stops[i]
           p == emit_order_event(Disarm(e, i), "STOP_TRIGGERED", s.id, s.orig_type, s.qty, s.qty, 0)
           ev == [type |-> "STOP_TRIGGERED", id |-> s.id, order_type |-> s.orig_type,
                  qty_original |-> s.qty, qty_remain |-> s.qty, qty_filled |-> 0]
<1>1. p = eq_push(Deactivate(e, i), ev)
  BY Zenon DEF Disarm, emit_order_event
<1>2. s \in Stop
  BY StopFields DEF EInv, ActiveStops
<1>3. ev.type \in {"CANCELLED", "STOP_TRIGGERED"} /\ ev.id = s.id /\ ev.order_type \in {"STOP", "STOP_LIMIT"}
  BY <1>2 DEF Stop
<1> HIDE DEF ev, p
<1>4. EInv(v, p) /\ Disarmed(p, e, i)
  BY <1>1, <1>3, DisarmKeeps
<1> QED
  BY <1>4 DEF p

(* A stack with one scan more. *)
LEMMA ScanPushed ==
  ASSUME NEW s \in Seq(Scanning), NEW x \in Scanning
  PROVE  /\ Append(s, x) \in Seq(Scanning) /\ Len(Append(s, x)) = Len(s) + 1
         /\ \A n \in 1..Len(s) : Append(s, x)[n] = s[n]
         /\ Append(s, x)[Len(s) + 1] = x /\ Len(s) \in Nat
OBVIOUS

(* The stack of suspended scans without its last. *)
LEMMA ScanPopped ==
  ASSUME NEW s \in Seq(Scanning), s # <<>>
  PROVE  /\ Front(s) \in Seq(Scanning) /\ Len(Front(s)) = Len(s) - 1 /\ Len(s) \in Nat \ {0}
         /\ \A n \in 1..(Len(s) - 1) : Front(s)[n] = s[n]
         /\ Last(s) = s[Len(s)] /\ Last(s) \in Scanning
<1> DEFINE N == Len(s) - 1
           f == SubSeq(s, 1, N)
<1>1. Len(s) \in Nat \ {0} /\ N \in Nat
  OBVIOUS
<1>2. \A i \in 1..Len(s) : s[i] \in Scanning
  OBVIOUS
<1>3. 1..N \subseteq 1..Len(s) /\ Len(s) \in 1..Len(s)
  BY <1>1
<1> HIDE DEF N
<1>4. /\ f \in Seq(Scanning) /\ Len(f) = IF 1 <= N THEN N - 1 + 1 ELSE 0
      /\ \A i \in 1..(N - 1 + 1) : f[i] = s[1 + i - 1]
  <2>1. \A i \in 1..N : s[i] \in Scanning
    BY <1>2, <1>3
  <2>2. 1 \in Int /\ N \in Int
    BY <1>1
  <2> QED
    BY <2>1, <2>2, SubSeqProperties
<1> HIDE DEF f
<1>5. N - 1 + 1 = N /\ (IF 1 <= N THEN N - 1 + 1 ELSE 0) = N /\ \A i \in 1..N : 1 + i - 1 = i
  BY <1>1
<1>6. Len(f) = N /\ \A i \in 1..N : f[i] = s[i]
  BY <1>4, <1>5
<1>7. Front(s) = f /\ Last(s) = s[Len(s)]
  BY Zenon DEF Front, Last, f, N
<1> QED
  BY <1>1, <1>2, <1>3, <1>4, <1>6, <1>7 DEF N

(* The calls in progress after an order was submitted. *)
LEMMA CalledIs ==
  ASSUME NEW v, NEW r, NEW e, Submitted(v, r, e), NEW calls \in Seq(Scanning)
  PROVE  /\ Called(calls, r) \in Seq(Scanning)
         /\ Len(Called(calls, r)) <= Len(calls) + 1 /\ Len(Called(calls, r)) \in Nat /\ Len(calls) \in Nat
         /\ Len(calls) <= Len(Called(calls, r))
         /\ \A n \in 1..Len(calls) : Called(calls, r)[n] = calls[n]
         /\ r.scan => /\ Len(Called(calls, r)) = Len(calls) + 1
                      /\ Called(calls, r)[Len(calls) + 1] = [ltp |-> r.e.last_trade_price, i |-> 1]
<1> DEFINE x == [ltp |-> r.e.last_trade_price, i |-> 1]
<1>1. r.scan \in BOOLEAN /\ r.e.last_trade_price \in Nat
  BY DEF Submitted, EInv, EngineTyped
<1>2. Called(calls, r) = IF r.scan THEN Append(calls, x) ELSE calls
  BY Zenon DEF Called, Scan
<1>3. x \in Scanning
  BY <1>1 DEF Scanning
<1> HIDE DEF x
<1>4. /\ Append(calls, x) \in Seq(Scanning) /\ Len(Append(calls, x)) = Len(calls) + 1
      /\ \A n \in 1..Len(calls) : Append(calls, x)[n] = calls[n]
      /\ Append(calls, x)[Len(calls) + 1] = x /\ Len(calls) \in Nat
  BY <1>3, ScanPushed
<1>5. CASE r.scan
  BY <1>2, <1>4, <1>5 DEF x
<1>6. CASE ~r.scan
  BY <1>2, <1>4, <1>6
<1> QED
  BY <1>1, <1>5, <1>6

(* The stops of the pool are at most ME_MAX_STOPS. *)
LEMMA PoolBounded ==
  ASSUME NEW e
  PROVE  /\ IsFiniteSet(ActiveStops(e)) /\ Cardinality(ActiveStops(e)) \in Nat
         /\ Cardinality(ActiveStops(e)) <= ME_MAX_STOPS
<1>1. ME_MAX_STOPS \in Nat
  BY EngineAssumption
<1>2. IsFiniteSet(Slots) /\ Cardinality(Slots) = ME_MAX_STOPS
  <2>1. /\ IsFiniteSet(1..ME_MAX_STOPS)
        /\ Cardinality(1..ME_MAX_STOPS) = IF 1 > ME_MAX_STOPS THEN 0 ELSE ME_MAX_STOPS - 1 + 1
    BY <1>1, FS_Interval
  <2>2. (IF 1 > ME_MAX_STOPS THEN 0 ELSE ME_MAX_STOPS - 1 + 1) = ME_MAX_STOPS
    BY <1>1
  <2> QED
    BY <2>1, <2>2 DEF Slots
<1>3. ActiveStops(e) \subseteq Slots
  BY DEF ActiveStops
<1>4. /\ IsFiniteSet(ActiveStops(e)) /\ Cardinality(ActiveStops(e)) <= Cardinality(Slots)
  BY <1>2, <1>3, FS_Subset
<1> QED
  BY <1>2, <1>4, FS_CardinalityType
-----------------------------------------------------------------------------
(* me_init, handing over the events, and setting the result. *)

(* A consumer who knows nothing yet. *)
NothingKnown == [orders |-> [i \in {} |-> 0], stops |-> {}, tob |-> EmptyTop]

(* me_init establishes the invariant. *)
LEMMA EngineStarts ==
  ASSUME EngineInit
  PROVE  EInv(NothingKnown, me)
<1> DEFINE v == NothingKnown
<1>1. /\ DOMAIN me = EngineFields /\ me.resting = {} /\ me.roots = NoLevels /\ me.next_order_id = 1
      /\ me.clock = 0 /\ me.stops = [i \in Slots |-> NoStop] /\ me.last_trade_price = 0
      /\ me.last_taker = 0 /\ me.lost = {} /\ me.eq = <<>> /\ me.dropped = 0 /\ me.last_tob = EmptyTop
  <2> HIDE DEF EmptyTop
  <2> QED
    BY DEF EngineInit, EngineFields
<1>2. DOMAIN v = KnowledgeFields /\ v.orders = [i \in {} |-> 0] /\ v.stops = {} /\ v.tob = EmptyTop
  BY DEF NothingKnown, KnowledgeFields
<1> HIDE DEF v
<1>3. ActiveStops(me) = {} /\ StopIds(me) = {}
  <2>1. \A i \in Slots : ~me.stops[i].active
    BY <1>1 DEF NoStop
  <2>2. ActiveStops(me) = {}
    BY <2>1 DEF ActiveStops
  <2> QED
    BY <2>2 DEF StopIds
<1>4. EngineTyped(me)
  <2>1. IsSeq(me.eq)
    BY <1>1 DEF IsSeq
  <2>2. me.stops \in [Slots -> Stop \cup {NoStop}]
    BY <1>1
  <2> QED
    BY <1>1, <2>1, <2>2, FS_EmptySet DEF EngineTyped
<1>5. Numbered(me)
  BY <1>1, <1>3 DEF Numbered, Apart, Ids
<1>6. Informed(v, me)
  <2>1. Learnt(v, me.eq) = v
    BY <1>1, LearntNothing
  <2>2. Knows(v, {}, {})
    BY <1>2 DEF Knows, Ids, KnowledgeFields
  <2> QED
    BY <1>1, <1>2, <1>3, <2>1, <2>2 DEF Informed
<1>7. TopKept(me)
  BY <1>1 DEF TopKept, me_top_of_book, EmptyTop
<1>8. AllSound(me)
  BY <1>1 DEF AllSound
<1> QED
  BY <1>4, <1>5, <1>6, <1>7, <1>8 DEF EInv, v

(* p is e with all its events handed over and another result. *)
HandedOver(p, e, out) == p = [e EXCEPT !.eq = <<>>, !.out = out]

(* The consumer has learnt what was handed over. *)
LEMMA HandedOverKeeps ==
  ASSUME NEW v, NEW e, EInv(v, e), NEW p, NEW out, HandedOver(p, e, out)
  PROVE  /\ EInv(Learnt(v, e.eq), p)
         /\ SameBook(p, e) /\ SameTrade(p, e) /\ p.eq = <<>> /\ p.out = out
<1> DEFINE w == Learnt(v, e.eq)
<1>2. EngineTyped(e) /\ Numbered(e) /\ Informed(v, e) /\ TopKept(e) /\ AllSound(e)
  BY DEF EInv
<1>3. SameBook(p, e) /\ SameTrade(p, e) /\ p.eq = <<>> /\ p.out = out /\ p.dropped = e.dropped
  <2> DEFINE a == [e EXCEPT !.eq = <<>>]
             b == [a EXCEPT !.out = out]
  <2>1. DOMAIN e = EngineFields
    BY <1>2 DEF EngineTyped
  <2>2. p = b
    BY DEF HandedOver
  <2>3. SameBook(a, e) /\ SameTrade(a, e) /\ a.eq = <<>> /\ a.dropped = e.dropped
    BY <2>1 DEF SameBook, SameTrade, EngineFields
  <2> HIDE DEF a
  <2>4. SameBook(b, e) /\ SameTrade(b, e) /\ b.eq = <<>> /\ b.out = out /\ b.dropped = e.dropped
    BY <2>3 DEF SameBook, SameTrade, EngineFields
  <2> QED
    BY <2>2, <2>4
<1>4. IsSeq(p.eq) /\ p.dropped \in Nat
  BY <1>2, <1>3 DEF IsSeq, EngineTyped
<1>5. EngineTyped(p) /\ Numbered(p)
  BY <1>2, <1>3, <1>4, TypedSame, NumberedSame
<1>6. p.stops = e.stops /\ ActiveStops(p) = ActiveStops(e)
  BY <1>3 DEF SameBook, ActiveStops
<1>7. Informed(w, p)
  <2>1. Learnt(w, p.eq) = w
    BY <1>3, LearntNothing
  <2>2. StopIds(p) = StopIds(e)
    BY <1>6 DEF StopIds
  <2> QED
    BY <1>2, <1>3, <2>1, <2>2 DEF Informed, SameBook
<1>8. TopKept(p)
  BY <1>2, <1>3, TopStays DEF SameBook
<1>9. AllSound(p)
  BY <1>3 DEF AllSound
<1> QED
  BY <1>3, <1>5, <1>7, <1>8, <1>9 DEF EInv

(* p is e with another result. *)
ResultSet(p, e, out) == p = [e EXCEPT !.out = out]

(* The result is no part of the book or of what was told. *)
LEMMA ResultSetKeeps ==
  ASSUME NEW v, NEW e, EInv(v, e), NEW p, NEW out, ResultSet(p, e, out)
  PROVE  EInv(v, p) /\ SameBook(p, e) /\ SameTrade(p, e) /\ SameQueue(p, e) /\ p.out = out
<1>1. DOMAIN e = EngineFields
  BY DEF EInv, EngineTyped
<1>2. SameBook(p, e) /\ SameTrade(p, e) /\ SameQueue(p, e) /\ p.out = out
  BY <1>1 DEF ResultSet, SameBook, SameTrade, SameQueue, EngineFields
<1> QED
  BY <1>2, EInvSame
-----------------------------------------------------------------------------
(* Results and ids: what a client's call sets, and nothing else does.       *)

(* p has the result and the next id of e. *)
SameIds(p, e) ==
  /\ DOMAIN e = EngineFields /\ DOMAIN p = EngineFields
  /\ p.out = e.out /\ p.next_order_id = e.next_order_id

(* One after the other. *)
LEMMA SameIdsChain ==
  ASSUME NEW e, NEW p, NEW q, SameIds(p, e), SameIds(q, p)
  PROVE  SameIds(q, e)
BY DEF SameIds

(* An event, whether it is kept or dropped. *)
LEMMA PushSameIds ==
  ASSUME NEW e, DOMAIN e = EngineFields, NEW ev
  PROVE  SameIds(eq_push(e, ev), e)
<1> DEFINE a == [e EXCEPT !.eq = Append(e.eq, ev)]
           b == [e EXCEPT !.dropped = e.dropped + 1]
<1>1. eq_push(e, ev) = IF Len(e.eq) < ME_EVENT_QUEUE_CAP - 1 THEN a ELSE b
  BY DEF eq_push
<1>2. SameIds(a, e)
  BY DEF SameIds, EngineFields
<1>3. SameIds(b, e)
  BY DEF SameIds, EngineFields
<1> HIDE DEF a, b
<1> QED
  BY <1>1, <1>2, <1>3

(* The event of an order. *)
LEMMA EmitSameIds ==
  ASSUME NEW e, DOMAIN e = EngineFields, NEW event, NEW id, NEW type, NEW qty, NEW remain, NEW filled
  PROVE  SameIds(emit_order_event(e, event, id, type, qty, remain, filled), e)
<1> DEFINE ev == [type |-> event, id |-> id, order_type |-> type, qty_original |-> qty,
                  qty_remain |-> remain, qty_filled |-> filled]
<1>1. emit_order_event(e, event, id, type, qty, remain, filled) = eq_push(e, ev)
  BY Zenon DEF emit_order_event
<1>2. SameIds(eq_push(e, ev), e)
  BY PushSameIds
<1> QED
  BY <1>1, <1>2

(* The event of a trade. *)
LEMMA TradeSameIds ==
  ASSUME NEW e, DOMAIN e = EngineFields, NEW id, NEW side, NEW fill
  PROVE  SameIds(emit_trade(e, id, side, fill), e)
<1> DEFINE q == eq_push(e, TradeEvent(id, side, fill))
           a == [q EXCEPT !.last_trade_price = fill.price]
           b == [a EXCEPT !.last_taker = id]
           p == emit_trade(e, id, side, fill)
<1>1. p = b
  <2>1. p = [q EXCEPT !.last_trade_price = fill.price, !.last_taker = id]
    BY Zenon DEF emit_trade, TradeEvent
  <2> HIDE DEF q, p
  <2> QED
    BY <2>1
<1>2. SameIds(q, e)
  BY PushSameIds
<1> HIDE DEF q, p
<1>3. SameIds(a, e)
  BY <1>2 DEF SameIds, EngineFields
<1> HIDE DEF a
<1>4. SameIds(b, e)
  BY <1>3 DEF SameIds, EngineFields
<1> HIDE DEF b
<1> QED
  BY <1>1, <1>4 DEF p

(* The top of book. *)
LEMMA TopSameIds ==
  ASSUME NEW e, DOMAIN e = EngineFields
  PROVE  SameIds(maybe_emit_tob(e), e)
<1> DEFINE tob == me_top_of_book(e)
           q == eq_push(e, [type |-> "BOOK_UPDATED", tob |-> tob])
           p == [q EXCEPT !.last_tob = tob]
<1>1. maybe_emit_tob(e) = IF tob = e.last_tob THEN e ELSE p
  BY Zenon DEF maybe_emit_tob
<1>2. SameIds(q, e)
  BY PushSameIds
<1> HIDE DEF q, tob
<1>3. SameIds(p, e)
  BY <1>2 DEF SameIds, EngineFields
<1>4. SameIds(e, e)
  BY DEF SameIds
<1> HIDE DEF p
<1> QED
  BY <1>1, <1>3, <1>4

(* Other orders in the book. *)
LEMMA HoldingSameIds ==
  ASSUME NEW e, DOMAIN e = EngineFields, NEW R
  PROVE  SameIds(Holding(e, R), e)
<1> DEFINE r == Grown(e, R)
           a == [e EXCEPT !.resting = R]
           p == [a EXCEPT !.roots = r]
<1>1. Holding(e, R) = p
  BY Zenon DEF Holding
<1> HIDE DEF r
<1>2. SameIds(a, e)
  BY DEF SameIds, EngineFields
<1> HIDE DEF a
<1>3. SameIds(p, e)
  BY <1>2 DEF SameIds, EngineFields
<1> QED
  BY <1>1, <1>3

(* Step 3: every fill is told. *)
LEMMA TradedSameIds ==
  ASSUME NEW b, NEW side, Len(b.fills) \in Nat, DOMAIN b.e = EngineFields
  PROVE  SameIds(TradesTold(b, side).e, b.e)
<1> DEFINE N == Len(b.fills)
<1>1. PICK g : /\ g[0] = [e |-> b.e, filled |-> 0]
               /\ \A n \in 1..N : g[n] = NextTrade(g[n - 1], b.id, side, b.fills[n])
               /\ TradesTold(b, side) = g[N]
  BY TradedIs
<1> DEFINE G == {n \in Nat : n <= N => SameIds(g[n].e, b.e)}
<1>2. 0 \in G
  <2>1. g[0].e = b.e
    BY <1>1
  <2> QED
    BY <2>1 DEF SameIds
<1>3. ASSUME NEW n \in Nat, n \in G PROVE n + 1 \in G
  <2> SUFFICES ASSUME n + 1 <= N PROVE SameIds(g[n + 1].e, b.e)
    OBVIOUS
  <2>1. n <= N /\ n + 1 \in 1..N /\ (n + 1) - 1 = n
    OBVIOUS
  <2>2. g[n + 1] = NextTrade(g[n], b.id, side, b.fills[n + 1])
    <3>1. g[n + 1] = NextTrade(g[(n + 1) - 1], b.id, side, b.fills[n + 1])
      BY <1>1, <2>1, Zenon
    <3> QED
      BY <2>1, <3>1
  <2> DEFINE e == g[n].e
             p == emit_trade(e, b.id, side, b.fills[n + 1])
  <2>3. SameIds(e, b.e)
    BY <1>3, <2>1
  <2>4. g[n + 1].e = p
    BY <2>2 DEF NextTrade
  <2> HIDE DEF e
  <2>5. SameIds(p, e)
    BY <2>3, TradeSameIds DEF SameIds
  <2> HIDE DEF p
  <2>6. SameIds(p, b.e)
    BY <2>3, <2>5, SameIdsChain
  <2> QED
    BY <2>4, <2>6
<1>4. Nat \subseteq G
  <2> HIDE DEF G
  <2> QED
    BY <1>2, <1>3, SetOfNats
<1>5. N <= N
  OBVIOUS
<1> QED
  BY <1>1, <1>4, <1>5

(* Steps 4 and 5, and the top of book; the result names the id. *)
LEMMA SettleSameIds ==
  ASSUME NEW t, DOMAIN t = EngineFields, NEW b, NEW type, NEW qty \in Nat, NEW filled \in Nat, filled <= qty
  PROVE  LET r == Settle(t, b, filled, type, qty)
         IN  SameIds(r.e, t) /\ r.out.id = b.id
<1> DEFINE r == Settle(t, b, filled, type, qty)
           c == ob_cancel_order(t, b.id)
           killed == emit_order_event(c, "CANCELLED", b.id, type, qty, 0, filled)
           kills == KillsRemainder(type, b.id, qty - filled)
           left == IF kills THEN 0 ELSE qty - filled
           x == IF kills THEN killed ELSE t
           p == Lifecycle(x, b.st, b.id, type, qty, left, filled)
<1>1. r.e = maybe_emit_tob(p) /\ r.out.id = b.id
  <2> DEFINE out == [status |-> SubmitStatus(b.st, left, filled), id |-> b.id]
  <2>1. r = [e |-> maybe_emit_tob(p), scan |-> b.fills # <<>>, out |-> out]
    BY Zenon DEF Settle
  <2>2. out.id = b.id
    OBVIOUS
  <2> HIDE DEF out, p, r
  <2> QED
    BY <2>1, <2>2
<1>2. SameIds(x, t)
  <2>1. SameIds(c, t)
    <3> DEFINE R == {o \in t.resting : o.id # b.id}
    <3>1. SameIds(Holding(t, R), t)
      <4> HIDE DEF R
      <4> QED
        BY HoldingSameIds
    <3> QED
      BY <3>1 DEF ob_cancel_order
  <2> HIDE DEF c
  <2>2. SameIds(killed, c)
    BY <2>1, EmitSameIds DEF SameIds
  <2> HIDE DEF killed, kills
  <2>3. SameIds(killed, t)
    BY <2>1, <2>2, SameIdsChain
  <2>4. SameIds(t, t)
    BY DEF SameIds
  <2> QED
    BY <2>3, <2>4
<1>3. left \in Nat
  <2> HIDE DEF kills
  <2> QED
    OBVIOUS
<1> HIDE DEF x, left, r
<1>4. /\ b.st = "REJECTED" => p = emit_order_event(x, "REJECTED", b.id, type, qty, qty, 0)
      /\ b.st # "REJECTED" /\ left = 0 => p = emit_order_event(x, "FILLED", b.id, type, qty, 0, filled)
      /\ b.st # "REJECTED" /\ left > 0 /\ filled > 0 =>
           p = emit_order_event(x, "PARTIAL", b.id, type, qty, left, filled)
      /\ b.st # "REJECTED" /\ left > 0 /\ filled = 0 =>
           p = emit_order_event(x, "ACCEPTED", b.id, type, qty, qty, 0)
  BY <1>3, LifecycleIs
<1> HIDE DEF p
<1>5. \E event, n, m : p = emit_order_event(x, event, b.id, type, qty, n, m)
  <2>1. CASE b.st = "REJECTED"
    BY <1>4, <2>1
  <2>2. CASE b.st # "REJECTED" /\ left = 0
    BY <1>4, <2>2
  <2>3. CASE b.st # "REJECTED" /\ left > 0 /\ filled > 0
    BY <1>4, <2>3
  <2>4. CASE b.st # "REJECTED" /\ left > 0 /\ filled = 0
    BY <1>4, <2>4
  <2> QED
    BY <1>3, <2>1, <2>2, <2>3, <2>4
<1>6. SameIds(p, x)
  <2>1. PICK event, n, m : p = emit_order_event(x, event, b.id, type, qty, n, m)
    BY <1>5
  <2>2. DOMAIN x = EngineFields
    BY <1>2 DEF SameIds
  <2> QED
    BY <2>1, <2>2, EmitSameIds
<1> DEFINE y == maybe_emit_tob(p)
<1>7. SameIds(y, p)
  BY <1>6, TopSameIds DEF SameIds
<1> HIDE DEF y
<1>8. SameIds(y, t)
  BY <1>2, <1>6, <1>7, SameIdsChain
<1> QED
  BY <1>1, <1>8 DEF y, r

(* An order that is given an id is given the next, and the result names it; *)
(* me_result_t is the caller's to set.                                      *)
TakesId(r, e) ==
  /\ DOMAIN r.e = EngineFields /\ r.e.out = e.out
  /\ \/ r.out.id = 0 /\ r.e.next_order_id = e.next_order_id
     \/ r.out.id = e.next_order_id /\ r.e.next_order_id = e.next_order_id + 1

(* ob_add_order takes an id unless the book is full. *)
LEMMA AddTakesId ==
  ASSUME NEW e, DOMAIN e = EngineFields, NEW side, NEW price, NEW qty
  PROVE  LET b == ob_add_order(e, side, price, qty)
         IN  /\ DOMAIN b.e = EngineFields /\ b.e.out = e.out
             /\ \/ b.id = 0 /\ b.e.next_order_id = e.next_order_id
                \/ b.id = e.next_order_id /\ b.e.next_order_id = e.next_order_id + 1
<1> DEFINE b == ob_add_order(e, side, price, qty)
           m == Match(e.resting, side, price, qty)
           id == e.next_order_id
           rest == [id |-> id, side |-> side, price |-> price, qty |-> m.left, ts |-> e.clock + 1]
           room == HasRoom(m.resting, side, price, OB_MAX_LEVELS)
           R == IF m.left > 0 /\ room THEN m.resting \cup {rest} ELSE m.resting
           h == Holding(e, R)
           a == [h EXCEPT !.next_order_id = @ + 1, !.clock = @ + 1]
           full == [e |-> e, st |-> "REJECTED", id |-> 0, fills |-> <<>>]
           c == [e |-> a, st |-> IF m.left > 0 /\ ~room THEN "REJECTED" ELSE "OK",
                 id |-> id, fills |-> m.fills]
<1>1. b = full \/ b = c
  <2>1. b = IF Cardinality(e.resting) >= OB_MAX_ORDERS THEN full ELSE c
    BY Zenon DEF ob_add_order
  <2> HIDE DEF b, c, full
  <2> QED
    BY <2>1
<1>2. SameIds(h, e)
  <2> HIDE DEF R
  <2> QED
    BY HoldingSameIds
<1> HIDE DEF h
<1>3. DOMAIN a = EngineFields /\ a.out = e.out /\ a.next_order_id = e.next_order_id + 1
  BY <1>2 DEF SameIds, EngineFields
<1> HIDE DEF a
<1>4. c.e = a /\ c.id = id
  OBVIOUS
<1>5. full.e = e /\ full.id = 0
  OBVIOUS
<1> HIDE DEF b, c, full
<1> QED
  BY <1>1, <1>3, <1>4, <1>5 DEF b

(* me_submit_order takes an id, or none. *)
LEMMA SubmitTakesId ==
  ASSUME NEW v, NEW e, EInv(v, e), NEW type \in {"LIMIT", "MARKET", "IOC", "FOK"}, NEW side \in Side,
         NEW price \in Nat, NEW qty \in Nat \ {0}
  PROVE  TakesId(me_submit_order(e, type, side, price, qty), e)
<1> DEFINE limit == IF type = "MARKET" THEN orders_market_sentinel(side) ELSE price
           r == me_submit_order(e, type, side, price, qty)
           b == ob_add_order(e, side, limit, qty)
           m == Match(e.resting, side, limit, qty)
           x == TradesTold(b, side)
           s == Settle(x.e, b, x.filled, type, qty)
           c == [e |-> Refused(e, type, qty), scan |-> FALSE, out |-> [status |-> "REJECTED", id |-> 0]]
<1>0. EngineTyped(e) /\ DOMAIN e = EngineFields
  BY DEF EInv, EngineTyped
<1>1. r = IF Accepts(e.resting, type, side, price, qty) THEN s ELSE c
  BY Zenon DEF me_submit_order, Booked
<1>2. limit \in Nat
  BY EngineAssumption DEF orders_market_sentinel
<1> HIDE DEF r, limit
<1>3. TakesId(s, e)
  <2>1. IsBook(e.resting)
    BY BookOfEngine DEF EInv
  <2>2. Filling(m, e.resting, side, limit, qty) /\ m.left \in Nat /\ m.left <= qty
    BY <1>2, <2>1, MatchFills DEF Filling
  <2>3. \/ b = [e |-> e, st |-> "REJECTED", id |-> 0, fills |-> <<>>]
        \/ Added(b, e, m) /\ (Rests(b, e, m) \/ Leaves(b, m))
    BY <1>0, <1>2, <2>2, AddIs
  <2>4. /\ DOMAIN b.e = EngineFields /\ b.e.out = e.out
        /\ \/ b.id = 0 /\ b.e.next_order_id = e.next_order_id
           \/ b.id = e.next_order_id /\ b.e.next_order_id = e.next_order_id + 1
    BY <1>0, AddTakesId
  <2> HIDE DEF b
  <2>5. Len(b.fills) \in Nat /\ x.filled \in Nat /\ x.filled <= qty
    <3>1. CASE b = [e |-> e, st |-> "REJECTED", id |-> 0, fills |-> <<>>]
      <4>1. b.e = e /\ b.fills = <<>> /\ Len(b.fills) = 0
        BY <3>1
      <4>2. PICK g : g[0] = [e |-> b.e, filled |-> 0] /\ TradesTold(b, side) = g[Len(b.fills)]
        BY <4>1, TradedIs
      <4> QED
        BY <4>1, <4>2
    <3>2. CASE Added(b, e, m) /\ (Rests(b, e, m) \/ Leaves(b, m))
      <4>1. b.fills = m.fills
        BY <3>2 DEF Added
      <4>2. IsSeq(m.fills)
        BY <2>2 DEF Filling
      <4>3. Len(b.fills) \in Nat
        BY <4>1, <4>2 DEF IsSeq
      <4>4. /\ EngineTyped(x.e) /\ Numbered(x.e) /\ AllSound(x.e)
            /\ SameBook(x.e, b.e) /\ KnownAs(v, x.e, m.resting)
            /\ x.filled = qty - m.left
            /\ b.fills = <<>> => SameTrade(x.e, e)
        BY <3>2, TradedKeeps
      <4> HIDE DEF x, m
      <4> QED
        BY <2>2, <4>3, <4>4
    <3> QED
      BY <2>3, <3>1, <3>2
  <2>6. SameIds(x.e, b.e)
    BY <2>4, <2>5, TradedSameIds
  <2> DEFINE t == x.e
             f == x.filled
  <2>7. DOMAIN t = EngineFields /\ f \in Nat /\ f <= qty
    BY <2>5, <2>6 DEF SameIds
  <2>8. s = Settle(t, b, f, type, qty)
    OBVIOUS
  <2>9. SameIds(t, b.e)
    BY <2>6
  <2> HIDE DEF t, f, s
  <2>10. SameIds(s.e, t) /\ s.out.id = b.id
    BY <2>7, <2>8, SettleSameIds
  <2> QED
    BY <2>4, <2>9, <2>10 DEF SameIds, TakesId
<1> HIDE DEF s
<1>4. TakesId(c, e)
  <2> DEFINE q == emit_order_event(e, "REJECTED", 0, type, qty, qty, 0)
             p == Refused(e, type, qty)
  <2>1. p = maybe_emit_tob(q)
    BY Zenon DEF Refused
  <2>2. SameIds(q, e)
    BY <1>0, EmitSameIds
  <2> HIDE DEF q, p
  <2>3. SameIds(p, q)
    BY <2>1, <2>2, TopSameIds DEF SameIds
  <2>4. c.e = p /\ c.out.id = 0
    BY DEF p
  <2> HIDE DEF c
  <2> QED
    BY <2>2, <2>3, <2>4 DEF SameIds, TakesId
<1> HIDE DEF c
<1> QED
  BY <1>1, <1>3, <1>4 DEF r

(* The engine may have handed out the next id, which its result then names. *)
GivenId(p, e) ==
  /\ DOMAIN p = EngineFields
  /\ \/ p.out.id = 0 /\ p.next_order_id = e.next_order_id
     \/ p.out.id = e.next_order_id /\ p.next_order_id = e.next_order_id + 1

(* So does me_submit_stop, which sets the result itself. *)
LEMMA SubmitStopTakesId ==
  ASSUME NEW e, DOMAIN e = EngineFields, NEW type, NEW side, NEW trigger, NEW limit, NEW qty, NEW ttl
  PROVE  GivenId(me_submit_stop(e, type, side, trigger, limit, qty, ttl), e)
<1> DEFINE free == Slots \ ActiveStops(e)
           slot == CHOOSE i \in free : \A j \in free : i <= j
           stop == [active |-> TRUE, id |-> e.next_order_id, side |-> side, orig_type |-> type,
                    trigger |-> trigger, limit |-> limit, qty |-> qty, ttl |-> ttl]
           ok == [status |-> "OK", id |-> stop.id]
           no == [status |-> "REJECTED", id |-> 0]
           a1 == [e EXCEPT !.stops[slot] = stop]
           a2 == [a1 EXCEPT !.next_order_id = e.next_order_id + 1]
           a == [a2 EXCEPT !.out = ok]
           b == [e EXCEPT !.out = no]
           p == emit_order_event(a, "ACCEPTED", stop.id, type, qty, qty, 0)
           q == emit_order_event(b, "REJECTED", 0, type, qty, qty, 0)
           r == me_submit_stop(e, type, side, trigger, limit, qty, ttl)
<1>1. r = p \/ r = q
  <2>1. r = IF ValidStop(type, trigger, limit) /\ free # {}
            THEN emit_order_event([e EXCEPT !.stops[slot] = stop, !.next_order_id = @ + 1, !.out = ok],
                                  "ACCEPTED", stop.id, type, qty, qty, 0)
            ELSE q
    BY Zenon DEF me_submit_stop
  <2>2. [e EXCEPT !.stops[slot] = stop, !.next_order_id = @ + 1, !.out = ok] = a
    <3> HIDE DEF stop, slot, ok
    <3>1. a1.next_order_id = e.next_order_id
      BY DEF EngineFields
    <3> QED
      BY <3>1
  <2> HIDE DEF r, a, q
  <2> QED
    BY <2>1, <2>2
<1>2. ok.id = e.next_order_id /\ no.id = 0
  OBVIOUS
<1> HIDE DEF stop, slot, ok, no
<1>3. DOMAIN a1 = EngineFields
  BY DEF EngineFields
<1> HIDE DEF a1
<1>4. DOMAIN a2 = EngineFields /\ a2.next_order_id = e.next_order_id + 1
  BY <1>3 DEF EngineFields
<1> HIDE DEF a2
<1>5. DOMAIN a = EngineFields /\ a.next_order_id = e.next_order_id + 1 /\ a.out = ok
  BY <1>4 DEF EngineFields
<1>6. DOMAIN b = EngineFields /\ b.next_order_id = e.next_order_id /\ b.out = no
  BY DEF EngineFields
<1> HIDE DEF a, b
<1>7. SameIds(p, a) /\ SameIds(q, b)
  BY <1>5, <1>6, EmitSameIds
<1> HIDE DEF p, q, r
<1>8. GivenId(r, e)
  BY <1>1, <1>2, <1>5, <1>6, <1>7 DEF SameIds, GivenId
<1> QED
  BY <1>8 DEF r

(* A cancel or a modification takes none. *)

(* Withdrawing a stop. *)
LEMMA WithdrawSameIds ==
  ASSUME NEW e, DOMAIN e = EngineFields, NEW i
  PROVE  SameIds(WithdrawStop(e, i), e)
<1> DEFINE st == [e.stops EXCEPT ![i] = NoStop]
           d == [e EXCEPT !.stops = st]
           s == e.stops[i]
<1>1. WithdrawStop(e, i) = emit_order_event(d, "CANCELLED", s.id, s.orig_type, s.qty, 0, 0)
  BY Zenon DEF WithdrawStop, Deactivate
<1> HIDE DEF st, s
<1>2. SameIds(d, e)
  BY DEF SameIds, EngineFields
<1> HIDE DEF d
<1>3. SameIds(emit_order_event(d, "CANCELLED", s.id, s.orig_type, s.qty, 0, 0), d)
  BY <1>2, EmitSameIds DEF SameIds
<1> QED
  BY <1>1, <1>2, <1>3, SameIdsChain

(* me_cancel_stop *)
LEMMA CancelStopSameIds ==
  ASSUME NEW e, DOMAIN e = EngineFields, NEW id
  PROVE  SameIds(me_cancel_stop(e, id), e)
<1> DEFINE at == {i \in ActiveStops(e) : e.stops[i].id = id}
           i == CHOOSE i \in at : TRUE
<1>1. me_cancel_stop(e, id) = IF at = {} THEN e ELSE WithdrawStop(e, i)
  BY Zenon DEF me_cancel_stop
<1> HIDE DEF at, i
<1>2. SameIds(e, e)
  BY DEF SameIds
<1> QED
  BY <1>1, <1>2, WithdrawSameIds

(* me_cancel_order *)
LEMMA CancelOrderSameIds ==
  ASSUME NEW e, DOMAIN e = EngineFields, NEW o
  PROVE  SameIds(me_cancel_order(e, o), e)
<1> DEFINE d == ob_cancel_order(e, o.id)
           q == emit_order_event(d, "CANCELLED", o.id, "LIMIT", o.qty, 0, o.qty)
<1>1. me_cancel_order(e, o) = maybe_emit_tob(q)
  BY Zenon DEF me_cancel_order
<1>2. SameIds(d, e)
  BY HoldingSameIds DEF ob_cancel_order
<1> HIDE DEF d
<1>3. SameIds(q, d)
  BY <1>2, EmitSameIds DEF SameIds
<1> HIDE DEF q
<1>4. SameIds(maybe_emit_tob(q), q)
  BY <1>3, TopSameIds DEF SameIds
<1> QED
  BY <1>1, <1>2, <1>3, <1>4 DEF SameIds

(* me_modify_order *)
LEMMA ModifyOrderSameIds ==
  ASSUME NEW e, DOMAIN e = EngineFields, NEW o, NEW price, NEW qty
  PROVE  SameIds(me_modify_order(e, o, price, qty), e)
<1> DEFINE d == ob_cancel_order(e, o.id)
           others == d.resting
           new == [o EXCEPT !.price = price, !.qty = qty, !.ts = e.clock + 1]
           R == others \cup {new}
           h == Holding(d, R)
           t == d.clock + 1
           u == h.clock + 1
           k == [h EXCEPT !.clock = u]
           q == emit_modified(k, o, price, qty)
           a == [d EXCEPT !.clock = t]
           L == a.lost \cup {o.id}
           x == [a EXCEPT !.lost = L]
           room == HasRoom(others, o.side, price, OB_MAX_LEVELS)
<1>1. me_modify_order(e, o, price, qty) = IF room THEN maybe_emit_tob(q)
                                          ELSE [d EXCEPT !.clock = @ + 1, !.lost = @ \cup {o.id}]
  BY Zenon DEF me_modify_order
<1>2. SameIds(d, e)
  BY HoldingSameIds DEF ob_cancel_order
<1> HIDE DEF d, R, room
<1>3. SameIds(h, d)
  BY <1>2, HoldingSameIds DEF SameIds
<1> HIDE DEF h, u
<1>4. SameIds(k, h)
  BY <1>3 DEF SameIds, EngineFields
<1> HIDE DEF k
<1>5. SameIds(q, k)
  BY <1>4, PushSameIds DEF SameIds, emit_modified
<1> HIDE DEF q
<1>6. SameIds(maybe_emit_tob(q), q)
  BY <1>5, TopSameIds DEF SameIds
<1>7. [d EXCEPT !.clock = @ + 1, !.lost = @ \cup {o.id}] = x
  <2>1. DOMAIN d = EngineFields
    BY <1>2 DEF SameIds
  <2> QED
    BY <2>1 DEF EngineFields
<1> HIDE DEF t
<1>8. SameIds(a, d)
  BY <1>2 DEF SameIds, EngineFields
<1> HIDE DEF a, L
<1>9. SameIds(x, a)
  BY <1>8 DEF SameIds, EngineFields
<1> HIDE DEF x
<1> QED
  BY <1>1, <1>2, <1>3, <1>4, <1>5, <1>6, <1>7, <1>8, <1>9 DEF SameIds

-----------------------------------------------------------------------------
(* Bounds: the prices and the queue of an engine. *)

PriceRange == 1..MAX_PRICE

(* An event whose trade price, or whose remainder, is a number that fits.   *)
Fit(ev) ==
  /\ ev.type = "TRADE" => ev.price \in PriceRange
  /\ ev.type \notin {"TRADE", "BOOK_UPDATED"} => ev.qty_remain \in Nat

(* The orders that rest and the trades that are told have prices, stops     *)
(* their limits, and the queue is not longer than the ring.                 *)
Bounded(e) ==
  /\ DOMAIN e = EngineFields
  /\ \A o \in e.resting : o.price \in PriceRange
  /\ \A i \in ActiveStops(e) : e.stops[i].limit \in 0..MAX_PRICE
  /\ IsSeq(e.eq) /\ Len(e.eq) < ME_EVENT_QUEUE_CAP
  /\ \A k \in 1..Len(e.eq) : Fit(e.eq[k])

(* The bounds depend on the orders, the stops and the queue alone. *)
LEMMA BoundedSame ==
  ASSUME NEW e, Bounded(e), NEW p, DOMAIN p = EngineFields,
         \A o \in p.resting : o.price \in PriceRange, p.stops = e.stops, p.eq = e.eq
  PROVE  Bounded(p)
<1>1. ActiveStops(p) = ActiveStops(e)
  BY DEF ActiveStops
<1> QED
  BY <1>1 DEF Bounded

(* An event, whether it is kept or dropped. *)
LEMMA PushBounded ==
  ASSUME NEW e, Bounded(e), NEW ev, Fit(ev)
  PROVE  Bounded(eq_push(e, ev))
<1> DEFINE t == Append(e.eq, ev)
           a == [e EXCEPT !.eq = t]
           b == [e EXCEPT !.dropped = e.dropped + 1]
<1>0. DOMAIN e = EngineFields /\ IsSeq(e.eq)
  BY DEF Bounded
<1>1. eq_push(e, ev) = IF Len(e.eq) < ME_EVENT_QUEUE_CAP - 1 THEN a ELSE b
  BY DEF eq_push
<1>2. ASSUME Len(e.eq) < ME_EVENT_QUEUE_CAP - 1 PROVE Bounded(a)
  <2>1. /\ Len(e.eq) \in Nat /\ Len(t) = Len(e.eq) + 1 /\ IsSeq(t)
        /\ \A k \in 1..Len(e.eq) : t[k] = e.eq[k]
        /\ t[Len(e.eq) + 1] = ev
    BY <1>0, AppendIs
  <2> HIDE DEF t
  <2>2. /\ DOMAIN a = EngineFields /\ a.resting = e.resting /\ a.stops = e.stops /\ a.eq = t
    BY <1>0 DEF EngineFields
  <2> HIDE DEF a
  <2>3. ActiveStops(a) = ActiveStops(e)
    BY <2>2 DEF ActiveStops
  <2>4. Len(t) < ME_EVENT_QUEUE_CAP
    BY <1>2, <2>1, EngineAssumption
  <2>5. ASSUME NEW k \in 1..Len(t) PROVE Fit(t[k])
    <3>1. CASE k = Len(e.eq) + 1
      BY <2>1, <3>1
    <3>2. CASE k # Len(e.eq) + 1
      <4>1. k \in 1..Len(e.eq)
        BY <2>1, <3>2
      <4> QED
        BY <2>1, <4>1 DEF Bounded
    <3> QED
      BY <3>1, <3>2
  <2> QED
    BY <2>1, <2>2, <2>3, <2>4, <2>5 DEF Bounded
<1>3. Bounded(b)
  <2>1. /\ DOMAIN b = EngineFields /\ b.resting = e.resting /\ b.stops = e.stops /\ b.eq = e.eq
    BY <1>0 DEF EngineFields
  <2> HIDE DEF b
  <2> QED
    BY <2>1, BoundedSame DEF Bounded
<1> HIDE DEF a, b
<1> QED
  BY <1>1, <1>2, <1>3

(* The event of an order. *)
LEMMA EmitBounded ==
  ASSUME NEW e, Bounded(e), NEW event, event # "TRADE", NEW id, NEW type, NEW qty, NEW remain \in Nat,
         NEW filled
  PROVE  Bounded(emit_order_event(e, event, id, type, qty, remain, filled))
<1> DEFINE ev == [type |-> event, id |-> id, order_type |-> type, qty_original |-> qty,
                  qty_remain |-> remain, qty_filled |-> filled]
<1>1. emit_order_event(e, event, id, type, qty, remain, filled) = eq_push(e, ev)
  BY Zenon DEF emit_order_event
<1>2. Fit(ev)
  BY DEF Fit
<1> HIDE DEF ev
<1>3. Bounded(eq_push(e, ev))
  BY <1>2, PushBounded
<1> QED
  BY <1>1, <1>3

(* The event of a trade. *)
LEMMA TradeBounded ==
  ASSUME NEW e, Bounded(e), NEW id, NEW side, NEW fill, fill.price \in PriceRange
  PROVE  Bounded(emit_trade(e, id, side, fill))
<1> DEFINE ev == TradeEvent(id, side, fill)
           q == eq_push(e, ev)
           a == [q EXCEPT !.last_trade_price = fill.price]
           b == [a EXCEPT !.last_taker = id]
           p == emit_trade(e, id, side, fill)
<1>1. p = b
  <2>1. p = [q EXCEPT !.last_trade_price = fill.price, !.last_taker = id]
    BY Zenon DEF emit_trade, TradeEvent
  <2> HIDE DEF q, p
  <2> QED
    BY <2>1
<1>2. Fit(ev)
  BY DEF TradeEvent, Fit
<1> HIDE DEF ev
<1>3. Bounded(q)
  BY <1>2, PushBounded
<1> HIDE DEF q, p
<1>4. /\ DOMAIN b = EngineFields /\ b.resting = q.resting /\ b.stops = q.stops /\ b.eq = q.eq
  <2>1. /\ DOMAIN a = EngineFields /\ a.resting = q.resting /\ a.stops = q.stops /\ a.eq = q.eq
    BY <1>3 DEF Bounded, EngineFields
  <2> HIDE DEF a
  <2> QED
    BY <2>1 DEF EngineFields
<1> HIDE DEF b
<1>5. Bounded(b)
  BY <1>3, <1>4, BoundedSame DEF Bounded
<1> QED
  BY <1>1, <1>5 DEF p

(* The top of book. *)
LEMMA TopBounded ==
  ASSUME NEW e, Bounded(e)
  PROVE  Bounded(maybe_emit_tob(e))
<1> DEFINE tob == me_top_of_book(e)
           ev == [type |-> "BOOK_UPDATED", tob |-> tob]
           q == eq_push(e, ev)
           p == [q EXCEPT !.last_tob = tob]
<1>1. maybe_emit_tob(e) = IF tob = e.last_tob THEN e ELSE p
  BY Zenon DEF maybe_emit_tob
<1>2. Fit(ev)
  BY DEF Fit
<1> HIDE DEF ev
<1>3. Bounded(q)
  BY <1>2, PushBounded
<1> HIDE DEF q, tob
<1>4. DOMAIN p = EngineFields /\ p.resting = q.resting /\ p.stops = q.stops /\ p.eq = q.eq
  BY <1>3 DEF Bounded, EngineFields
<1> HIDE DEF p
<1>5. Bounded(p)
  BY <1>3, <1>4, BoundedSame DEF Bounded
<1> QED
  BY <1>1, <1>5

(* Other orders in the book. *)
LEMMA HoldingBounded ==
  ASSUME NEW e, Bounded(e), NEW R, \A o \in R : o.price \in PriceRange
  PROVE  Bounded(Holding(e, R))
<1> DEFINE p == Holding(e, R)
<1>1. DOMAIN p = EngineFields /\ p.resting = R /\ p.stops = e.stops /\ p.eq = e.eq
  BY HoldingIs DEF Bounded, SameQueue
<1> HIDE DEF p
<1>2. Bounded(p)
  BY <1>1, BoundedSame
<1> QED
  BY <1>2 DEF p

(* Orders and fills of priced orders have prices. *)
Priced(acc) ==
  /\ \A o \in acc.resting : o.price \in PriceRange
  /\ \A k \in 1..Len(acc.fills) : acc.fills[k].price \in PriceRange

(* A turn of the fill loop trades at the price of a resting order. *)
LEMMA FillPriced ==
  ASSUME NEW acc, IsBook(acc.resting), acc.left \in Nat, IsSeq(acc.fills), Priced(acc),
         NEW side \in Side, NEW price
  PROVE  Priced(NextFill(acc, side, price))
<1> DEFINE able == Eligible(acc.resting, side, price)
           a == NextFill(acc, side, price)
<1>1. \/ a = acc
      \/ \E o \in able : \E n \in Nat : Turn(a, acc, o, n)
  BY NextFillIs
<1> HIDE DEF a
<1>2. ASSUME NEW o \in able, NEW n \in Nat, Turn(a, acc, o, n) PROVE Priced(a)
  <2>1. o \in acc.resting /\ o \in Order
    BY EligibleIs DEF IsBook
  <2> DEFINE r == Reduced(o, n)
             f == FillOf(o, n)
  <2>2. r.price = o.price /\ f.price = o.price
    BY <2>1 DEF Reduced, FillOf, Order
  <2> HIDE DEF r, f, able
  <2>3. /\ a.resting = (acc.resting \ {o}) \cup (IF o.qty > n THEN {r} ELSE {})
        /\ a.fills = Append(acc.fills, f)
    BY <1>2 DEF Turn, r, f
  <2>4. o.price \in PriceRange
    BY <2>1 DEF Priced
  <2>5. \A w \in a.resting : w.price \in PriceRange
    BY <2>2, <2>3, <2>4 DEF Priced
  <2>6. /\ Len(acc.fills) \in Nat /\ Len(a.fills) = Len(acc.fills) + 1
        /\ \A k \in 1..Len(acc.fills) : a.fills[k] = acc.fills[k]
        /\ a.fills[Len(acc.fills) + 1] = f
    BY <2>3, AppendIs
  <2>7. ASSUME NEW k \in 1..Len(a.fills) PROVE a.fills[k].price \in PriceRange
    <3>1. CASE k = Len(acc.fills) + 1
      BY <2>2, <2>4, <2>6, <3>1
    <3>2. CASE k # Len(acc.fills) + 1
      <4>1. k \in 1..Len(acc.fills)
        BY <2>6, <3>2
      <4> QED
        BY <2>6, <4>1 DEF Priced
    <3> QED
      BY <3>1, <3>2
  <2> QED
    BY <2>5, <2>7 DEF Priced
<1> QED
  BY <1>1, <1>2 DEF a

(* Match leaves priced orders, and its fills have prices. *)
LEMMA MatchPriced ==
  ASSUME NEW R, IsBook(R), \A o \in R : o.price \in PriceRange, NEW side \in Side, NEW price, NEW qty \in Nat
  PROVE  Priced(Match(R, side, price, qty))
<1> DEFINE N == Cardinality(R)
           m == Match(R, side, price, qty)
<1>1. N \in Nat
  BY FS_CardinalityType DEF IsBook
<1>2. PICK g : FillRun(g, m, N, R, side, price, qty)
  BY <1>1, MatchIs
<1> DEFINE G == {n \in Nat : n <= N => Filling(g[n], R, side, price, qty) /\ Priced(g[n])}
<1>3. 0 \in G
  <2>1. g[0] = [resting |-> R, left |-> qty, fills |-> <<>>]
    BY <1>2 DEF FillRun
  <2>2. g[0].resting = R /\ g[0].fills = <<>> /\ Len(<<>>) = 0
    BY <2>1
  <2>3. Filling(g[0], R, side, price, qty)
    BY <2>1, FillingStarts
  <2> QED
    BY <2>2, <2>3 DEF Priced
<1>4. ASSUME NEW n \in Nat, n \in G PROVE n + 1 \in G
  <2> SUFFICES ASSUME n + 1 <= N
               PROVE  Filling(g[n + 1], R, side, price, qty) /\ Priced(g[n + 1])
    OBVIOUS
  <2>1. n <= N /\ n + 1 \in 1..N /\ (n + 1) - 1 = n
    BY <1>1
  <2>2. Filling(g[n], R, side, price, qty) /\ Priced(g[n])
    BY <1>4, <2>1
  <2>3. g[n + 1] = NextFill(g[n], side, price)
    <3>1. g[n + 1] = NextFill(g[(n + 1) - 1], side, price)
      BY <1>2, <2>1, Zenon DEF FillRun
    <3> QED
      BY <2>1, <3>1
  <2> DEFINE a == g[n]
  <2>4. IsBook(a.resting) /\ a.left \in Nat /\ IsSeq(a.fills)
    BY <2>2 DEF Filling
  <2>5. Filling(NextFill(a, side, price), R, side, price, qty)
    BY <2>2, FillingKept
  <2>6. Priced(a)
    BY <2>2
  <2> HIDE DEF a
  <2>7. Priced(NextFill(a, side, price))
    BY <2>4, <2>6, FillPriced
  <2> QED
    BY <2>3, <2>5, <2>7 DEF a
<1>5. Nat \subseteq G
  <2> HIDE DEF G
  <2> QED
    BY <1>3, <1>4, SetOfNats
<1>6. N <= N
  BY <1>1
<1>7. Priced(g[N])
  BY <1>1, <1>5, <1>6
<1> QED
  BY <1>2, <1>7 DEF FillRun

(* ob_add_order at a price. *)
LEMMA AddBounded ==
  ASSUME NEW e, Bounded(e), IsBook(e.resting), NEW side \in Side, NEW price \in PriceRange, NEW qty \in Nat
  PROVE  LET b == ob_add_order(e, side, price, qty)
         IN  Bounded(b.e) /\ Len(b.fills) \in Nat /\ \A k \in 1..Len(b.fills) : b.fills[k].price \in PriceRange
<1> DEFINE b == ob_add_order(e, side, price, qty)
           m == Match(e.resting, side, price, qty)
           id == e.next_order_id
           rest == [id |-> id, side |-> side, price |-> price, qty |-> m.left, ts |-> e.clock + 1]
           room == HasRoom(m.resting, side, price, OB_MAX_LEVELS)
           R == IF m.left > 0 /\ room THEN m.resting \cup {rest} ELSE m.resting
           h == Holding(e, R)
           a == [h EXCEPT !.next_order_id = @ + 1, !.clock = @ + 1]
           full == [e |-> e, st |-> "REJECTED", id |-> 0, fills |-> <<>>]
           c == [e |-> a, st |-> IF m.left > 0 /\ ~room THEN "REJECTED" ELSE "OK",
                 id |-> id, fills |-> m.fills]
<1>1. b = full \/ b = c
  <2>1. b = IF Cardinality(e.resting) >= OB_MAX_ORDERS THEN full ELSE c
    BY Zenon DEF ob_add_order
  <2> HIDE DEF b, c, full
  <2> QED
    BY <2>1
<1>2. Priced(m) /\ IsSeq(m.fills)
  <2>1. \A o \in e.resting : o.price \in PriceRange
    BY DEF Bounded
  <2>2. Filling(m, e.resting, side, price, qty)
    BY MatchFills
  <2> QED
    BY <2>1, <2>2, MatchPriced DEF Filling
<1>3. rest.price = price
  OBVIOUS
<1> HIDE DEF m, rest, room
<1>4. \A o \in R : o.price \in PriceRange
  BY <1>2, <1>3 DEF Priced
<1> HIDE DEF R
<1>5. Bounded(h)
  BY <1>4, HoldingBounded
<1> HIDE DEF h
<1>6. DOMAIN a = EngineFields /\ a.resting = h.resting /\ a.stops = h.stops /\ a.eq = h.eq
  BY <1>5 DEF Bounded, EngineFields
<1> HIDE DEF a
<1>7. Bounded(a)
  BY <1>5, <1>6, BoundedSame DEF Bounded
<1>8. Len(m.fills) \in Nat
  BY <1>2 DEF IsSeq
<1>9. c.e = a /\ c.fills = m.fills
  OBVIOUS
<1>10. full.e = e /\ full.fills = <<>> /\ Len(<<>>) = 0
  OBVIOUS
<1> HIDE DEF b, c, full
<1> QED
  BY <1>1, <1>2, <1>7, <1>8, <1>9, <1>10 DEF b, Priced

(* Step 3: every fill is told. *)
LEMMA TradedBounded ==
  ASSUME NEW b, NEW side, Len(b.fills) \in Nat, Bounded(b.e),
         \A k \in 1..Len(b.fills) : b.fills[k].price \in PriceRange
  PROVE  Bounded(TradesTold(b, side).e)
<1> DEFINE N == Len(b.fills)
<1>1. PICK g : /\ g[0] = [e |-> b.e, filled |-> 0]
               /\ \A n \in 1..N : g[n] = NextTrade(g[n - 1], b.id, side, b.fills[n])
               /\ TradesTold(b, side) = g[N]
  BY TradedIs
<1> DEFINE G == {n \in Nat : n <= N => Bounded(g[n].e)}
<1>2. 0 \in G
  <2>1. g[0].e = b.e
    BY <1>1
  <2> QED
    BY <2>1
<1>3. ASSUME NEW n \in Nat, n \in G PROVE n + 1 \in G
  <2> SUFFICES ASSUME n + 1 <= N PROVE Bounded(g[n + 1].e)
    OBVIOUS
  <2>1. n <= N /\ n + 1 \in 1..N /\ (n + 1) - 1 = n
    OBVIOUS
  <2>2. g[n + 1] = NextTrade(g[n], b.id, side, b.fills[n + 1])
    <3>1. g[n + 1] = NextTrade(g[(n + 1) - 1], b.id, side, b.fills[n + 1])
      BY <1>1, <2>1, Zenon
    <3> QED
      BY <2>1, <3>1
  <2> DEFINE e == g[n].e
             f == b.fills[n + 1]
             p == emit_trade(e, b.id, side, f)
  <2>3. Bounded(e) /\ f.price \in PriceRange
    BY <1>3, <2>1
  <2>4. g[n + 1].e = p
    BY <2>2 DEF NextTrade
  <2> HIDE DEF e, f
  <2>5. Bounded(p)
    BY <2>3, TradeBounded
  <2> QED
    BY <2>4, <2>5
<1>4. Nat \subseteq G
  <2> HIDE DEF G
  <2> QED
    BY <1>2, <1>3, SetOfNats
<1>5. N <= N
  OBVIOUS
<1> QED
  BY <1>1, <1>4, <1>5

(* Steps 4 and 5, and the top of book. *)
LEMMA SettleBounded ==
  ASSUME NEW t, Bounded(t), NEW b, NEW type, NEW qty \in Nat, NEW filled \in Nat, filled <= qty
  PROVE  Bounded(Settle(t, b, filled, type, qty).e)
<1> DEFINE r == Settle(t, b, filled, type, qty)
           c == ob_cancel_order(t, b.id)
           killed == emit_order_event(c, "CANCELLED", b.id, type, qty, 0, filled)
           kills == KillsRemainder(type, b.id, qty - filled)
           left == IF kills THEN 0 ELSE qty - filled
           x == IF kills THEN killed ELSE t
           p == Lifecycle(x, b.st, b.id, type, qty, left, filled)
<1>1. r.e = maybe_emit_tob(p)
  <2> DEFINE out == [status |-> SubmitStatus(b.st, left, filled), id |-> b.id]
  <2>1. r = [e |-> maybe_emit_tob(p), scan |-> b.fills # <<>>, out |-> out]
    BY Zenon DEF Settle
  <2> HIDE DEF out, p, r
  <2> QED
    BY <2>1
<1>2. Bounded(x)
  <2>1. Bounded(c)
    <3> DEFINE R == {o \in t.resting : o.id # b.id}
    <3>1. c = Holding(t, R) /\ \A o \in R : o.price \in PriceRange
      BY DEF ob_cancel_order, Bounded
    <3> HIDE DEF R, c
    <3> QED
      BY <3>1, HoldingBounded
  <2> HIDE DEF c
  <2>2. Bounded(killed)
    BY <2>1, EmitBounded
  <2> HIDE DEF killed, kills
  <2> QED
    BY <2>2
<1>3. left \in Nat
  <2> HIDE DEF kills
  <2> QED
    OBVIOUS
<1> HIDE DEF x, left, r
<1>4. /\ b.st = "REJECTED" => p = emit_order_event(x, "REJECTED", b.id, type, qty, qty, 0)
      /\ b.st # "REJECTED" /\ left = 0 => p = emit_order_event(x, "FILLED", b.id, type, qty, 0, filled)
      /\ b.st # "REJECTED" /\ left > 0 /\ filled > 0 =>
           p = emit_order_event(x, "PARTIAL", b.id, type, qty, left, filled)
      /\ b.st # "REJECTED" /\ left > 0 /\ filled = 0 =>
           p = emit_order_event(x, "ACCEPTED", b.id, type, qty, qty, 0)
  BY <1>3, LifecycleIs
<1> HIDE DEF p
<1>5. Bounded(p)
  <2>1. CASE b.st = "REJECTED"
    BY <1>2, <1>3, <1>4, <2>1, EmitBounded
  <2>2. CASE b.st # "REJECTED" /\ left = 0
    BY <1>2, <1>3, <1>4, <2>2, EmitBounded
  <2>3. CASE b.st # "REJECTED" /\ left > 0 /\ filled > 0
    BY <1>2, <1>3, <1>4, <2>3, EmitBounded
  <2>4. CASE b.st # "REJECTED" /\ left > 0 /\ filled = 0
    BY <1>2, <1>3, <1>4, <2>4, EmitBounded
  <2> QED
    BY <1>3, <2>1, <2>2, <2>3, <2>4
<1>6. Bounded(maybe_emit_tob(p))
  BY <1>5, TopBounded
<1> QED
  BY <1>1, <1>6 DEF r

(* me_submit_order at a price that fits. *)
LEMMA SubmitBounded ==
  ASSUME NEW v, NEW e, EInv(v, e), Bounded(e), NEW type \in {"LIMIT", "MARKET", "IOC", "FOK"},
         NEW side \in Side, NEW price \in 0..MAX_PRICE, NEW qty \in Nat \ {0}
  PROVE  Bounded(me_submit_order(e, type, side, price, qty).e)
<1> DEFINE limit == IF type = "MARKET" THEN orders_market_sentinel(side) ELSE price
           r == me_submit_order(e, type, side, price, qty)
           b == ob_add_order(e, side, limit, qty)
           m == Match(e.resting, side, limit, qty)
           x == TradesTold(b, side)
           s == Settle(x.e, b, x.filled, type, qty)
           c == [e |-> Refused(e, type, qty), scan |-> FALSE, out |-> [status |-> "REJECTED", id |-> 0]]
<1>0. EngineTyped(e) /\ DOMAIN e = EngineFields
  BY DEF EInv, EngineTyped
<1>1. r = IF Accepts(e.resting, type, side, price, qty) THEN s ELSE c
  BY Zenon DEF me_submit_order, Booked
<1>2. limit \in Nat
  BY EngineAssumption DEF orders_market_sentinel
<1>3. Accepts(e.resting, type, side, price, qty) => limit \in PriceRange
  BY EngineAssumption DEF orders_market_sentinel, Accepts, PriceRange
<1> HIDE DEF r, limit
<1>4. ASSUME limit \in PriceRange PROVE Bounded(s.e)
  <2>1. IsBook(e.resting)
    BY BookOfEngine DEF EInv
  <2>2. Filling(m, e.resting, side, limit, qty) /\ m.left \in Nat /\ m.left <= qty
    BY <1>2, <2>1, MatchFills DEF Filling
  <2>3. \/ b = [e |-> e, st |-> "REJECTED", id |-> 0, fills |-> <<>>]
        \/ Added(b, e, m) /\ (Rests(b, e, m) \/ Leaves(b, m))
    BY <1>0, <1>2, <2>2, AddIs
  <2>4. Bounded(b.e) /\ Len(b.fills) \in Nat /\ \A k \in 1..Len(b.fills) : b.fills[k].price \in PriceRange
    BY <1>4, <2>1, AddBounded
  <2> HIDE DEF b
  <2>5. x.filled \in Nat /\ x.filled <= qty
    <3>1. CASE b = [e |-> e, st |-> "REJECTED", id |-> 0, fills |-> <<>>]
      <4>1. b.e = e /\ b.fills = <<>> /\ Len(b.fills) = 0
        BY <3>1
      <4>2. PICK g : g[0] = [e |-> b.e, filled |-> 0] /\ TradesTold(b, side) = g[Len(b.fills)]
        BY <4>1, TradedIs
      <4> QED
        BY <4>1, <4>2
    <3>2. CASE Added(b, e, m) /\ (Rests(b, e, m) \/ Leaves(b, m))
      <4>1. /\ EngineTyped(x.e) /\ Numbered(x.e) /\ AllSound(x.e)
            /\ SameBook(x.e, b.e) /\ KnownAs(v, x.e, m.resting)
            /\ x.filled = qty - m.left
            /\ b.fills = <<>> => SameTrade(x.e, e)
        BY <3>2, TradedKeeps
      <4> HIDE DEF x, m
      <4> QED
        BY <2>2, <4>1
    <3> QED
      BY <2>3, <3>1, <3>2
  <2> DEFINE t == x.e
             f == x.filled
  <2>6. Bounded(t)
    BY <2>4, TradedBounded
  <2>7. f \in Nat /\ f <= qty
    BY <2>5
  <2>8. s = Settle(t, b, f, type, qty)
    OBVIOUS
  <2> HIDE DEF t, f, s
  <2> QED
    BY <2>6, <2>7, <2>8, SettleBounded
<1> HIDE DEF s
<1>5. Bounded(c.e)
  <2> DEFINE q == emit_order_event(e, "REJECTED", 0, type, qty, qty, 0)
             p == Refused(e, type, qty)
  <2>1. p = maybe_emit_tob(q)
    BY Zenon DEF Refused
  <2>2. Bounded(q)
    BY EmitBounded
  <2> HIDE DEF q
  <2>3. Bounded(maybe_emit_tob(q))
    BY <2>2, TopBounded
  <2>4. c.e = p
    OBVIOUS
  <2> HIDE DEF p, c
  <2> QED
    BY <2>1, <2>3, <2>4
<1> HIDE DEF c
<1> QED
  BY <1>1, <1>3, <1>4, <1>5 DEF r

(* A stop whose limit fits. *)
LEMMA SubmitStopBounded ==
  ASSUME NEW e, Bounded(e), NEW type, NEW side, NEW trigger, NEW limit \in 0..MAX_PRICE,
         NEW qty \in Nat, NEW ttl
  PROVE  Bounded(me_submit_stop(e, type, side, trigger, limit, qty, ttl))
<1> DEFINE free == Slots \ ActiveStops(e)
           slot == CHOOSE i \in free : \A j \in free : i <= j
           stop == [active |-> TRUE, id |-> e.next_order_id, side |-> side, orig_type |-> type,
                    trigger |-> trigger, limit |-> limit, qty |-> qty, ttl |-> ttl]
           ok == [status |-> "OK", id |-> stop.id]
           no == [status |-> "REJECTED", id |-> 0]
           st == [e.stops EXCEPT ![slot] = stop]
           a1 == [e EXCEPT !.stops = st]
           next == e.next_order_id + 1
           a2 == [a1 EXCEPT !.next_order_id = next]
           a == [a2 EXCEPT !.out = ok]
           b == [e EXCEPT !.out = no]
           p == emit_order_event(a, "ACCEPTED", stop.id, type, qty, qty, 0)
           q == emit_order_event(b, "REJECTED", 0, type, qty, qty, 0)
           r == me_submit_stop(e, type, side, trigger, limit, qty, ttl)
<1>0. DOMAIN e = EngineFields
  BY DEF Bounded
<1>1. r = p \/ r = q
  <2>1. r = IF ValidStop(type, trigger, limit) /\ free # {}
            THEN emit_order_event([e EXCEPT !.stops[slot] = stop, !.next_order_id = @ + 1, !.out = ok],
                                  "ACCEPTED", stop.id, type, qty, qty, 0)
            ELSE q
    BY Zenon DEF me_submit_stop
  <2>2. [e EXCEPT !.stops[slot] = stop, !.next_order_id = @ + 1, !.out = ok] = a
    <3> HIDE DEF stop, slot, ok
    <3>1. a1.next_order_id = e.next_order_id
      BY <1>0 DEF EngineFields
    <3> QED
      BY <3>1
  <2> HIDE DEF r, a, q
  <2> QED
    BY <2>1, <2>2
<1>2. stop.limit = limit
  OBVIOUS
<1> HIDE DEF stop, slot, ok, no, next
<1>3. \A i \in Slots : st[i].active /\ st[i] # stop => st[i] = e.stops[i] /\ i \in ActiveStops(e)
  BY DEF ActiveStops
<1> HIDE DEF st
<1>4. /\ DOMAIN a = EngineFields /\ a.resting = e.resting /\ a.stops = st /\ a.eq = e.eq
  <2>1. /\ DOMAIN a1 = EngineFields /\ a1.resting = e.resting /\ a1.stops = st /\ a1.eq = e.eq
    BY <1>0 DEF EngineFields
  <2> HIDE DEF a1
  <2>2. /\ DOMAIN a2 = EngineFields /\ a2.resting = e.resting /\ a2.stops = st /\ a2.eq = e.eq
    BY <2>1 DEF EngineFields
  <2> HIDE DEF a2
  <2> QED
    BY <2>2 DEF EngineFields
<1>5. DOMAIN b = EngineFields /\ b.resting = e.resting /\ b.stops = e.stops /\ b.eq = e.eq
  BY <1>0 DEF EngineFields
<1> HIDE DEF a, b
<1>6. \A i \in ActiveStops(a) : a.stops[i].limit \in 0..MAX_PRICE
  BY <1>2, <1>3, <1>4 DEF ActiveStops, Bounded
<1>7. Bounded(a)
  BY <1>4, <1>6 DEF Bounded
<1>8. Bounded(b)
  BY <1>5, BoundedSame DEF Bounded
<1>9. Bounded(p) /\ Bounded(q)
  BY <1>7, <1>8, EmitBounded
<1> HIDE DEF p, q
<1> QED
  BY <1>1, <1>9 DEF r

(* A stop leaves the pool. *)
LEMMA DisarmedBounded ==
  ASSUME NEW e, Bounded(e), NEW i
  PROVE  Bounded(Deactivate(e, i))
<1> DEFINE st == [e.stops EXCEPT ![i] = NoStop]
           d == [e EXCEPT !.stops = st]
<1>1. Deactivate(e, i) = d
  BY Zenon DEF Deactivate
<1>2. ~NoStop.active
  BY DEF NoStop
<1>3. \A j \in Slots : st[j].active => j \in ActiveStops(e) /\ st[j] = e.stops[j]
  BY <1>2 DEF ActiveStops
<1> HIDE DEF st
<1>4. DOMAIN d = EngineFields /\ d.resting = e.resting /\ d.stops = st /\ d.eq = e.eq
  BY DEF Bounded, EngineFields
<1> HIDE DEF d
<1>5. \A j \in ActiveStops(d) : j \in ActiveStops(e) /\ d.stops[j] = e.stops[j]
  BY <1>3, <1>4 DEF ActiveStops
<1> QED
  BY <1>1, <1>4, <1>5 DEF Bounded

(* me_cancel_stop *)
LEMMA CancelStopBounded ==
  ASSUME NEW e, Bounded(e), NEW id
  PROVE  Bounded(me_cancel_stop(e, id))
<1> DEFINE at == {i \in ActiveStops(e) : e.stops[i].id = id}
           i == CHOOSE i \in at : TRUE
           s == e.stops[i]
           d == Deactivate(e, i)
           p == emit_order_event(d, "CANCELLED", s.id, s.orig_type, s.qty, 0, 0)
<1>1. me_cancel_stop(e, id) = IF at = {} THEN e ELSE p
  BY Zenon DEF me_cancel_stop, WithdrawStop
<1> HIDE DEF at, i, s
<1>2. Bounded(d)
  BY DisarmedBounded
<1> HIDE DEF d
<1>3. Bounded(p)
  BY <1>2, EmitBounded
<1> HIDE DEF p
<1> QED
  BY <1>1, <1>3

(* me_cancel_order *)
LEMMA CancelOrderBounded ==
  ASSUME NEW e, Bounded(e), NEW o
  PROVE  Bounded(me_cancel_order(e, o))
<1> DEFINE R == {w \in e.resting : w.id # o.id}
           d == Holding(e, R)
           q == emit_order_event(d, "CANCELLED", o.id, "LIMIT", o.qty, 0, o.qty)
<1>1. me_cancel_order(e, o) = maybe_emit_tob(q)
  BY Zenon DEF me_cancel_order, ob_cancel_order
<1>2. \A w \in R : w.price \in PriceRange
  BY DEF Bounded
<1> HIDE DEF R
<1>3. Bounded(d)
  BY <1>2, HoldingBounded
<1> HIDE DEF d
<1>4. Bounded(q)
  BY <1>3, EmitBounded
<1> HIDE DEF q
<1> QED
  BY <1>1, <1>4, TopBounded

(* me_modify_order at a price that fits. *)
LEMMA ModifyOrderBounded ==
  ASSUME NEW e, Bounded(e), NEW o \in Order, NEW price \in PriceRange, NEW qty \in Nat
  PROVE  Bounded(me_modify_order(e, o, price, qty))
<1> DEFINE S == {w \in e.resting : w.id # o.id}
           d == Holding(e, S)
           others == d.resting
           new == [o EXCEPT !.price = price, !.qty = qty, !.ts = e.clock + 1]
           R == others \cup {new}
           h == Holding(d, R)
           t == d.clock + 1
           u == h.clock + 1
           k == [h EXCEPT !.clock = u]
           ev == [type |-> "MODIFIED", id |-> o.id, order_type |-> "LIMIT", price |-> price,
                  qty_original |-> o.qty, qty_remain |-> qty, qty_filled |-> 0]
           q == eq_push(k, ev)
           a == [d EXCEPT !.clock = t]
           L == a.lost \cup {o.id}
           x == [a EXCEPT !.lost = L]
           room == HasRoom(others, o.side, price, OB_MAX_LEVELS)
<1>1. me_modify_order(e, o, price, qty) = IF room THEN maybe_emit_tob(q)
                                          ELSE [d EXCEPT !.clock = @ + 1, !.lost = @ \cup {o.id}]
  BY Zenon DEF me_modify_order, ob_cancel_order, emit_modified
<1>2. new.price = price
  <2> DEFINE w == e.clock + 1
             n1 == [o EXCEPT !.price = price]
             n2 == [n1 EXCEPT !.qty = qty]
             n3 == [n2 EXCEPT !.ts = w]
  <2>1. new = n3
    OBVIOUS
  <2> HIDE DEF w
  <2>2. n1.price = price /\ "price" \in DOMAIN n1
    BY DEF Order
  <2> HIDE DEF n1
  <2>3. n2.price = price /\ "price" \in DOMAIN n2
    BY <2>2
  <2> HIDE DEF n2
  <2>4. n3.price = price
    BY <2>3
  <2> QED
    BY <2>1, <2>4
<1> HIDE DEF new
<1>3. \A w \in S : w.price \in PriceRange
  BY DEF Bounded
<1> HIDE DEF S
<1>4. Bounded(d)
  BY <1>3, HoldingBounded
<1> HIDE DEF d
<1>5. \A w \in R : w.price \in PriceRange
  BY <1>2, <1>4 DEF Bounded
<1> HIDE DEF R, room
<1>6. Bounded(h)
  BY <1>4, <1>5, HoldingBounded
<1> HIDE DEF h, u
<1>7. DOMAIN k = EngineFields /\ k.resting = h.resting /\ k.stops = h.stops /\ k.eq = h.eq
  BY <1>6 DEF Bounded, EngineFields
<1> HIDE DEF k
<1>8. Bounded(k)
  BY <1>6, <1>7, BoundedSame DEF Bounded
<1>9. Fit(ev)
  BY DEF Fit
<1> HIDE DEF ev
<1>10. Bounded(q)
  BY <1>8, <1>9, PushBounded
<1> HIDE DEF q
<1>11. Bounded(maybe_emit_tob(q))
  BY <1>10, TopBounded
<1>12. [d EXCEPT !.clock = @ + 1, !.lost = @ \cup {o.id}] = x
  <2>1. DOMAIN d = EngineFields
    BY <1>4 DEF Bounded
  <2> QED
    BY <2>1 DEF EngineFields
<1> HIDE DEF t
<1>13. DOMAIN a = EngineFields /\ a.resting = d.resting /\ a.stops = d.stops /\ a.eq = d.eq
  BY <1>4 DEF Bounded, EngineFields
<1> HIDE DEF a, L
<1>14. DOMAIN x = EngineFields /\ x.resting = d.resting /\ x.stops = d.stops /\ x.eq = d.eq
  BY <1>13 DEF EngineFields
<1> HIDE DEF x
<1>15. Bounded(x)
  BY <1>4, <1>14, BoundedSame DEF Bounded
<1> QED
  BY <1>1, <1>11, <1>12, <1>15

(* A triggered stop re-enters at its limit, or as a market order. *)
LEMMA FiredBounded ==
  ASSUME NEW v, EInv(v, me), Bounded(me), FireStop
  PROVE  Bounded(me')
<1> DEFINE scan == Last(stack)
<1>1. PICK i \in Hits(scan) : Fire(i, scan)
  BY DEF FireStop
<1>2. i \in ActiveStops(me) /\ i \in Slots
  BY DEF Hits, ActiveStops
<1> HIDE DEF scan
<1> DEFINE s == me.stops[i]
           d == Disarm(me, i)
           armed == emit_order_event(d, "STOP_TRIGGERED", s.id, s.orig_type, s.qty, s.qty, 0)
           type == IF s.orig_type = "STOP" THEN "MARKET" ELSE "LIMIT"
           r == me_submit_order(armed, type, s.side, s.limit, s.qty)
<1>3. me' = r.e
  BY <1>1, Zenon DEF Fire, GoOn
<1>4. EInv(v, armed)
  BY <1>2, ArmedKeeps
<1>5. s \in Stop
  BY <1>2, StopFields DEF EInv
<1>6. /\ type \in {"LIMIT", "MARKET", "IOC", "FOK"} /\ s.side \in Side /\ s.qty \in Nat \ {0}
      /\ s.limit \in 0..MAX_PRICE
  BY <1>2, <1>5 DEF Stop, Bounded
<1>7. Bounded(d)
  BY DisarmedBounded DEF Disarm
<1> HIDE DEF d, s
<1>8. s.qty \in Nat
  BY <1>6
<1>9. Bounded(armed)
  BY <1>7, <1>8, EmitBounded
<1> HIDE DEF armed, type
<1>10. Bounded(r.e)
  BY <1>4, <1>6, <1>9, SubmitBounded
<1> QED
  BY <1>3, <1>10

(* The events are handed over, and the result with them. *)
LEMMA HandedOverBounded ==
  ASSUME NEW e, Bounded(e), NEW p, NEW out, HandedOver(p, e, out)
  PROVE  Bounded(p)
<1> DEFINE a == [e EXCEPT !.eq = <<>>]
           b == [a EXCEPT !.out = out]
<1>1. p = b
  BY DEF HandedOver
<1>2. DOMAIN a = EngineFields /\ a.resting = e.resting /\ a.stops = e.stops /\ a.eq = <<>>
  BY DEF Bounded, EngineFields
<1> HIDE DEF a
<1>3. DOMAIN b = EngineFields /\ b.resting = e.resting /\ b.stops = e.stops /\ b.eq = <<>>
  BY <1>2 DEF EngineFields
<1> HIDE DEF b
<1>4. IsSeq(<<>>) /\ Len(<<>>) = 0
  BY DEF IsSeq
<1>5. ActiveStops(b) = ActiveStops(e) /\ Len(b.eq) < ME_EVENT_QUEUE_CAP
  BY <1>3, <1>4, EngineAssumption DEF ActiveStops
<1> QED
  BY <1>1, <1>3, <1>4, <1>5 DEF Bounded

(* The result is set. *)
LEMMA ResultSetBounded ==
  ASSUME NEW e, Bounded(e), NEW p, NEW out, ResultSet(p, e, out)
  PROVE  Bounded(p)
<1>1. DOMAIN p = EngineFields /\ p.resting = e.resting /\ p.stops = e.stops /\ p.eq = e.eq
  BY DEF ResultSet, Bounded, EngineFields
<1> QED
  BY <1>1, BoundedSame DEF Bounded

(* The engine starts within its bounds. *)
LEMMA BoundedStarts ==
  ASSUME EngineInit
  PROVE  Bounded(me)
<1>1. /\ DOMAIN me = EngineFields /\ me.resting = {} /\ me.eq = <<>>
      /\ me.stops = [i \in Slots |-> NoStop]
  BY DEF EngineInit, EngineFields
<1>2. ~NoStop.active
  BY DEF NoStop
<1>3. ActiveStops(me) = {}
  BY <1>1, <1>2 DEF ActiveStops
<1>4. IsSeq(<<>>) /\ Len(<<>>) = 0
  BY DEF IsSeq
<1> QED
  BY <1>1, <1>3, <1>4, EngineAssumption DEF Bounded

-----------------------------------------------------------------------------
(* A portfolio. *)

PortfolioFields ==
  {"cash", "net_qty", "avg_price", "realised_pnl", "open_buy_notional", "open_sell_qty",
   "max_position", "max_order_notional"}

PortfolioTyped(p) ==
  /\ DOMAIN p = PortfolioFields
  /\ p.cash \in Int /\ p.net_qty \in Int /\ p.avg_price \in Nat /\ p.realised_pnl \in Int

(* The cash that profit and position do not account for. *)
Unexplained(p) == p.cash + p.avg_price * p.net_qty - p.realised_pnl

(* What a fill makes of the four numbers. *)
FilledAs(q, p, cash, net, avg, pnl) ==
  /\ DOMAIN q = PortfolioFields
  /\ q.cash = cash /\ q.net_qty = net /\ q.avg_price = avg /\ q.realised_pnl = pnl

(* Within s of nothing. *)
Within(n, s) == n \in Int /\ s \in Nat /\ -s <= n /\ n <= s

(* What an extension's average loses. *)
Loss(p, side, qty) == IF p.net_qty # 0 /\ Extends(p, side) THEN Abs(p.net_qty) + qty - 1 ELSE 0

(* The numbers after an extension with the average avg, for a long and for  *)
(* a short position, up to a remainder r.                                   *)
AveragedTo(avg, c, n, a, g, price, qty) ==
  /\ avg \in Nat
  /\ \E r \in 0..(n + qty - 1) :
       /\ n = 0 => r = 0
       /\ (c - price * qty) + avg * (n + qty) - g = (c + a * n - g) - r
       /\ (c + price * qty) - avg * (n + qty) - g = (c - a * n - g) + r

(* An average loses less than one unit of price per unit of quantity. *)
LEMMA AverageIs ==
  ASSUME NEW t \in Nat, NEW d \in Nat \ {0}
  PROVE  /\ t \div d \in Nat
         /\ d * (t \div d) <= t /\ t <= d * (t \div d) + d - 1
  OBVIOUS

LEMMA AverageExact ==
  ASSUME NEW p \in Nat, NEW q \in Nat \ {0}
  PROVE  (p * q) \div q = p
  OBVIOUS

(* portfolio_on_fill of a fill that extends the position ... *)
LEMMA ExtendedIs ==
  ASSUME NEW p, PortfolioTyped(p), NEW side, NEW price, NEW qty, Extends(p, side)
  PROVE  FilledAs(portfolio_on_fill(p, side, price, qty), p,
                  p.cash - Signed(side, price * qty), p.net_qty + Signed(side, qty),
                  (p.avg_price * Abs(p.net_qty) + price * qty) \div (Abs(p.net_qty) + qty),
                  p.realised_pnl)
<1> DEFINE avg == (p.avg_price * Abs(p.net_qty) + price * qty) \div (Abs(p.net_qty) + qty)
           x == Extended(p, price, qty)
           cash == x.cash - Signed(side, price * qty)
           net == x.net_qty + Signed(side, qty)
           q == [x EXCEPT !.cash = cash, !.net_qty = net]
<1>1. portfolio_on_fill(p, side, price, qty) = q
  BY Zenon DEF portfolio_on_fill
<1>2. x = [p EXCEPT !.avg_price = avg]
  BY DEF Extended
<1> HIDE DEF x, avg
<1>3. /\ DOMAIN x = PortfolioFields /\ x.cash = p.cash /\ x.net_qty = p.net_qty
      /\ x.realised_pnl = p.realised_pnl /\ x.avg_price = avg
  BY <1>2 DEF PortfolioTyped, PortfolioFields
<1>4. cash = p.cash - Signed(side, price * qty) /\ net = p.net_qty + Signed(side, qty)
  BY <1>3
<1> HIDE DEF cash, net
<1>5. FilledAs(q, p, cash, net, avg, p.realised_pnl)
  BY <1>3 DEF FilledAs, PortfolioFields
<1> HIDE DEF q
<1> QED
  BY <1>1, <1>4, <1>5 DEF avg

(* ... and of one that reduces, closes or flips it. *)
LEMMA ClosedIs ==
  ASSUME NEW p, PortfolioTyped(p), NEW side, NEW price, NEW qty, ~Extends(p, side)
  PROVE  LET closed == IF qty < Abs(p.net_qty) THEN qty ELSE Abs(p.net_qty)
             gain == Signed(IF p.net_qty > 0 THEN "BID" ELSE "ASK", price - p.avg_price) * closed
             avg == IF qty = Abs(p.net_qty) THEN 0
                    ELSE IF qty > Abs(p.net_qty) THEN price ELSE p.avg_price
         IN  FilledAs(portfolio_on_fill(p, side, price, qty), p,
                      p.cash - Signed(side, price * qty), p.net_qty + Signed(side, qty),
                      avg, p.realised_pnl + gain)
<1> DEFINE closed == IF qty < Abs(p.net_qty) THEN qty ELSE Abs(p.net_qty)
           gain == Signed(IF p.net_qty > 0 THEN "BID" ELSE "ASK", price - p.avg_price) * closed
           avg == IF qty = Abs(p.net_qty) THEN 0
                  ELSE IF qty > Abs(p.net_qty) THEN price ELSE p.avg_price
           pnl == p.realised_pnl + gain
           x == Closing(p, price, qty)
           cash == x.cash - Signed(side, price * qty)
           net == x.net_qty + Signed(side, qty)
           q == [x EXCEPT !.cash = cash, !.net_qty = net]
<1>1. portfolio_on_fill(p, side, price, qty) = q
  BY Zenon DEF portfolio_on_fill
<1>2. x = [p EXCEPT !.realised_pnl = pnl, !.avg_price = avg]
  BY Zenon DEF Closing
<1> HIDE DEF x, avg, pnl
<1>3. /\ DOMAIN x = PortfolioFields /\ x.cash = p.cash /\ x.net_qty = p.net_qty
      /\ x.realised_pnl = pnl /\ x.avg_price = avg
  BY <1>2 DEF PortfolioTyped, PortfolioFields
<1>4. cash = p.cash - Signed(side, price * qty) /\ net = p.net_qty + Signed(side, qty)
  BY <1>3
<1> HIDE DEF cash, net
<1>5. FilledAs(q, p, cash, net, avg, pnl)
  BY <1>3 DEF FilledAs, PortfolioFields
<1> HIDE DEF q
<1>6. FilledAs(portfolio_on_fill(p, side, price, qty), p,
               p.cash - Signed(side, price * qty), p.net_qty + Signed(side, qty), avg, pnl)
  BY <1>1, <1>4, <1>5
<1> QED
  BY <1>6, Zenon DEF avg, pnl

(* The average of portfolio_on_fill. *)
LEMMA ExtensionExplained ==
  ASSUME NEW c \in Int, NEW n \in Nat, NEW a \in Nat, NEW g \in Int, NEW price \in Nat,
         NEW qty \in Nat \ {0}
  PROVE  AveragedTo((a * n + price * qty) \div (n + qty), c, n, a, g, price, qty)
<1> DEFINE t == a * n + price * qty
           d == n + qty
           avg == t \div d
           r == t - d * avg
<1>1. t \in Nat /\ d \in Nat \ {0} /\ price * qty \in Nat /\ a * n \in Nat
  <2>1. price * qty \in Nat /\ a * n \in Nat
    OBVIOUS
  <2>2. \A x, y \in Nat : x + y \in Nat
    OBVIOUS
  <2> QED
    BY <2>1, <2>2
<1>2. avg \in Nat /\ d * avg <= t /\ t <= d * avg + d - 1
  <2> HIDE DEF t, d
  <2> QED
    BY <1>1, AverageIs
<1>3. n = 0 => avg = price
  <2> SUFFICES ASSUME n = 0 PROVE avg = price
    OBVIOUS
  <2>1. t = price * qty /\ d = qty
    BY <1>1
  <2> HIDE DEF t, d
  <2> QED
    BY <2>1, AverageExact
<1>4. d * avg \in Nat /\ avg * d = d * avg
  <2> HIDE DEF avg, d
  <2> QED
    BY <1>1, <1>2
<1>5. n = 0 => d * avg = t
  <2> SUFFICES ASSUME n = 0 PROVE d * avg = t
    OBVIOUS
  <2>1. t = price * qty /\ d = qty /\ avg = price
    BY <1>1, <1>3
  <2> HIDE DEF t, d, avg
  <2> QED
    BY <2>1
<1> DEFINE k == d * avg
           an == a * n
           pq == price * qty
<1>6. k \in Nat /\ an \in Nat /\ pq \in Nat /\ t = an + pq /\ k <= t /\ t <= k + d - 1
      /\ (n = 0 => k = t)
  BY <1>1, <1>2, <1>4, <1>5
<1> HIDE DEF k, an, pq, t, d, avg
<1>7. /\ t - k \in 0..(d - 1) /\ (n = 0 => t - k = 0)
      /\ (c - pq) + k - g = (c + an - g) - (t - k)
      /\ (c + pq) - k - g = (c - an - g) + (t - k)
  BY <1>1, <1>6
<1>8. avg * d = k
  BY <1>4 DEF k
<1>9. r = t - k
  BY DEF k
<1> HIDE DEF r
<1>10. /\ r \in 0..(d - 1) /\ (n = 0 => r = 0)
       /\ (c - pq) + avg * d - g = (c + an - g) - r
       /\ (c + pq) - avg * d - g = (c - an - g) + r
  BY <1>7, <1>8, <1>9
<1>11. AveragedTo(avg, c, n, a, g, price, qty)
  <2>1. /\ r \in 0..(n + qty - 1) /\ (n = 0 => r = 0)
        /\ (c - price * qty) + avg * (n + qty) - g = (c + a * n - g) - r
        /\ (c + price * qty) - avg * (n + qty) - g = (c - a * n - g) + r
    <3>0. d = n + qty /\ an = a * n /\ pq = price * qty
      BY DEF d, an, pq
    <3>1. r \in 0..(n + qty - 1)
      BY <1>10, <3>0
    <3>2. (c - price * qty) + avg * (n + qty) - g = (c + a * n - g) - r
      BY <1>10, <3>0
    <3>3. (c + price * qty) - avg * (n + qty) - g = (c - a * n - g) + r
      BY <1>10, <3>0
    <3> QED
      BY <1>10, <3>1, <3>2, <3>3
  <2>2. avg \in Nat
    BY <1>2
  <2> QED
    BY <2>1, <2>2, Zenon DEF AveragedTo
<1> QED
  BY <1>11, Zenon DEF t, d, avg

(* An extension costs its loss at most. *)
LEMMA ExtendedExplained ==
  ASSUME NEW p, PortfolioTyped(p), NEW side \in Side, NEW price \in Nat, NEW qty \in Nat \ {0},
         Extends(p, side), NEW s, Within(Unexplained(p), s)
  PROVE  LET q == portfolio_on_fill(p, side, price, qty)
         IN  PortfolioTyped(q) /\ Within(Unexplained(q), s + Loss(p, side, qty))
<1> DEFINE q == portfolio_on_fill(p, side, price, qty)
           n == Abs(p.net_qty)
           c == p.cash
           a == p.avg_price
           g == p.realised_pnl
           avg == (a * n + price * qty) \div (n + qty)
<1>1. /\ c \in Int /\ a \in Nat /\ g \in Int /\ n \in Nat /\ p.net_qty \in Int
  BY DEF PortfolioTyped, Abs
<1>2. FilledAs(q, p, c - Signed(side, price * qty), p.net_qty + Signed(side, qty), avg, g)
  BY ExtendedIs
<1> HIDE DEF q, avg, n, c, a, g
<1>3. AveragedTo(avg, c, n, a, g, price, qty)
  BY <1>1, ExtensionExplained, Zenon DEF avg
<1>4. PICK r \in 0..(n + qty - 1) :
           /\ n = 0 => r = 0
           /\ (c - price * qty) + avg * (n + qty) - g = (c + a * n - g) - r
           /\ (c + price * qty) - avg * (n + qty) - g = (c - a * n - g) + r
  BY <1>3, Zenon DEF AveragedTo
<1>5. price * qty \in Nat
  OBVIOUS
<1>a. avg \in Nat
  BY <1>3 DEF AveragedTo
<1>6. r \in Nat /\ r <= Loss(p, side, qty) /\ Loss(p, side, qty) \in Nat
  <2>1. CASE p.net_qty = 0
    BY <1>4, <2>1 DEF n, Abs, Loss
  <2>2. CASE p.net_qty # 0
    <3>1. Loss(p, side, qty) = n + qty - 1
      BY <2>2 DEF Loss, n
    <3> QED
      BY <1>1, <3>1
  <2> QED
    BY <2>1, <2>2
<1>7. Unexplained(q) \in {Unexplained(p) - r, Unexplained(p) + r}
  <2>1. CASE side = "BID"
    <3>1. p.net_qty = n
      BY <1>1, <2>1 DEF Extends, n, Abs
    <3>2. q.cash = c - price * qty /\ q.net_qty = n + qty /\ q.avg_price = avg /\ q.realised_pnl = g
      BY <1>2, <2>1, <3>1 DEF FilledAs, Signed
    <3>3. Unexplained(p) = c + a * n - g
      BY <3>1 DEF Unexplained, c, a, g
    <3>4. Unexplained(q) = (c - price * qty) + avg * (n + qty) - g
      BY <3>2 DEF Unexplained
    <3> QED
      BY <1>4, <3>3, <3>4
  <2>2. CASE side = "ASK"
    <3>1. p.net_qty = -n
      BY <1>1, <2>2 DEF Extends, n, Abs
    <3>2. q.cash = c + price * qty /\ q.net_qty = -(n + qty) /\ q.avg_price = avg /\ q.realised_pnl = g
      BY <1>1, <1>2, <1>5, <2>2, <3>1 DEF FilledAs, Signed
    <3>3. Unexplained(p) = c + a * (-n) - g
      BY <3>1 DEF Unexplained, c, a, g
    <3>4. a * (-n) = -(a * n)
      BY <1>1
    <3>5. Unexplained(q) = (c + price * qty) + avg * (-(n + qty)) - g
      BY <3>2 DEF Unexplained
    <3>6. avg * (-(n + qty)) = -(avg * (n + qty))
      BY <1>1, <1>a
    <3>7. a * n \in Nat /\ avg * (n + qty) \in Nat
      BY <1>1, <1>a
    <3> DEFINE k == avg * (n + qty)
               an == a * n
    <3>8. Unexplained(p) = c - an - g
      <4> HIDE DEF k
      <4>1. an \in Nat /\ Unexplained(p) = c + (-an) - g
        BY <3>3, <3>4, <3>7
      <4> HIDE DEF an
      <4> QED
        BY <1>1, <4>1
    <3>9. Unexplained(q) = (c + price * qty) - k - g
      <4> HIDE DEF an
      <4>1. k \in Nat /\ Unexplained(q) = (c + price * qty) + (-k) - g
        BY <3>5, <3>6, <3>7
      <4> HIDE DEF k
      <4> QED
        BY <1>1, <1>5, <4>1
    <3> QED
      BY <1>4, <3>8, <3>9
  <2> QED
    BY <2>1, <2>2 DEF Side
<1>8. PortfolioTyped(q)
  <2>1. Signed(side, price * qty) \in Int /\ Signed(side, qty) \in Int
    BY <1>5 DEF Signed
  <2> QED
    BY <1>1, <1>2, <1>a, <2>1 DEF FilledAs, PortfolioTyped
<1>9. Within(Unexplained(q), s + Loss(p, side, qty))
  <2> DEFINE u == Unexplained(p)
             w == Unexplained(q)
             l == Loss(p, side, qty)
  <2>1. u \in Int /\ s \in Nat /\ -s <= u /\ u <= s
    BY DEF Within
  <2>2. w = u - r \/ w = u + r
    BY <1>7
  <2>3. r \in Nat /\ l \in Nat /\ r <= l
    BY <1>6
  <2> HIDE DEF u, w, l
  <2>4. w \in Int /\ s + l \in Nat /\ -(s + l) <= w /\ w <= s + l
    BY <2>1, <2>2, <2>3
  <2> QED
    BY <2>4 DEF Within, w, l
<1> QED
  BY <1>8, <1>9 DEF q

(* Closing at a price, in numbers: what is left at the average a, nothing   *)
(* left, and the position flipped.                                          *)
LEMMA ClosingSums ==
  ASSUME NEW c \in Int, NEW n \in Int, NEW a \in Int, NEW g \in Int, NEW p \in Int, NEW q \in Int
  PROVE  /\ (c + p * q) + a * (n - q) - (g + (p - a) * q) = c + a * n - g
         /\ (c + p * n) + 0 * (n - n) - (g + (p - a) * n) = c + a * n - g
         /\ (c + p * q) + p * (n - q) - (g + (p - a) * n) = c + a * n - g
         /\ (c - p * q) + a * (q - n) - (g + (-(p - a)) * q) = c + a * (-n) - g
         /\ (c - p * n) + 0 * (n - n) - (g + (-(p - a)) * n) = c + a * (-n) - g
         /\ (c - p * q) + p * (q - n) - (g + (-(p - a)) * n) = c + a * (-n) - g
OBVIOUS

(* What reduces, closes or flips a position costs nothing. *)
LEMMA ClosedExplained ==
  ASSUME NEW p, PortfolioTyped(p), NEW side \in Side, NEW price \in Nat, NEW qty \in Nat \ {0},
         ~Extends(p, side)
  PROVE  LET q == portfolio_on_fill(p, side, price, qty)
         IN  PortfolioTyped(q) /\ Unexplained(q) = Unexplained(p)
<1> DEFINE q == portfolio_on_fill(p, side, price, qty)
           n == Abs(p.net_qty)
           c == p.cash
           a == p.avg_price
           g == p.realised_pnl
           closed == IF qty < n THEN qty ELSE n
           gain == Signed(IF p.net_qty > 0 THEN "BID" ELSE "ASK", price - a) * closed
           avg == IF qty = n THEN 0 ELSE IF qty > n THEN price ELSE a
<1>1. /\ c \in Int /\ a \in Nat /\ g \in Int /\ n \in Nat \ {0} /\ p.net_qty \in Int
      /\ p.net_qty = n \/ p.net_qty = -n
      /\ p.net_qty > 0 <=> p.net_qty = n
      /\ side = "ASK" <=> p.net_qty = n
      /\ side = "BID" <=> p.net_qty = -n
  BY DEF PortfolioTyped, Abs, Extends, Side
<1>2. FilledAs(q, p, c - Signed(side, price * qty), p.net_qty + Signed(side, qty), avg, g + gain)
  BY ClosedIs, Zenon DEF q, n, c, a, g, closed, gain, avg
<1>3. Unexplained(p) = c + a * p.net_qty - g
  BY DEF Unexplained
<1> HIDE DEF q, n, c, a, g
<1>4. price * qty \in Nat /\ price - a \in Int /\ closed \in Nat /\ avg \in Nat
  BY <1>1
<1>5. gain = IF p.net_qty = n THEN (price - a) * closed ELSE (-(price - a)) * closed
  BY <1>1 DEF Signed
<1>6. gain \in Int
  <2> HIDE DEF gain, closed
  <2>1. (price - a) * closed \in Int /\ (-(price - a)) * closed \in Int
    BY <1>1, <1>4
  <2> QED
    BY <1>5, <2>1
<1> HIDE DEF gain
<1>7. PortfolioTyped(q)
  <2>1. Signed(side, price * qty) \in Int /\ Signed(side, qty) \in Int
    BY <1>4 DEF Signed
  <2> HIDE DEF avg
  <2> QED
    BY <1>1, <1>2, <1>4, <1>6, <2>1 DEF FilledAs, PortfolioTyped
<1>8. Unexplained(q) = q.cash + q.avg_price * q.net_qty - q.realised_pnl
  BY DEF Unexplained
<1>9. q.avg_price = avg /\ q.realised_pnl = g + gain
  BY <1>2 DEF FilledAs
<1>10. qty < n \/ qty = n \/ qty > n
  BY <1>1
<1>11. ASSUME p.net_qty = n PROVE Unexplained(q) = Unexplained(p)
  <2>1. q.cash = c + price * qty /\ q.net_qty = n - qty
    BY <1>1, <1>2, <1>4, <1>11 DEF FilledAs, Signed
  <2>2. gain = (price - a) * closed
    BY <1>5, <1>11
  <2>3. CASE qty < n
    <3>1. avg = a /\ closed = qty
      BY <1>1, <2>3
    <3> QED
      BY <1>1, <1>3, <1>8, <1>9, <1>11, <2>1, <2>2, <3>1, ClosingSums
  <2>4. CASE qty = n
    <3>1. avg = 0 /\ closed = n
      BY <1>1, <2>4
    <3> QED
      BY <1>1, <1>3, <1>8, <1>9, <1>11, <2>1, <2>2, <2>4, <3>1, ClosingSums
  <2>5. CASE qty > n
    <3>1. avg = price /\ closed = n
      BY <1>1, <2>5
    <3> QED
      BY <1>1, <1>3, <1>8, <1>9, <1>11, <2>1, <2>2, <3>1, ClosingSums
  <2> QED
    BY <1>10, <2>3, <2>4, <2>5
<1>12. ASSUME p.net_qty = -n PROVE Unexplained(q) = Unexplained(p)
  <2>1. q.cash = c - price * qty /\ q.net_qty = qty - n
    BY <1>1, <1>2, <1>4, <1>12 DEF FilledAs, Signed
  <2>2. gain = (-(price - a)) * closed
    BY <1>1, <1>5, <1>12
  <2>3. CASE qty < n
    <3>1. avg = a /\ closed = qty
      BY <1>1, <2>3
    <3> QED
      BY <1>1, <1>3, <1>8, <1>9, <1>12, <2>1, <2>2, <3>1, ClosingSums
  <2>4. CASE qty = n
    <3>1. avg = 0 /\ closed = n
      BY <1>1, <2>4
    <3> QED
      BY <1>1, <1>3, <1>8, <1>9, <1>12, <2>1, <2>2, <2>4, <3>1, ClosingSums
  <2>5. CASE qty > n
    <3>1. avg = price /\ closed = n
      BY <1>1, <2>5
    <3> QED
      BY <1>1, <1>3, <1>8, <1>9, <1>12, <2>1, <2>2, <3>1, ClosingSums
  <2> QED
    BY <1>10, <2>3, <2>4, <2>5
<1> QED
  BY <1>1, <1>7, <1>11, <1>12 DEF q

(* Any fill. *)
LEMMA FillKeeps ==
  ASSUME NEW p, PortfolioTyped(p), NEW side \in Side, NEW price \in Nat, NEW qty \in Nat \ {0},
         NEW s, Within(Unexplained(p), s)
  PROVE  LET q == portfolio_on_fill(p, side, price, qty)
         IN  /\ PortfolioTyped(q) /\ Within(Unexplained(q), s + Loss(p, side, qty))
             /\ q.net_qty = p.net_qty + Signed(side, qty)
             /\ q.cash = p.cash - Signed(side, price * qty)
<1> DEFINE q == portfolio_on_fill(p, side, price, qty)
<1>1. CASE Extends(p, side)
  <2>1. PortfolioTyped(q) /\ Within(Unexplained(q), s + Loss(p, side, qty))
    BY <1>1, ExtendedExplained
  <2> DEFINE avg == (p.avg_price * Abs(p.net_qty) + price * qty) \div (Abs(p.net_qty) + qty)
  <2>2. FilledAs(q, p, p.cash - Signed(side, price * qty), p.net_qty + Signed(side, qty), avg,
                 p.realised_pnl)
    BY <1>1, ExtendedIs
  <2> HIDE DEF q, avg
  <2>3. q.cash = p.cash - Signed(side, price * qty) /\ q.net_qty = p.net_qty + Signed(side, qty)
    BY <2>2, Zenon DEF FilledAs
  <2> QED
    BY <2>1, <2>3 DEF q
<1>2. CASE ~Extends(p, side)
  <2> DEFINE closed == IF qty < Abs(p.net_qty) THEN qty ELSE Abs(p.net_qty)
             pnl == p.realised_pnl
                    + Signed(IF p.net_qty > 0 THEN "BID" ELSE "ASK", price - p.avg_price) * closed
             avg == IF qty = Abs(p.net_qty) THEN 0
                    ELSE IF qty > Abs(p.net_qty) THEN price ELSE p.avg_price
  <2>1. FilledAs(q, p, p.cash - Signed(side, price * qty), p.net_qty + Signed(side, qty), avg, pnl)
    BY <1>2, ClosedIs, Zenon
  <2>2. PortfolioTyped(q) /\ Unexplained(q) = Unexplained(p)
    BY <1>2, ClosedExplained
  <2> HIDE DEF q, avg, pnl, closed
  <2>3. q.cash = p.cash - Signed(side, price * qty) /\ q.net_qty = p.net_qty + Signed(side, qty)
    BY <2>1, Zenon DEF FilledAs
  <2>4. Loss(p, side, qty) = 0 /\ s + 0 = s
    BY <1>2 DEF Loss, Within
  <2>5. Within(Unexplained(q), s + Loss(p, side, qty))
    BY <2>2, <2>4
  <2> QED
    BY <2>2, <2>3, <2>5 DEF q
<1> QED
  BY <1>1, <1>2

(* A loss is a number. *)
LEMMA LossType ==
  ASSUME NEW p, PortfolioTyped(p), NEW side, NEW qty \in Nat \ {0}
  PROVE  Loss(p, side, qty) \in Nat
<1>1. Abs(p.net_qty) \in Nat
  BY DEF PortfolioTyped, Abs
<1> QED
  BY <1>1 DEF Loss

(* An average of prices is not above the highest. *)
LEMMA AverageBounded ==
  ASSUME NEW M \in Nat, NEW a \in 0..M, NEW n \in Nat, NEW price \in 0..M, NEW qty \in Nat \ {0}
  PROVE  (a * n + price * qty) \div (n + qty) \in 0..M
<1> DEFINE t == a * n + price * qty
           d == n + qty
           x == t \div d
<1>1. \A i, j, k \in Nat : i <= j => i * k \in Nat /\ j * k \in Nat /\ i * k <= j * k
  <2> SUFFICES ASSUME NEW i \in Nat, NEW j \in Nat, NEW k \in Nat, i <= j
               PROVE  i * k \in Nat /\ j * k \in Nat /\ i * k <= j * k
    OBVIOUS
  <2>1. (j - i) * k \in Nat /\ j * k = i * k + (j - i) * k /\ i * k \in Nat /\ j * k \in Nat
    OBVIOUS
  <2> QED
    BY <2>1
<1>2. a * n <= M * n /\ price * qty <= M * qty /\ t \in Nat
  <2>1. a * n <= M * n /\ a * n \in Nat
    BY <1>1
  <2>2. price * qty <= M * qty /\ price * qty \in Nat
    BY <1>1
  <2> QED
    BY <2>1, <2>2
<1>3. M * d = M * n + M * qty /\ M * n \in Nat /\ M * qty \in Nat
  OBVIOUS
<1>4. t <= M * d
  BY <1>2, <1>3
<1>5. d \in Nat \ {0}
  OBVIOUS
<1> HIDE DEF t, d
<1>6. x \in Nat /\ d * x <= t
  BY <1>2, <1>5, AverageIs
<1> HIDE DEF x
<1>7. x <= M
  <2> SUFFICES ASSUME M + 1 <= x PROVE FALSE
    BY <1>6
  <2>1. (M + 1) * d <= x * d
    BY <1>1, <1>5, <1>6
  <2>2. (M + 1) * d = M * d + d /\ x * d = d * x /\ M * d \in Nat
    BY <1>5, <1>6
  <2>3. \A y, w, z \in Nat : z # 0 /\ y + z <= w => ~(w <= y)
    OBVIOUS
  <2>4. d * x <= M * d /\ d * x \in Nat
    BY <1>2, <1>4, <1>5, <1>6, <2>2
  <2> QED
    BY <1>5, <2>1, <2>2, <2>3, <2>4
<1>8. x \in 0..M
  BY <1>6, <1>7
<1> QED
  BY <1>8 DEF x, t, d

(* The average price of a position is never above every price traded at. *)
LEMMA FillAverage ==
  ASSUME NEW M \in Nat, NEW p, PortfolioTyped(p), p.avg_price \in 0..M, NEW side \in Side,
         NEW price \in 0..M, NEW qty \in Nat \ {0}
  PROVE  LET q == portfolio_on_fill(p, side, price, qty)
         IN  PortfolioTyped(q) /\ q.avg_price \in 0..M
<1> DEFINE q == portfolio_on_fill(p, side, price, qty)
           u == Unexplained(p)
           s == Abs(u)
<1>1. PortfolioTyped(q)
  <2>1. u \in Int
    BY DEF PortfolioTyped, Unexplained
  <2> HIDE DEF u
  <2>2. Within(u, s)
    BY <2>1 DEF Within, Abs
  <2> HIDE DEF s
  <2> QED
    BY <2>2, FillKeeps DEF u
<1>2. CASE Extends(p, side)
  <2> DEFINE n == Abs(p.net_qty)
             a == p.avg_price
             avg == (a * n + price * qty) \div (n + qty)
  <2>1. FilledAs(q, p, p.cash - Signed(side, price * qty), p.net_qty + Signed(side, qty), avg,
                 p.realised_pnl)
    BY <1>2, ExtendedIs
  <2>2. n \in Nat
    BY DEF PortfolioTyped, Abs
  <2> HIDE DEF n, a
  <2>3. avg \in 0..M
    BY <2>2, AverageBounded DEF a
  <2> HIDE DEF q, avg
  <2>4. q.avg_price = avg
    BY <2>1, Zenon DEF FilledAs
  <2> QED
    BY <1>1, <2>3, <2>4 DEF q
<1>3. CASE ~Extends(p, side)
  <2> DEFINE closed == IF qty < Abs(p.net_qty) THEN qty ELSE Abs(p.net_qty)
             pnl == p.realised_pnl
                    + Signed(IF p.net_qty > 0 THEN "BID" ELSE "ASK", price - p.avg_price) * closed
             avg == IF qty = Abs(p.net_qty) THEN 0
                    ELSE IF qty > Abs(p.net_qty) THEN price ELSE p.avg_price
  <2>1. FilledAs(q, p, p.cash - Signed(side, price * qty), p.net_qty + Signed(side, qty), avg, pnl)
    BY <1>3, ClosedIs, Zenon
  <2>2. avg \in 0..M
    OBVIOUS
  <2> HIDE DEF q, avg, pnl, closed
  <2>3. q.avg_price = avg
    BY <2>1, Zenon DEF FilledAs
  <2> QED
    BY <1>1, <2>2, <2>3 DEF q
<1> QED
  BY <1>2, <1>3
==============================================================================
