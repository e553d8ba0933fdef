---------------------------- MODULE LookupProofs ----------------------------
(***************************************************************************)
(* Theorems about LookupTable with one book in the process, for any hash   *)
(* function and any sizes of the table and the pool: the lookup is exact,  *)
(* and no probe goes round for ever.                                       *)
(***************************************************************************)
EXTENDS LookupTable, FiniteSums, SequenceTheorems

-----------------------------------------------------------------------------
(* The circle of positions, without a remainder. *)
Plus(h, k) == IF h + k < LOOKUP_CAP THEN h + k ELSE h + k - LOOKUP_CAP

(* How many positions after h position i comes. *)
Dist(h, i) == IF h <= i THEN i - h ELSE i - h + LOOKUP_CAP

-----------------------------------------------------------------------------
(* The inductive invariant. *)

TableType == [Positions -> [key : 0..MAX_ID, pool_idx : 0..(POOL - 1)]]

Used(t, p) == t[p].key # 0

(* No id has two entries. *)
Distinct(t) ==
  \A p, q \in Positions : Used(t, p) /\ t[p].key = t[q].key => p = q

(* Position g is empty and comes, on the way from its home, before the      *)
(* position p of an entry, which lookup_find therefore misses.              *)
Gap(t, p, g) ==
  Used(t, p) /\ ~Used(t, g) /\ Dist(hash[t[p].key], g) < Dist(hash[t[p].key], p)

Reachable(t) == \A p, g \in Positions : ~Gap(t, p, g)

Sound(t) == t \in TableType /\ Distinct(t) /\ Reachable(t)

Entries(t) == {t[p] : p \in {q \in Positions : Used(t, q)}}

(* The entries of the orders in the slots s of a book. *)
OrdersOf(s) == {[key |-> s[i], pool_idx |-> i] : i \in {j \in 0..(POOL - 1) : s[j] # 0}}

Typed ==
  /\ hash \in [1..MAX_ID -> Positions]
  /\ live \subseteq Books
  /\ slots \in [Books -> [0..(POOL - 1) -> 0..MAX_ID]]
  /\ free \in [Books -> Seq(0..(POOL - 1))]
  /\ next \in [Books -> 1..(MAX_ID + 1)]

(* The free stack of a book has each free slot once, and ids are its own.   *)
Pooled(b) ==
  /\ \A i \in 0..(POOL - 1) : slots[b][i] = 0 <=> \E n \in 1..Len(free[b]) : free[b][n] = i
  /\ \A n, m \in 1..Len(free[b]) : free[b][n] = free[b][m] => n = m
  /\ \A i \in 0..(POOL - 1) : slots[b][i] < next[b]
  /\ \A i, j \in 0..(POOL - 1) : slots[b][i] = slots[b][j] /\ slots[b][i] # 0 => i = j

IInv ==
  /\ Typed
  /\ Sound(table)
  /\ \A b \in Books : Pooled(b)
  /\ live = {} => Entries(table) = {}
  /\ \A b \in live : Entries(table) = OrdersOf(slots[b])
-----------------------------------------------------------------------------
(* Arithmetic on the circle. *)

(* Going on by k positions and coming back. *)
LEMMA Circle ==
  ASSUME NEW h \in Positions
  PROVE  /\ LOOKUP_CAP \in Nat \ {0} /\ h \in 0..(LOOKUP_CAP - 1)
         /\ \A k \in Positions : /\ k \in 0..(LOOKUP_CAP - 1)
                                 /\ Plus(h, k) \in Positions /\ Dist(h, k) \in Positions
                                 /\ Plus(h, Dist(h, k)) = k /\ Dist(h, Plus(h, k)) = k
BY LookupAssumption DEF LookupAssumption, Positions, Plus, Dist

(* The remainder of a sum of two positions. *)
LEMMA Remainder ==
  ASSUME NEW h \in Positions, NEW k \in Positions
  PROVE  (h + k) % LOOKUP_CAP = Plus(h, k)
<1>1. LOOKUP_CAP \in Nat \ {0} /\ h \in Nat /\ k \in Nat /\ h < LOOKUP_CAP /\ k < LOOKUP_CAP
  BY LookupAssumption DEF LookupAssumption, Positions
<1>2. CASE h + k < LOOKUP_CAP
  BY <1>1, <1>2 DEF Plus
<1>3. CASE ~(h + k < LOOKUP_CAP)
  BY <1>1, <1>3 DEF Plus
<1> QED
  BY <1>2, <1>3

(* The way from the home of an id. *)
LEMMA AtIs ==
  ASSUME Typed, NEW id \in 1..MAX_ID, NEW k \in Positions
  PROVE  At(id, k) = Plus(hash[id], k) /\ hash[id] \in Positions /\ At(id, k) \in Positions
<1>1. hash[id] \in Positions
  BY DEF Typed
<1> QED
  BY <1>1, Remainder, Circle DEF At

(* Every position is on the way, at one distance. *)
LEMMA OnTheWay ==
  ASSUME Typed, NEW id \in 1..MAX_ID, NEW p \in Positions
  PROVE  /\ Dist(hash[id], p) \in Positions /\ At(id, Dist(hash[id], p)) = p
         /\ \A k \in Positions : At(id, k) = p => k = Dist(hash[id], p)
<1>1. hash[id] \in Positions
  BY DEF Typed
<1>2. \A k \in Positions : At(id, k) = Plus(hash[id], k)
  BY AtIs
<1>3. \A k \in Positions : /\ Dist(hash[id], k) \in Positions /\ Plus(hash[id], Dist(hash[id], k)) = k
                           /\ Dist(hash[id], Plus(hash[id], k)) = k
  BY <1>1, Circle
<1> QED
  BY <1>2, <1>3, Zenon
-----------------------------------------------------------------------------
(* Searching. *)

(* What a position of the table holds. *)
LEMMA EntryIs ==
  ASSUME NEW t \in TableType, NEW p \in Positions
  PROVE  /\ t[p].key \in 0..MAX_ID /\ t[p].pool_idx \in 0..(POOL - 1)
         /\ t[p] = [key |-> t[p].key, pool_idx |-> t[p].pool_idx]
         /\ Used(t, p) => t[p].key \in 1..MAX_ID
BY LookupAssumption DEF LookupAssumption, TableType, Used

Stops(t, id) == {n \in Positions : t[At(id, n)].key \in {0, id}}

(* The number of probes is that of the first place to stop at. *)
LEMMA ProbesIs ==
  ASSUME NEW t, NEW id
  PROVE  /\ Stops(t, id) = {} => Probes(t, id) = LOOKUP_CAP
         /\ Stops(t, id) # {} => /\ Probes(t, id) \in Stops(t, id)
                                 /\ \A m \in Stops(t, id) : Probes(t, id) <= m
<1> DEFINE S == Stops(t, id)
           k == CHOOSE n \in S : \A m \in S : n <= m
<1>1. Probes(t, id) = IF S = {} THEN LOOKUP_CAP ELSE k
  BY Zenon DEF Probes, Stops
<1>2. S \subseteq Nat
  BY LookupAssumption DEF LookupAssumption, Stops, Positions
<1> HIDE DEF S
<1>3. ASSUME S # {} PROVE k \in S /\ \A m \in S : k <= m
  <2>1. \E n \in S : \A m \in S : n <= m
    BY <1>2, <1>3, LeastOf
  <2> QED
    BY <2>1, Zenon
<1> HIDE DEF k
<1> QED
  BY <1>1, <1>3 DEF S

(* An entry that can be reached is found. *)
LEMMA FindsIt ==
  ASSUME Typed, NEW t, Sound(t), NEW p \in Positions, Used(t, p)
  PROVE  /\ Found(t, t[p].key) /\ At(t[p].key, Probes(t, t[p].key)) = p
         /\ lookup_find(t, t[p].key) = t[p].pool_idx
<1> DEFINE id == t[p].key
           d == Dist(hash[id], p)
           k == Probes(t, id)
<1>0. t \in TableType /\ id \in 1..MAX_ID /\ id # 0
  BY EntryIs DEF Sound, Used
<1> HIDE DEF id
<1>1. d \in Positions /\ At(id, d) = p
  BY <1>0, OnTheWay
<1>2. d \in Stops(t, id)
  BY <1>1 DEF Stops, id
<1>3. k \in Stops(t, id) /\ k <= d
  BY <1>2, ProbesIs
<1>4. k \in Positions /\ At(id, k) \in Positions /\ t[At(id, k)].key \in {0, id}
  BY <1>0, <1>3, AtIs DEF Stops
<1>5. k = Dist(hash[id], At(id, k))
  BY <1>0, <1>4, OnTheWay
<1>6. t[At(id, k)].key = id
  <2> SUFFICES ASSUME t[At(id, k)].key = 0 PROVE FALSE
    BY <1>4
  <2>1. ~Gap(t, p, At(id, k))
    BY <1>4 DEF Sound, Reachable
  <2>2. ~(k < d)
    BY <2>1, <1>5 DEF Gap, Used, id
  <2>3. k = d
    BY <2>2, <1>1, <1>3, <1>4, LookupAssumption DEF LookupAssumption, Positions
  <2> QED
    BY <2>3, <1>0, <1>1 DEF id
<1>7. At(id, k) = p
  BY <1>4, <1>6, <1>0 DEF Sound, Distinct, Used, id
<1>8. k < LOOKUP_CAP
  BY <1>4, LookupAssumption DEF LookupAssumption, Positions
<1>9. Found(t, id)
  BY <1>6, <1>8 DEF Found
<1> QED
  BY <1>7, <1>9 DEF lookup_find, id

(* An id without an entry is not found. *)
LEMMA FindsNone ==
  ASSUME Typed, NEW t, NEW id \in 1..MAX_ID, \A p \in Positions : t[p].key # id
  PROVE  ~Found(t, id) /\ lookup_find(t, id) = OB_NULL_IDX
<1>1. ~Found(t, id)
  <2> SUFFICES ASSUME Found(t, id) PROVE FALSE
    OBVIOUS
  <2>1. Probes(t, id) < LOOKUP_CAP /\ t[At(id, Probes(t, id))].key = id
    BY DEF Found
  <2>2. Stops(t, id) # {}
    BY <2>1, ProbesIs, LookupAssumption DEF LookupAssumption
  <2>3. Probes(t, id) \in Positions
    BY <2>2, ProbesIs DEF Stops
  <2> QED
    BY <2>1, <2>3, AtIs
<1> QED
  BY <1>1 DEF lookup_find

-----------------------------------------------------------------------------
(* Inserting. *)

(* Position q is the first empty one from the home of id on. *)
FirstEmpty(t, id, q) ==
  /\ q \in Positions /\ ~Used(t, q)
  /\ \A g \in Positions : ~Used(t, g) => Dist(hash[id], q) <= Dist(hash[id], g)

Put(t, q, x) == [t EXCEPT ![q] = x]

(* lookup_insert puts the entry where its way meets the first empty place. *)
LEMMA InsertIs ==
  ASSUME Typed, NEW t, NEW id \in 1..MAX_ID, NEW idx, NEW e \in Positions, ~Used(t, e)
  PROVE  \E q : /\ FirstEmpty(t, id, q)
                /\ lookup_insert(t, id, idx) = Put(t, q, [key |-> id, pool_idx |-> idx])
<1> DEFINE S == {n \in Positions : t[At(id, n)].key = 0}
           P(n) == /\ t[At(id, n)].key = 0
                   /\ \A m \in 0..(n - 1) : t[At(id, m)].key # 0
           k == CHOOSE n \in Positions : P(n)
           q == At(id, k)
<1>1. lookup_insert(t, id, idx) = Put(t, q, [key |-> id, pool_idx |-> idx])
  BY Zenon DEF lookup_insert, Put
<1>2. Positions \subseteq Nat /\ \A n \in Positions : \A m \in 0..(n - 1) : m \in Positions /\ m < n
  BY LookupAssumption DEF LookupAssumption, Positions
<1>3. S # {}
  <2>1. Dist(hash[id], e) \in Positions /\ At(id, Dist(hash[id], e)) = e
    BY OnTheWay
  <2> QED
    BY <2>1 DEF Used
<1>4. \E n \in S : \A m \in S : n <= m
  BY <1>2, <1>3, LeastOf
<1>5. \E n \in Positions : P(n)
  <2>1. PICK n \in S : \A m \in S : n <= m
    BY <1>4
  <2>2. ASSUME NEW m \in 0..(n - 1) PROVE t[At(id, m)].key # 0
    <3>1. m \in Positions /\ m < n /\ m \in Nat /\ n \in Nat
      BY <1>2
    <3>2. m \notin S
      BY <2>1, <3>1
    <3> QED
      BY <3>1, <3>2
  <2> QED
    BY <2>1, <2>2
<1>6. k \in Positions /\ P(k)
  BY <1>5, Zenon
<1> HIDE DEF k
<1>7. q \in Positions /\ Dist(hash[id], q) = k
  BY <1>6, AtIs, OnTheWay
<1>8. ASSUME NEW g \in Positions, ~Used(t, g) PROVE k <= Dist(hash[id], g)
  <2> DEFINE m == Dist(hash[id], g)
  <2>1. m \in Positions /\ At(id, m) = g
    BY OnTheWay
  <2> HIDE DEF m
  <2>2. m \notin 0..(k - 1)
    BY <1>6, <1>8, <2>1 DEF Used
  <2>3. m \in Nat /\ k \in Nat
    BY <1>2, <1>6, <2>1
  <2>4. k <= m
    BY <2>2, <2>3
  <2> QED
    BY <2>4 DEF m
<1>9. FirstEmpty(t, id, q)
  BY <1>6, <1>7, <1>8 DEF FirstEmpty, Used
<1> QED
  BY <1>1, <1>9

(* Putting the entry x into the empty position q of t gave u: u holds x at q and
   what t held elsewhere, and no search for x meets an empty position before q. *)
FilledWith(t, u, x, q) ==
  /\ u \in TableType /\ Distinct(u) /\ Entries(u) = Entries(t) \cup {x}
  /\ u[q] = x /\ \A p \in Positions : p # q => u[p] = t[p]
  /\ \A g \in Positions : ~Gap(u, q, g)

(* An entry with an id of its own, put where its way meets the first empty  *)
(* position: it is reached, and no other entry's way gets an empty position.*)
LEMMA PutKeeps ==
  ASSUME Typed, NEW t \in TableType, Distinct(t), NEW id \in 1..MAX_ID, NEW idx \in 0..(POOL - 1),
         \A p \in Positions : t[p].key # id, NEW q, FirstEmpty(t, id, q)
  PROVE  FilledWith(t, Put(t, q, [key |-> id, pool_idx |-> idx]), [key |-> id, pool_idx |-> idx], q)
<1> DEFINE x == [key |-> id, pool_idx |-> idx]
           u == Put(t, q, x)
<1>0. q \in Positions /\ ~Used(t, q)
  BY DEF FirstEmpty
<1>1. x \in [key : 0..MAX_ID, pool_idx : 0..(POOL - 1)] /\ x.key = id /\ id # 0
  OBVIOUS
<1>2. u \in TableType
  BY <1>1 DEF TableType, Put
<1>3. u[q] = x /\ \A p \in Positions : p # q => u[p] = t[p]
  BY <1>0 DEF TableType, Put
<1> HIDE DEF u, x
<1>4. Distinct(u)
  BY <1>1, <1>3 DEF Distinct, Used
<1>5. Entries(u) = Entries(t) \cup {x}
  BY <1>0, <1>1, <1>3 DEF Entries, Used
<1>6. \A g \in Positions : ~Gap(u, q, g)
  <2> SUFFICES ASSUME NEW g \in Positions, Gap(u, q, g) PROVE FALSE
    OBVIOUS
  <2>1. ~Used(u, g) /\ Dist(hash[id], g) < Dist(hash[id], q)
    BY <1>1, <1>3 DEF Gap
  <2>2. g # q
    BY <2>1, <1>1, <1>3 DEF Used
  <2>3. ~Used(t, g)
    BY <2>1, <2>2, <1>3 DEF Used
  <2>4. Dist(hash[id], q) <= Dist(hash[id], g)
    BY <2>3 DEF FirstEmpty
  <2>5. Dist(hash[id], q) \in Positions /\ Dist(hash[id], g) \in Positions
    BY <1>0, OnTheWay
  <2> QED
    BY <2>1, <2>4, <2>5, LookupAssumption DEF LookupAssumption, Positions
<1> QED
  BY <1>2, <1>3, <1>4, <1>5, <1>6 DEF FilledWith, u, x
-----------------------------------------------------------------------------
(* Removing: the loop, a recursive function on the positions scanned. *)

RescanLoop(g, N, base, at) ==
  g = [d \in 0..N |-> IF d = 0 THEN base ELSE Rescanned(g[d - 1], (at + d) % LOOKUP_CAP)]

(* The recursive function of lookup_remove. *)
LEMMA RescanLoopExists ==
  ASSUME NEW base, NEW at, NEW N \in Nat
  PROVE  \E g : RescanLoop(g, N, base, at)
<1> DEFINE step(d, x) == Rescanned(x, (at + d) % LOOKUP_CAP)
           G == {n \in Nat : \E g : RescanLoop(g, n, base, at)}
<1>1. 0 \in G
  <2> DEFINE g == [n \in 0..0 |-> base]
  <2>1. g = [n \in 0..0 |-> IF n = 0 THEN base ELSE step(n, g[n - 1])]
    <3> HIDE DEF step
    <3> QED
      OBVIOUS
  <2> QED
    BY <2>1, Zenon DEF RescanLoop
<1>2. ASSUME NEW n \in Nat, n \in G PROVE n + 1 \in G
  <2>1. PICK g : RescanLoop(g, n, base, at)
    BY <1>2
  <2>2. g = [m \in 0..n |-> IF m = 0 THEN base ELSE step(m, g[m - 1])]
    BY <2>1, Zenon DEF RescanLoop
  <2> HIDE DEF step
  <2> DEFINE h == [m \in 0..(n + 1) |-> IF m = 0 THEN base ELSE step(m, g[m - 1])]
  <2>3. \A m \in 0..n : h[m] = g[m]
    <3>1. \A m \in 0..n : g[m] = IF m = 0 THEN base ELSE step(m, g[m - 1])
      BY <2>2, Zenon
    <3>2. \A m \in 0..n : m \in 0..(n + 1)
      OBVIOUS
    <3> QED
      BY <3>1, <3>2, Zenon
  <2>4. \A m \in 0..(n + 1) : m # 0 => h[m - 1] = g[m - 1]
    <3>1. \A m \in 0..(n + 1) : m # 0 => m - 1 \in 0..n
      OBVIOUS
    <3> HIDE DEF h
    <3> QED
      BY <2>3, <3>1
  <2>5. h = [m \in 0..(n + 1) |-> IF m = 0 THEN base ELSE step(m, h[m - 1])]
    <3> DEFINE F == [m \in 0..(n + 1) |-> IF m = 0 THEN base ELSE step(m, h[m - 1])]
    <3>1. \A m \in 0..(n + 1) : (IF m = 0 THEN base ELSE step(m, g[m - 1]))
                               = IF m = 0 THEN base ELSE step(m, h[m - 1])
      <4> HIDE DEF h
      <4> QED
        BY <2>4, Zenon
    <3>2. \A m \in 0..(n + 1) : h[m] = F[m]
      BY <3>1, Zenon
    <3>3. DOMAIN h = 0..(n + 1) /\ DOMAIN F = 0..(n + 1)
      OBVIOUS
    <3>4. h = [m \in DOMAIN h |-> h[m]] /\ F = [m \in DOMAIN F |-> F[m]]
      OBVIOUS
    <3> HIDE DEF F, h
    <3>5. h = F
      BY <3>2, <3>3, <3>4
    <3> QED
      BY <3>5 DEF F
  <2>6. RescanLoop(h, n + 1, base, at)
    <3> HIDE DEF h
    <3> QED
      BY <2>5, Zenon DEF RescanLoop, step
  <2> HIDE DEF h
  <2> QED
    BY <2>6
<1>3. Nat \subseteq G
  <2> HIDE DEF G
  <2> QED
    BY <1>1, <1>2, SetOfNats
<1> QED
  BY <1>3

(* lookup_remove clears the position and scans on, one after the other. *)
LEMMA RemoveIs ==
  ASSUME NEW t, NEW id, Found(t, id)
  PROVE  LET at == At(id, Probes(t, id))
         IN  \E g : /\ g[0] = [t |-> Put(t, at, Empty), over |-> FALSE]
                    /\ \A d \in 1..(LOOKUP_CAP - 1) :
                         g[d] = Rescanned(g[d - 1], (at + d) % LOOKUP_CAP)
                    /\ lookup_remove(t, id) = g[LOOKUP_CAP - 1].t
<1> DEFINE N == LOOKUP_CAP - 1
           at == At(id, Probes(t, id))
           base == [t |-> [t EXCEPT ![at] = Empty], over |-> FALSE]
           g == CHOOSE g : RescanLoop(g, N, base, at)
<1>1. lookup_remove(t, id) = g[LOOKUP_CAP - 1].t
  BY Zenon DEF lookup_remove, RescanLoop
<1>2. N \in Nat
  BY LookupAssumption DEF LookupAssumption
<1> HIDE DEF base, at, N
<1>3. RescanLoop(g, N, base, at)
  BY <1>2, RescanLoopExists, Zenon
<1> HIDE DEF g
<1>4. \A d \in 0..N : g[d] = IF d = 0 THEN base ELSE Rescanned(g[d - 1], (at + d) % LOOKUP_CAP)
  BY <1>3, Zenon DEF RescanLoop
<1>5. 0 \in 0..N /\ \A d \in 1..N : d \in 0..N /\ d # 0
  BY <1>2
<1>6. g[0] = base
  BY <1>4, <1>5, Zenon
<1>7. \A d \in 1..N : g[d] = Rescanned(g[d - 1], (at + d) % LOOKUP_CAP)
  BY <1>4, <1>5, Zenon
<1>8. base = [t |-> Put(t, at, Empty), over |-> FALSE]
  BY DEF base, Put
<1> QED
  BY <1>1, <1>6, <1>7, <1>8, Zenon DEF N, at

-----------------------------------------------------------------------------
(* Removing: what the scan keeps. *)

(* Between g and the position p after it lies j, in the order from a on and *)
(* so on the way from h.                                                    *)
LEMMA PassesBy ==
  ASSUME NEW a \in Positions, NEW h \in Positions, NEW p \in Positions, NEW g \in Positions,
         NEW j \in Positions, Dist(h, g) < Dist(h, p),
         Dist(a, g) < Dist(a, j), Dist(a, j) <= Dist(a, p), j # p
  PROVE  Dist(h, j) < Dist(h, p)
BY LookupAssumption DEF LookupAssumption, Positions, Dist

(* The way from j round to p, which comes before j from a on, goes through  *)
(* all that comes after j.                                                  *)
LEMMA GoesRound ==
  ASSUME NEW a \in Positions, NEW h \in Positions, NEW p \in Positions, NEW z \in Positions,
         NEW j \in Positions, Dist(h, j) < Dist(h, p),
         Dist(a, p) < Dist(a, j), Dist(a, j) < Dist(a, z)
  PROVE  Dist(h, z) < Dist(h, p)
BY LookupAssumption DEF LookupAssumption, Positions, Dist

(* A distance tells the position. *)
LEMMA Apart ==
  ASSUME NEW a \in Positions, NEW p \in Positions, NEW g \in Positions, p # g
  PROVE  Dist(a, p) # Dist(a, g) /\ Dist(a, p) \in Nat /\ Dist(a, g) \in Nat
BY LookupAssumption DEF LookupAssumption, Positions, Dist

(* After d positions from at on: the entries are E, position z is empty and *)
(* ahead, and only entries ahead can miss something, behind.                *)
Scan(acc, E, at, d, z) ==
  /\ acc.over \in BOOLEAN
  /\ acc.t \in TableType /\ Distinct(acc.t) /\ Entries(acc.t) = E
  /\ acc.over => Reachable(acc.t)
  /\ ~acc.over => /\ ~Used(acc.t, z) /\ d < Dist(at, z)
                  /\ \A p, g \in Positions : Gap(acc.t, p, g) => Dist(at, g) <= d /\ d < Dist(at, p)

(* Taking the entry at j out of a table. *)
LEMMA TakeOut ==
  ASSUME Typed, NEW t \in TableType, Distinct(t), NEW j \in Positions, Used(t, j)
  PROVE  LET u == Put(t, j, Empty)
         IN  /\ u \in TableType /\ Distinct(u) /\ Entries(u) = Entries(t) \ {t[j]}
             /\ ~Used(u, j) /\ \A p \in Positions : p # j => u[p] = t[p]
             /\ \A p \in Positions : u[p].key # t[j].key
<1> DEFINE u == Put(t, j, Empty)
<1>1. Empty \in [key : 0..MAX_ID, pool_idx : 0..(POOL - 1)] /\ Empty.key = 0
  BY LookupAssumption DEF LookupAssumption, Empty
<1>2. u \in TableType /\ u[j] = Empty /\ \A p \in Positions : p # j => u[p] = t[p]
  BY <1>1 DEF TableType, Put
<1> HIDE DEF u
<1>3. Distinct(u) /\ ~Used(u, j)
  BY <1>1, <1>2 DEF Distinct, Used
<1>4. \A p \in Positions : u[p].key # t[j].key
  BY <1>1, <1>2 DEF Distinct, Used
<1>5. Entries(u) = Entries(t) \ {t[j]}
  <2>1. \A p \in Positions : p # j /\ Used(t, p) => t[p] # t[j]
    BY DEF Distinct, Used
  <2>2. \A p \in Positions : Used(u, p) <=> p # j /\ Used(t, p)
    BY <1>1, <1>2 DEF Used
  <2> QED
    BY <1>2, <2>1, <2>2 DEF Entries
<1> QED
  BY <1>2, <1>3, <1>4, <1>5 DEF u

(* The scan begins with the position cleared. *)
LEMMA ScanBegins ==
  ASSUME Typed, NEW t, Sound(t), NEW at \in Positions, Used(t, at), NEW z \in Positions, ~Used(t, z)
  PROVE  Scan([t |-> Put(t, at, Empty), over |-> FALSE], Entries(t) \ {t[at]}, at, 0, z)
<1> DEFINE u == Put(t, at, Empty)
<1>1. /\ u \in TableType /\ Distinct(u) /\ Entries(u) = Entries(t) \ {t[at]}
      /\ ~Used(u, at) /\ \A p \in Positions : p # at => u[p] = t[p]
  BY TakeOut DEF Sound
<1> HIDE DEF u
<1>2. z # at /\ ~Used(u, z)
  BY <1>1 DEF Used
<1>3. Dist(at, at) = 0
  BY LookupAssumption DEF LookupAssumption, Positions, Dist
<1>4. 0 < Dist(at, z)
  BY <1>2, <1>3, Apart
<1>5. ASSUME NEW p \in Positions, NEW g \in Positions, Gap(u, p, g)
      PROVE  Dist(at, g) <= 0 /\ 0 < Dist(at, p)
  <2>1. p # at
    BY <1>1, <1>5 DEF Gap
  <2>2. g = at
    <3> SUFFICES ASSUME g # at PROVE FALSE
      OBVIOUS
    <3>1. u[p] = t[p] /\ u[g] = t[g]
      BY <1>1, <2>1
    <3>2. Gap(t, p, g)
      BY <1>5, <3>1 DEF Gap, Used
    <3> QED
      BY <3>2 DEF Sound, Reachable
  <2> QED
    BY <1>3, <2>1, <2>2, Apart
<1> QED
  BY <1>1, <1>2, <1>4, <1>5 DEF Scan, u

(* Table u is t with the entry at j moved to q, which its way leads to.     *)
Reinserted(u, t, E, j, z, q) ==
  /\ u \in TableType /\ Distinct(u) /\ Entries(u) = E
  /\ Used(u, q) /\ q # z /\ (j # q => ~Used(u, j))
  /\ \A p \in Positions : p # q /\ p # j => u[p] = t[p]
  /\ \A g \in Positions : ~Gap(u, q, g)

(* The entry at j is inserted again, not at z, which is ahead of it. *)
LEMMA MovedIs ==
  ASSUME Typed, NEW acc, NEW E, NEW at \in Positions, NEW d \in Nat, NEW z \in Positions,
         Scan(acc, E, at, d, z), ~acc.over, NEW j \in Positions, Used(acc.t, j)
  PROVE  \E q \in Positions : Reinserted(Moved(acc.t, j), acc.t, E, j, z, q)
<1> DEFINE t == acc.t
           id == t[j].key
           idx == t[j].pool_idx
           x == [key |-> id, pool_idx |-> idx]
           c == Put(t, j, Empty)
<1>1. t \in TableType /\ Distinct(t) /\ Entries(t) = E /\ ~Used(t, z) /\ d < Dist(at, z)
  BY DEF Scan
<1>2. id \in 1..MAX_ID /\ idx \in 0..(POOL - 1) /\ t[j] = x
  BY <1>1, EntryIs
<1>3. /\ c \in TableType /\ Distinct(c) /\ Entries(c) = E \ {x}
      /\ ~Used(c, j) /\ \A p \in Positions : p # j => c[p] = t[p]
      /\ \A p \in Positions : c[p].key # id
  BY <1>1, <1>2, TakeOut
<1>4. Moved(t, j) = lookup_insert(c, id, idx)
  BY Zenon DEF Moved, Put
<1>5. z # j /\ ~Used(c, z)
  BY <1>1, <1>3 DEF Used
<1> HIDE DEF c, id, idx
<1>6. PICK q : FirstEmpty(c, id, q) /\ Moved(t, j) = Put(c, q, x)
  BY <1>2, <1>4, <1>5, InsertIs
<1> DEFINE u == Put(c, q, x)
<1>7. /\ u \in TableType /\ Distinct(u) /\ Entries(u) = Entries(c) \cup {x}
      /\ u[q] = x /\ \A p \in Positions : p # q => u[p] = c[p]
      /\ \A g \in Positions : ~Gap(u, q, g)
  <2>1. FilledWith(c, Put(c, q, [key |-> id, pool_idx |-> idx]), [key |-> id, pool_idx |-> idx], q)
    BY <1>2, <1>3, <1>6, PutKeeps
  <2>2. FilledWith(c, u, x, q)
    BY <2>1
  <2> HIDE DEF u, x
  <2> QED
    BY <2>2 DEF FilledWith
<1> HIDE DEF u
<1>8. q \in Positions
  BY <1>6 DEF FirstEmpty
<1>9. q # z
  <2> SUFFICES ASSUME q = z PROVE FALSE
    OBVIOUS
  <2>1. Dist(hash[id], z) <= Dist(hash[id], j)
    BY <1>3, <1>6 DEF FirstEmpty
  <2>2. hash[id] \in Positions
    BY <1>2 DEF Typed
  <2>3. Dist(hash[id], z) < Dist(hash[id], j)
    BY <1>5, <2>1, <2>2, Apart
  <2>4. Gap(t, j, z)
    BY <1>1, <2>3 DEF Gap, id
  <2>5. Dist(at, z) <= d
    BY <2>4 DEF Scan
  <2>6. Dist(at, z) \in Nat
    BY <1>5, Apart
  <2> QED
    BY <1>1, <2>5, <2>6
<1>10. Entries(u) = E
  <2>1. x \in E
    BY <1>1, <1>2 DEF Entries
  <2> QED
    BY <1>3, <1>7, <2>1
<1>11. Used(u, q) /\ (j # q => ~Used(u, j))
  <2>1. u[q].key = id /\ id # 0
    BY <1>2, <1>7
  <2> QED
    BY <1>3, <1>7, <2>1 DEF Used
<1>12. \A p \in Positions : p # q /\ p # j => u[p] = t[p]
  BY <1>3, <1>7
<1> QED
  BY <1>6, <1>7, <1>8, <1>9, <1>10, <1>11, <1>12 DEF u, Reinserted

(* A turn of the scan. *)
LEMMA ScanGoesOn ==
  ASSUME Typed, NEW acc, NEW E, NEW at \in Positions, NEW d \in Nat, NEW z \in Positions,
         Scan(acc, E, at, d, z), NEW j \in Positions, Dist(at, j) = d + 1
  PROVE  Scan(Rescanned(acc, j), E, at, d + 1, z)
<1> DEFINE r == Rescanned(acc, j)
           t == acc.t
<1>0. t \in TableType /\ Distinct(t) /\ Entries(t) = E /\ acc.over \in BOOLEAN
  BY DEF Scan
<1>1. CASE acc.over
  <2>1. r = [t |-> t, over |-> TRUE]
    BY <1>1 DEF Rescanned
  <2> QED
    BY <1>0, <1>1, <2>1 DEF Scan
<1>2. CASE ~acc.over /\ ~Used(t, j)
  <2>1. r = [t |-> t, over |-> TRUE]
    BY <1>2 DEF Rescanned, Used
  <2>2. ASSUME NEW p \in Positions, NEW g \in Positions, Gap(t, p, g) PROVE FALSE
    <3>1. Dist(at, g) <= d /\ d < Dist(at, p)
      BY <1>2, <2>2 DEF Scan
    <3>2. p # j
      BY <1>2, <2>2 DEF Gap
    <3>3. t[p].key \in 1..MAX_ID
      BY <1>0, <2>2, EntryIs DEF Gap
    <3> DEFINE h == hash[t[p].key]
    <3>4. h \in Positions
      BY <3>3 DEF Typed
    <3>5. Dist(h, g) < Dist(h, p)
      BY <2>2 DEF Gap
    <3> HIDE DEF h
    <3>6. Dist(at, g) < Dist(at, j) /\ Dist(at, j) <= Dist(at, p)
      BY <3>1, <3>2, Apart
    <3>7. Dist(h, j) < Dist(h, p)
      BY <3>2, <3>4, <3>5, <3>6, PassesBy
    <3>8. Gap(t, p, j)
      BY <1>2, <2>2, <3>7 DEF Gap, h
    <3>9. Dist(at, j) <= d
      BY <1>2, <3>8 DEF Scan
    <3> QED
      BY <3>9
  <2> QED
    BY <1>0, <2>1, <2>2 DEF Scan, Reachable
<1>3. CASE ~acc.over /\ Used(t, j)
  <2> DEFINE u == Moved(t, j)
  <2>1. r = [t |-> u, over |-> FALSE]
    BY <1>3 DEF Rescanned, Used
  <2>0. PICK q \in Positions : Reinserted(u, t, E, j, z, q)
    BY <1>3, MovedIs
  <2> HIDE DEF u
  <2>2. /\ u \in TableType /\ Distinct(u) /\ Entries(u) = E
        /\ Used(u, q) /\ q # z /\ (j # q => ~Used(u, j))
        /\ \A p \in Positions : p # q /\ p # j => u[p] = t[p]
        /\ \A g \in Positions : ~Gap(u, q, g)
    BY <2>0 DEF Reinserted
  <2>3. ~Used(t, z) /\ d < Dist(at, z)
    BY <1>3 DEF Scan
  <2>4. z # j /\ ~Used(u, z)
    BY <1>3, <2>2, <2>3 DEF Used
  <2>5. d + 1 < Dist(at, z)
    BY <2>3, <2>4, Apart
  <2>6. ASSUME NEW p \in Positions, NEW g \in Positions, Gap(u, p, g)
        PROVE  Dist(at, g) <= d + 1 /\ d + 1 < Dist(at, p)
    <3>1. p # q /\ p # j /\ g # q
      BY <2>2, <2>6 DEF Gap
    <3>2. u[p] = t[p] /\ Used(t, p)
      BY <2>2, <2>6, <3>1 DEF Gap, Used
    <3>3. t[p].key \in 1..MAX_ID
      BY <1>0, <3>2, EntryIs
    <3> DEFINE h == hash[t[p].key]
    <3>4. h \in Positions
      BY <3>3 DEF Typed
    <3>5. Dist(h, g) < Dist(h, p)
      BY <2>6, <3>2 DEF Gap
    <3>6. \A y \in Positions : ~Used(t, y) /\ Dist(h, y) < Dist(h, p) => Gap(t, p, y)
      BY <3>2 DEF Gap
    <3> HIDE DEF h
    <3>7. Dist(at, p) # d + 1 /\ Dist(at, p) \in Nat
      BY <3>1, Apart
    <3>8. CASE g # j
      <4>1. ~Used(t, g)
        BY <2>2, <2>6, <3>1, <3>8 DEF Gap, Used
      <4>2. Gap(t, p, g)
        BY <3>5, <3>6, <4>1
      <4>3. Dist(at, g) <= d /\ d < Dist(at, p)
        BY <1>3, <4>2 DEF Scan
      <4>4. Dist(at, g) \in Nat
        BY <3>8, Apart
      <4> QED
        BY <3>7, <4>3, <4>4
    <3>9. CASE g = j
      <4> SUFFICES ASSUME ~(d + 1 < Dist(at, p)) PROVE FALSE
        BY <3>9
      <4>1. Dist(at, p) < Dist(at, j) /\ Dist(at, j) < Dist(at, z)
        BY <2>5, <3>7
      <4>2. Dist(h, z) < Dist(h, p)
        BY <3>4, <3>5, <3>9, <4>1, GoesRound
      <4>3. Gap(t, p, z)
        BY <2>3, <3>6, <4>2
      <4>4. Dist(at, z) <= d /\ Dist(at, z) \in Nat
        BY <1>3, <2>4, <4>3, Apart DEF Scan
      <4> QED
        BY <2>3, <4>4
    <3> QED
      BY <3>8, <3>9
  <2> QED
    BY <2>1, <2>2, <2>4, <2>5, <2>6 DEF Scan
<1> QED
  BY <1>0, <1>1, <1>2, <1>3

(* lookup_remove takes the entry out, and all others remain in reach. *)
LEMMA RemoveKeeps ==
  ASSUME Typed, NEW t, Sound(t), NEW p \in Positions, Used(t, p), NEW z \in Positions, ~Used(t, z)
  PROVE  /\ Sound(lookup_remove(t, t[p].key))
         /\ Entries(lookup_remove(t, t[p].key)) = Entries(t) \ {t[p]}
<1> DEFINE id == t[p].key
           N == LOOKUP_CAP - 1
           E == Entries(t) \ {t[p]}
<1>1. Found(t, id) /\ At(id, Probes(t, id)) = p
  BY FindsIt
<1>2. PICK g : /\ g[0] = [t |-> Put(t, p, Empty), over |-> FALSE]
               /\ \A d \in 1..N : g[d] = Rescanned(g[d - 1], (p + d) % LOOKUP_CAP)
               /\ lookup_remove(t, id) = g[N].t
  BY <1>1, RemoveIs
<1>3. N \in Nat /\ LOOKUP_CAP \in Nat
  BY LookupAssumption DEF LookupAssumption
<1>4. Scan(g[0], E, p, 0, z)
  BY <1>2, ScanBegins
<1> HIDE DEF E, id
<1> DEFINE G == {d \in Nat : d <= N => Scan(g[d], E, p, d, z)}
<1>5. 0 \in G
  BY <1>4
<1>6. ASSUME NEW d \in Nat, d \in G PROVE d + 1 \in G
  <2> SUFFICES ASSUME d + 1 <= N PROVE Scan(g[d + 1], E, p, d + 1, z)
    OBVIOUS
  <2>1. Scan(g[d], E, p, d, z) /\ d + 1 \in 1..N /\ (d + 1) - 1 = d /\ d + 1 \in Positions
    BY <1>3, <1>6 DEF Positions
  <2>2. (p + (d + 1)) % LOOKUP_CAP = Plus(p, d + 1)
    BY <2>1, Remainder
  <2>3. g[d + 1] = Rescanned(g[(d + 1) - 1], (p + (d + 1)) % LOOKUP_CAP)
    BY <1>2, <2>1, Zenon
  <2>4. g[d + 1] = Rescanned(g[d], Plus(p, d + 1))
    BY <2>1, <2>2, <2>3
  <2>5. Plus(p, d + 1) \in Positions /\ Dist(p, Plus(p, d + 1)) = d + 1
    BY <2>1, Circle
  <2> QED
    BY <2>1, <2>4, <2>5, ScanGoesOn
<1>7. Nat \subseteq G
  <2> HIDE DEF G
  <2> QED
    BY <1>5, <1>6, SetOfNats
<1>8. Scan(g[N], E, p, N, z)
  BY <1>3, <1>7
<1>9. g[N].over
  <2>1. Dist(p, z) \in Positions
    BY Circle
  <2>2. ~(N < Dist(p, z))
    BY <1>3, <2>1 DEF Positions
  <2> QED
    BY <1>8, <2>2 DEF Scan
<1>10. Sound(g[N].t) /\ Entries(g[N].t) = E
  BY <1>8, <1>9 DEF Scan, Sound
<1> QED
  BY <1>2, <1>10 DEF E, id
-----------------------------------------------------------------------------
(* The steps of a book. *)

(* One book in the process. *)
OneBook == \E b : Books = {b}

(* The wiped table has no entry. *)
LEMMA EmptySound ==
  /\ EmptyTable \in TableType /\ Distinct(EmptyTable)
  /\ \A p, g \in Positions : ~Gap(EmptyTable, p, g)
  /\ Entries(EmptyTable) = {}
<1>1. Empty \in [key : 0..MAX_ID, pool_idx : 0..(POOL - 1)] /\ Empty.key = 0
  BY LookupAssumption DEF LookupAssumption, Empty
<1>2. \A p \in Positions : EmptyTable[p] = Empty
  BY DEF EmptyTable
<1>3. EmptyTable \in TableType
  BY <1>1 DEF EmptyTable, TableType
<1>4. \A p \in Positions : ~Used(EmptyTable, p)
  BY <1>1, <1>2 DEF Used
<1> QED
  BY <1>3, <1>4 DEF Distinct, Gap, Entries

(* A fresh book has all slots free. *)
LEMMA FreshPool ==
  /\ FreshSlots \in [0..(POOL - 1) -> 0..MAX_ID] /\ FreshFree \in Seq(0..(POOL - 1))
  /\ Len(FreshFree) = POOL /\ \A n \in 1..POOL : FreshFree[n] = n - 1
  /\ \A i \in 0..(POOL - 1) : FreshSlots[i] = 0
  /\ OrdersOf(FreshSlots) = {}
  /\ \A i \in 0..(POOL - 1) : \E n \in 1..Len(FreshFree) : FreshFree[n] = i
  /\ \A n, m \in 1..Len(FreshFree) : FreshFree[n] = FreshFree[m] => n = m
<1>1. POOL \in Nat /\ MAX_ID \in Nat
  BY LookupAssumption DEF LookupAssumption
<1>2. FreshFree \in [1..POOL -> 0..(POOL - 1)] /\ \A n \in 1..POOL : FreshFree[n] = n - 1
  BY <1>1 DEF FreshFree
<1>3. FreshFree \in Seq(0..(POOL - 1)) /\ Len(FreshFree) = POOL
  BY <1>1, <1>2
<1>4. FreshSlots \in [0..(POOL - 1) -> 0..MAX_ID] /\ \A i \in 0..(POOL - 1) : FreshSlots[i] = 0
  BY <1>1 DEF FreshSlots
<1>5. \A n, m \in 1..Len(FreshFree) : FreshFree[n] = FreshFree[m] => n = m
  BY <1>1, <1>2, <1>3
<1>6. ASSUME NEW i \in 0..(POOL - 1) PROVE \E n \in 1..Len(FreshFree) : FreshFree[n] = i
  <2>1. i + 1 \in 1..POOL /\ (i + 1) - 1 = i
    BY <1>1
  <2>2. FreshFree[i + 1] = (i + 1) - 1
    BY <1>2, <2>1
  <2> QED
    BY <1>3, <2>1, <2>2
<1> QED
  BY <1>2, <1>3, <1>4, <1>5, <1>6 DEF OrdersOf

(* A function with one value replaced. *)
LEMMA Replaced ==
  ASSUME NEW S, NEW T, NEW f \in [S -> T], NEW i \in S, NEW x \in T
  PROVE  /\ [f EXCEPT ![i] = x] \in [S -> T]
         /\ \A j \in S : [f EXCEPT ![i] = x][j] = IF j = i THEN x ELSE f[j]
OBVIOUS

(* What a pop takes from a stack and leaves. *)
LEMMA Popped ==
  ASSUME NEW S, NEW s \in Seq(S), s # <<>>
  PROVE  /\ Len(s) \in Nat \ {0} /\ Last(s) = s[Len(s)] /\ Last(s) \in S
         /\ Front(s) \in Seq(S) /\ Len(Front(s)) = Len(s) - 1
         /\ \A n \in 1..(Len(s) - 1) : Front(s)[n] = s[n]
<1>1. Len(s) \in Nat \ {0}
  OBVIOUS
<1>2. Last(s) = s[Len(s)] /\ Last(s) \in S
  BY <1>1 DEF Last
<1> DEFINE N == Len(s) - 1
           f == SubSeq(s, 1, N)
<1>3. N \in Nat /\ 1..N \subseteq 1..Len(s) /\ \A i \in 1..Len(s) : s[i] \in S
  BY <1>1
<1> HIDE DEF N
<1>4. /\ f \in Seq(S) /\ Len(f) = IF 1 <= N THEN N - 1 + 1 ELSE 0
      /\ \A i \in 1..(N - 1 + 1) : f[i] = s[1 + i - 1]
  BY <1>1, <1>3, SubSeqProperties
<1>5. Len(f) = N /\ \A i \in 1..N : f[i] = s[i]
  BY <1>3, <1>4
<1>6. Front(s) = f
  BY DEF Front, N
<1> QED
  BY <1>1, <1>2, <1>4, <1>5, <1>6 DEF N

(* The entries of a book are its orders, so each is in the slot it names. *)
LEMMA EntryNames ==
  ASSUME NEW s, NEW t \in TableType, Entries(t) = OrdersOf(s), NEW p \in Positions, Used(t, p)
  PROVE  t[p].pool_idx \in 0..(POOL - 1) /\ s[t[p].pool_idx] = t[p].key /\ t[p].key # 0
<1>1. t[p] \in OrdersOf(s)
  BY DEF Entries
<1>2. PICK i \in 0..(POOL - 1) : s[i] # 0 /\ t[p] = [key |-> s[i], pool_idx |-> i]
  BY <1>1 DEF OrdersOf
<1> QED
  BY <1>2

(* The table is never full: its entries are in different slots of a pool    *)
(* that is smaller.                                                         *)
LEMMA NeverFull == IInv => ProbesEnd
<1> SUFFICES ASSUME IInv, \A p \in Positions : Used(table, p) PROVE FALSE
  BY DEF ProbesEnd, Used
<1>0. table \in TableType /\ Distinct(table)
  BY DEF IInv, Sound
<1>1. LOOKUP_CAP \in Nat /\ POOL \in Nat \ {0} /\ POOL < LOOKUP_CAP /\ 0 \in Positions
  BY LookupAssumption DEF LookupAssumption, Positions
<1>2. table[0] \in Entries(table)
  BY <1>1 DEF Entries
<1>3. PICK b \in live : Entries(table) = OrdersOf(slots[b])
  BY <1>2 DEF IInv
<1> DEFINE f == [p \in Positions |-> table[p].pool_idx]
           T == 0..(POOL - 1)
<1>4. f \in [Positions -> T]
  BY <1>0, EntryIs
<1>5. /\ IsFiniteSet(Positions) /\ Cardinality(Positions) = LOOKUP_CAP
      /\ IsFiniteSet(T) /\ Cardinality(T) = POOL
  <2>1. \A a, c \in Int : /\ IsFiniteSet(a..c)
                          /\ Cardinality(a..c) = IF a > c THEN 0 ELSE c - a + 1
    BY FS_Interval
  <2>2. IsFiniteSet(0..(LOOKUP_CAP - 1)) /\ Cardinality(0..(LOOKUP_CAP - 1)) = LOOKUP_CAP
    BY <1>1, <2>1
  <2>3. IsFiniteSet(T) /\ Cardinality(T) = POOL
    BY <1>1, <2>1
  <2> QED
    BY <2>2, <2>3 DEF Positions
<1>55. \A p \in Positions : f[p] = table[p].pool_idx
  OBVIOUS
<1>56. IsFiniteSet(Positions) /\ IsFiniteSet(T) /\ Cardinality(T) < Cardinality(Positions)
  BY <1>1, <1>5
<1> HIDE DEF T, f
<1>6. PICK p, q \in Positions : p # q /\ f[p] = f[q]
  BY <1>4, <1>56, FS_PigeonHole, Zenon
<1>7. table[p].key = table[q].key
  BY <1>0, <1>3, <1>55, <1>6, EntryNames
<1> QED
  BY <1>0, <1>6, <1>7 DEF Distinct

(* An order enters the table and the pool. *)
LEMMA RestKeeps ==
  ASSUME IInv, OneBook, NEW b \in Books, Rest(b)
  PROVE  IInv'
<1> DEFINE id == next[b]
           oi == Last(free[b])
           x == [key |-> id, pool_idx |-> oi]
           N == Len(free[b])
<1>0. /\ b \in live /\ free[b] # <<>> /\ id <= MAX_ID
      /\ slots' = [slots EXCEPT ![b][oi] = id]
      /\ free' = [free EXCEPT ![b] = Front(free[b])]
      /\ next' = [next EXCEPT ![b] = id + 1]
      /\ table' = lookup_insert(table, id, oi)
      /\ hash' = hash /\ live' = live
  BY DEF Rest
<1>1. Typed /\ Sound(table) /\ Pooled(b) /\ Entries(table) = OrdersOf(slots[b]) /\ Books = {b}
  BY <1>0 DEF IInv, OneBook
<1>2. /\ free[b] \in Seq(0..(POOL - 1)) /\ slots[b] \in [0..(POOL - 1) -> 0..MAX_ID]
      /\ next[b] \in 1..(MAX_ID + 1) /\ MAX_ID \in Nat /\ POOL \in Nat
  BY <1>1, LookupAssumption DEF Typed, LookupAssumption
<1>3. /\ N \in Nat \ {0} /\ oi = free[b][N] /\ oi \in 0..(POOL - 1)
      /\ Front(free[b]) \in Seq(0..(POOL - 1)) /\ Len(Front(free[b])) = N - 1
      /\ \A n \in 1..(N - 1) : Front(free[b])[n] = free[b][n]
  BY <1>0, <1>2, Popped
<1>4. id \in 1..MAX_ID /\ slots[b][oi] = 0
  <2>1. slots[b][oi] = 0 <=> \E n \in 1..N : free[b][n] = oi
    BY <1>1, <1>3 DEF Pooled
  <2>2. N \in 1..N
    BY <1>3
  <2>3. id \in 1..MAX_ID
    BY <1>0, <1>2
  <2> QED
    BY <1>3, <2>1, <2>2, <2>3
<1> HIDE DEF oi
<1>45. DOMAIN slots = Books /\ DOMAIN free = Books /\ DOMAIN next = Books
  BY <1>1 DEF Typed
<1>5. /\ slots'[b] = [slots[b] EXCEPT ![oi] = id] /\ free'[b] = Front(free[b])
      /\ next'[b] = id + 1
  BY <1>0, <1>45
<1>16. \A i \in 0..(POOL - 1) : slots'[b][i] = IF i = oi THEN id ELSE slots[b][i]
  BY <1>2, <1>5
<1> HIDE DEF id, N
<1>6. Typed'
  <2>0. id \in 0..MAX_ID
    BY <1>4
  <2>1. [slots[b] EXCEPT ![oi] = id] \in [0..(POOL - 1) -> 0..MAX_ID]
    BY <1>2, <1>3, <2>0, Replaced
  <2>2. id + 1 \in 1..(MAX_ID + 1)
    BY <1>2, <1>4
  <2>3. /\ DOMAIN slots' = Books /\ DOMAIN free' = Books /\ DOMAIN next' = Books
        /\ slots' = [c \in DOMAIN slots' |-> slots'[c]] /\ free' = [c \in DOMAIN free' |-> free'[c]]
        /\ next' = [c \in DOMAIN next' |-> next'[c]]
    BY <1>0, <1>1 DEF Typed
  <2> QED
    BY <1>0, <1>1, <1>3, <1>5, <2>1, <2>2, <2>3 DEF Typed
<1>7. Pooled(b)'
  <2>1. \A i \in 0..(POOL - 1) : slots'[b][i] = IF i = oi THEN id ELSE slots[b][i]
    BY <1>16
  <2>2. Len(free'[b]) = N - 1 /\ \A n \in 1..(N - 1) : free'[b][n] = free[b][n]
    BY <1>3, <1>5
  <2>3. ASSUME NEW i \in 0..(POOL - 1)
        PROVE  slots'[b][i] = 0 <=> \E n \in 1..(N - 1) : free[b][n] = i
    <3>1. slots[b][i] = 0 <=> \E n \in 1..N : free[b][n] = i
      BY <1>1 DEF Pooled, N
    <3>2. \A n \in 1..N : free[b][n] = oi => n = N
      BY <1>1, <1>3 DEF Pooled, N
    <3>3. \A n \in 1..N : n = N \/ n \in 1..(N - 1)
      BY <1>3
    <3>4. \A n \in 1..(N - 1) : n \in 1..N /\ n # N
      BY <1>3
    <3> QED
      BY <1>3, <1>4, <2>1, <3>1, <3>2, <3>3, <3>4
  <2>4. \A n, m \in 1..(N - 1) : free[b][n] = free[b][m] => n = m
    <3>1. \A n \in 1..(N - 1) : n \in 1..N
      BY <1>3
    <3> QED
      BY <1>1, <3>1 DEF Pooled, N
  <2>5. \A i \in 0..(POOL - 1) : slots[b][i] < id /\ slots[b][i] \in Nat
    BY <1>1, <1>2 DEF Pooled, id
  <2>6. \A i \in 0..(POOL - 1) : slots'[b][i] < id + 1
    BY <1>4, <2>1, <2>5
  <2>7. \A i, j \in 0..(POOL - 1) : slots'[b][i] = slots'[b][j] /\ slots'[b][i] # 0 => i = j
    BY <1>1, <1>4, <2>1, <2>5 DEF Pooled
  <2> QED
    BY <1>5, <2>2, <2>3, <2>4, <2>6, <2>7 DEF Pooled
<1>8. \A p \in Positions : table[p].key # id
  <2> SUFFICES ASSUME NEW p \in Positions, table[p].key = id PROVE FALSE
    OBVIOUS
  <2>1. Used(table, p)
    BY <1>4 DEF Used
  <2>2. table[p].pool_idx \in 0..(POOL - 1) /\ slots[b][table[p].pool_idx] = id
    BY <1>1, <2>1, EntryNames DEF Sound
  <2> QED
    BY <1>1, <1>2, <2>2 DEF Pooled, id
<1>9. PICK e \in Positions : ~Used(table, e)
  BY NeverFull DEF ProbesEnd, Used
<1>10. PICK q : FirstEmpty(table, id, q) /\ table' = Put(table, q, x)
  BY <1>0, <1>1, <1>4, <1>9, InsertIs
<1>11. /\ table' \in TableType /\ Distinct(table') /\ Entries(table') = Entries(table) \cup {x}
       /\ table'[q] = x /\ \A p \in Positions : p # q => table'[p] = table[p]
       /\ \A g \in Positions : ~Gap(table', q, g)
  <2>1. FilledWith(table, Put(table, q, [key |-> id, pool_idx |-> oi]), [key |-> id, pool_idx |-> oi], q)
    <3>1. Typed /\ table \in TableType /\ Distinct(table)
      BY <1>1 DEF Sound
    <3> QED
      BY <1>3, <1>4, <1>8, <1>10, <3>1, PutKeeps
  <2>2. FilledWith(table, table', x, q)
    BY <1>10, <2>1
  <2> HIDE DEF x
  <2> QED
    BY <2>2 DEF FilledWith
<1>12. ASSUME NEW p \in Positions, NEW g \in Positions PROVE ~Gap(table', p, g)
  <2> SUFFICES ASSUME Gap(table', p, g), p # q PROVE FALSE
    BY <1>11
  <2>1. g # q
    BY <1>4, <1>11 DEF Gap, Used
  <2>2. Gap(table, p, g)
    BY <1>11, <2>1 DEF Gap, Used
  <2> QED
    BY <1>1, <2>2 DEF Sound, Reachable
<1>13. Sound(table)'
  BY <1>0, <1>11, <1>12 DEF Sound, Reachable, Gap, Distinct, Used, TableType, Positions
<1>14. Entries(table') = OrdersOf(slots'[b])
  <2>1. \A i \in 0..(POOL - 1) : slots'[b][i] = IF i = oi THEN id ELSE slots[b][i]
    BY <1>16
  <2>2. OrdersOf(slots'[b]) = OrdersOf(slots[b]) \cup {x}
    BY <1>3, <1>4, <2>1 DEF OrdersOf
  <2> QED
    BY <1>1, <1>11, <2>2
<1> QED
  <2>1. \A c \in Books : c = b /\ Pooled(c)'
    BY <1>1, <1>7
  <2>2. live' # {} /\ \A c \in live' : c = b
    BY <1>0, <1>1 DEF Typed
  <2>3. Entries(table)' = OrdersOf(slots[b])'
    BY <1>14 DEF Entries, OrdersOf, Used
  <2> QED
    BY <1>6, <1>13, <2>1, <2>2, <2>3 DEF IInv

(* An order leaves the table and the pool. *)
LEMMA LeaveKeeps ==
  ASSUME IInv, OneBook, NEW b \in Books, NEW id \in 1..MAX_ID, Leave(b, id)
  PROVE  IInv'
<1> DEFINE oi == lookup_find(table, id)
           N == Len(free[b])
<1>0. /\ b \in live /\ oi # OB_NULL_IDX
      /\ table' = lookup_remove(table, id)
      /\ slots' = [slots EXCEPT ![b][oi] = 0]
      /\ free' = [free EXCEPT ![b] = Append(free[b], oi)]
      /\ hash' = hash /\ live' = live /\ next' = next
  BY DEF Leave
<1>1. Typed /\ Sound(table) /\ Pooled(b) /\ Entries(table) = OrdersOf(slots[b]) /\ Books = {b}
  BY <1>0 DEF IInv, OneBook
<1>2. /\ free[b] \in Seq(0..(POOL - 1)) /\ slots[b] \in [0..(POOL - 1) -> 0..MAX_ID]
      /\ MAX_ID \in Nat /\ POOL \in Nat
  BY <1>1, LookupAssumption DEF Typed, LookupAssumption
<1>3. PICK p \in Positions : table[p].key = id
  BY <1>0, <1>1, FindsNone
<1>4. Used(table, p)
  BY <1>3 DEF Used
<1>5. oi = table[p].pool_idx
  BY <1>1, <1>3, <1>4, FindsIt
<1>6. oi \in 0..(POOL - 1) /\ slots[b][oi] = id /\ id # 0
  BY <1>1, <1>3, <1>4, <1>5, EntryNames DEF Sound
<1>7. table[p] = [key |-> id, pool_idx |-> oi]
  BY <1>1, <1>3, <1>5, EntryIs DEF Sound
<1> HIDE DEF oi
<1>8. /\ slots'[b] = [slots[b] EXCEPT ![oi] = 0] /\ free'[b] = Append(free[b], oi)
      /\ next'[b] = next[b]
  BY <1>0, <1>1 DEF Typed
<1>9. /\ N \in Nat /\ Append(free[b], oi) \in Seq(0..(POOL - 1)) /\ Len(free'[b]) = N + 1
      /\ free'[b][N + 1] = oi /\ \A n \in 1..N : free'[b][n] = free[b][n]
  BY <1>2, <1>6, <1>8
<1> HIDE DEF N
<1>10. \A i \in 0..(POOL - 1) : slots'[b][i] = IF i = oi THEN 0 ELSE slots[b][i]
  BY <1>2, <1>8
<1>11. Typed'
  <2>0. 0 \in 0..MAX_ID
    BY <1>2
  <2>1. [slots[b] EXCEPT ![oi] = 0] \in [0..(POOL - 1) -> 0..MAX_ID]
    BY <1>2, <1>6, <2>0, Replaced
  <2>2. /\ DOMAIN slots' = Books /\ DOMAIN free' = Books
        /\ slots' = [c \in DOMAIN slots' |-> slots'[c]] /\ free' = [c \in DOMAIN free' |-> free'[c]]
    BY <1>0, <1>1 DEF Typed
  <2> QED
    BY <1>0, <1>1, <1>8, <1>9, <2>1, <2>2 DEF Typed
<1>12. Pooled(b)'
  <2>1. ASSUME NEW i \in 0..(POOL - 1)
        PROVE  slots'[b][i] = 0 <=> \E n \in 1..(N + 1) : free'[b][n] = i
    <3>1. slots[b][i] = 0 <=> \E n \in 1..N : free[b][n] = i
      BY <1>1 DEF Pooled, N
    <3>2. \A n \in 1..(N + 1) : n = N + 1 \/ n \in 1..N
      BY <1>9
    <3>3. N + 1 \in 1..(N + 1) /\ \A n \in 1..N : n \in 1..(N + 1)
      BY <1>9
    <3> QED
      BY <1>9, <1>10, <3>1, <3>2, <3>3
  <2>2. ASSUME NEW n \in 1..(N + 1), NEW m \in 1..(N + 1), free'[b][n] = free'[b][m] PROVE n = m
    <3>1. \A k \in 1..N : free[b][k] # oi
      BY <1>1, <1>6 DEF Pooled, N
    <3>2. \A k \in 1..(N + 1) : k = N + 1 \/ k \in 1..N
      BY <1>9
    <3>3. \A k, l \in 1..N : free[b][k] = free[b][l] => k = l
      BY <1>1 DEF Pooled, N
    <3> QED
      BY <1>9, <2>2, <3>1, <3>2, <3>3
  <2>3. \A i \in 0..(POOL - 1) : slots[b][i] < next[b] /\ 0 < next[b]
    BY <1>1 DEF Pooled, Typed
  <2>4. \A i, j \in 0..(POOL - 1) : slots'[b][i] = slots'[b][j] /\ slots'[b][i] # 0 => i = j
    BY <1>1, <1>10 DEF Pooled
  <2> QED
    BY <1>8, <1>9, <1>10, <2>1, <2>2, <2>3, <2>4 DEF Pooled
<1>13. PICK e \in Positions : ~Used(table, e)
  BY NeverFull DEF ProbesEnd, Used
<1>14. Sound(table') /\ Entries(table') = Entries(table) \ {table[p]}
  BY <1>0, <1>1, <1>3, <1>4, <1>13, RemoveKeeps
<1>15. Sound(table)'
  BY <1>0, <1>14 DEF Sound, Reachable, Gap, Distinct, Used, TableType, Positions
<1>16. Entries(table') = OrdersOf(slots'[b])
  <2>1. OrdersOf(slots'[b]) = OrdersOf(slots[b]) \ {[key |-> id, pool_idx |-> oi]}
    BY <1>6, <1>10 DEF OrdersOf
  <2> QED
    BY <1>1, <1>7, <1>14, <2>1
<1> QED
  <2>1. \A c \in Books : c = b /\ Pooled(c)'
    BY <1>1, <1>12
  <2>2. live' # {} /\ \A c \in live' : c = b
    BY <1>0, <1>1 DEF Typed
  <2>3. Entries(table)' = OrdersOf(slots[b])'
    BY <1>16 DEF Entries, OrdersOf, Used
  <2> QED
    BY <1>11, <1>15, <2>1, <2>2, <2>3 DEF IInv
(* ob_init: an empty table and a fresh pool. *)
LEMMA BookInitKeeps ==
  ASSUME IInv, OneBook, NEW b \in Books, BookInit(b)
  PROVE  IInv'
<1>0. /\ live' = live \cup {b} /\ table' = EmptyTable /\ hash' = hash
      /\ slots' = [slots EXCEPT ![b] = FreshSlots]
      /\ free' = [free EXCEPT ![b] = FreshFree]
      /\ next' = [next EXCEPT ![b] = 1]
  BY DEF BookInit
<1>1. Typed /\ Books = {b} /\ MAX_ID \in Nat
  BY LookupAssumption DEF IInv, OneBook, LookupAssumption
<1>2. slots'[b] = FreshSlots /\ free'[b] = FreshFree /\ next'[b] = 1
  BY <1>0, <1>1 DEF Typed
<1>3. Typed'
  <2>1. /\ DOMAIN slots' = Books /\ DOMAIN free' = Books /\ DOMAIN next' = Books
        /\ slots' = [c \in DOMAIN slots' |-> slots'[c]] /\ free' = [c \in DOMAIN free' |-> free'[c]]
        /\ next' = [c \in DOMAIN next' |-> next'[c]]
    BY <1>0, <1>1 DEF Typed
  <2>2. 1 \in 1..(MAX_ID + 1)
    BY <1>1
  <2> QED
    BY <1>0, <1>1, <1>2, <2>1, <2>2, FreshPool DEF Typed
<1>4. Pooled(b)'
  <2>1. /\ \A i \in 0..(POOL - 1) : slots'[b][i] = 0 /\ 0 < next'[b]
        /\ \A i \in 0..(POOL - 1) : \E n \in 1..Len(free'[b]) : free'[b][n] = i
        /\ \A n, m \in 1..Len(free'[b]) : free'[b][n] = free'[b][m] => n = m
    <3>1. \A i \in 0..(POOL - 1) : \E n \in 1..Len(FreshFree) : FreshFree[n] = i
      BY FreshPool
    <3>2. \A n, m \in 1..Len(FreshFree) : FreshFree[n] = FreshFree[m] => n = m
      BY FreshPool
    <3>3. \A i \in 0..(POOL - 1) : FreshSlots[i] = 0
      BY FreshPool
    <3> QED
      BY <1>2, <3>1, <3>2, <3>3
  <2> QED
    BY <2>1 DEF Pooled
<1>5. Sound(table)' /\ Entries(table)' = {}
  BY <1>0, EmptySound DEF Sound, Reachable, Gap, Distinct, Used, TableType, Positions, Entries
<1>6. OrdersOf(slots[b])' = {}
  BY <1>2, FreshPool DEF OrdersOf
<1>7. live' # {} /\ \A c \in Books : c = b
  BY <1>0, <1>1
<1>8. \A c \in live' : c = b
  BY <1>0, <1>1 DEF Typed
<1> QED
  BY <1>3, <1>4, <1>5, <1>6, <1>7, <1>8 DEF IInv

(* ob_destroy: an empty table, and no book. *)
LEMMA BookDestroyKeeps ==
  ASSUME IInv, OneBook, NEW b \in Books, BookDestroy(b)
  PROVE  IInv'
<1>0. /\ live' = live \ {b} /\ table' = EmptyTable /\ hash' = hash
      /\ slots' = slots /\ free' = free /\ next' = next
  BY DEF BookDestroy
<1>1. Typed' /\ live' = {}
  BY <1>0 DEF IInv, OneBook, Typed
<1>2. ASSUME NEW c \in Books PROVE Pooled(c)'
  <2>1. Pooled(c)
    BY DEF IInv
  <2> QED
    BY <1>0, <2>1, Zenon DEF Pooled
<1>3. Sound(table)' /\ Entries(table)' = {}
  BY <1>0, EmptySound DEF Sound, Reachable, Gap, Distinct, Used, TableType, Positions, Entries
<1> QED
  BY <1>1, <1>2, <1>3 DEF IInv

(* At the start there is no book and no entry. *)
LEMMA IInvInit == Init => IInv
<1> SUFFICES ASSUME Init PROVE IInv
  OBVIOUS
<1>1. MAX_ID \in Nat /\ 1 \in 1..(MAX_ID + 1)
  BY LookupAssumption DEF LookupAssumption
<1>2. Typed
  BY <1>1, FreshPool DEF Init, Typed
<1>3. \A b \in Books : slots[b] = FreshSlots /\ free[b] = FreshFree /\ next[b] = 1
  BY DEF Init
<1>4. ASSUME NEW b \in Books PROVE Pooled(b)
  <2>1. slots[b] = FreshSlots /\ free[b] = FreshFree /\ next[b] = 1
    BY <1>3
  <2>2. \A i \in 0..(POOL - 1) : \E n \in 1..Len(FreshFree) : FreshFree[n] = i
    BY FreshPool
  <2>3. \A n, m \in 1..Len(FreshFree) : FreshFree[n] = FreshFree[m] => n = m
    BY FreshPool
  <2>4. \A i \in 0..(POOL - 1) : FreshSlots[i] = 0
    BY FreshPool
  <2> QED
    BY <2>1, <2>2, <2>3, <2>4 DEF Pooled
<1>5. Sound(table) /\ Entries(table) = {} /\ live = {}
  BY EmptySound DEF Init, Sound, Reachable
<1> QED
  BY <1>2, <1>4, <1>5 DEF IInv

(* Every step keeps the invariant. *)
LEMMA IInvStep == IInv /\ OneBook /\ [Next]_vars => IInv'
<1> SUFFICES ASSUME IInv, OneBook, [Next]_vars PROVE IInv'
  OBVIOUS
<1>1. CASE UNCHANGED vars
  <2>0. hash' = hash /\ table' = table /\ live' = live /\ slots' = slots /\ free' = free /\ next' = next
    BY <1>1 DEF vars
  <2>1. Typed'
    BY <2>0 DEF IInv, Typed
  <2>2. Sound(table)'
    BY <2>0 DEF IInv, Sound, Reachable, Gap, Distinct, Used, TableType
  <2>3. ASSUME NEW b \in Books PROVE Pooled(b)'
    <3>1. Pooled(b)
      BY DEF IInv
    <3> QED
      BY <2>0, <3>1, Zenon DEF Pooled
  <2>4. Entries(table)' = Entries(table)
    BY <2>0 DEF Entries, Used
  <2>5. \A b \in live : OrdersOf(slots[b])' = OrdersOf(slots[b])
    BY <2>0 DEF OrdersOf
  <2> QED
    BY <2>0, <2>1, <2>2, <2>3, <2>4, <2>5 DEF IInv
<1>2. CASE Next
  <2>1. PICK b \in Books : \/ BookInit(b)
                           \/ BookDestroy(b)
                           \/ Rest(b)
                           \/ \E id \in 1..MAX_ID : Leave(b, id)
    BY <1>2 DEF Next
  <2> QED
    BY <2>1, BookInitKeeps, BookDestroyKeeps, RestKeeps, LeaveKeeps
<1> QED
  BY <1>1, <1>2

(* What the table says of each id is what the book's slots say. *)
LEMMA LookupExact == IInv => PerBookLookup
<1> SUFFICES ASSUME IInv, NEW b \in live, NEW id \in 1..MAX_ID
             PROVE  LET at == {i \in 0..(POOL - 1) : slots[b][i] = id}
                        oi == lookup_find(table, id)
                    IN  IF at = {} THEN oi = OB_NULL_IDX ELSE oi \in at
  BY Zenon DEF PerBookLookup
<1> DEFINE at == {i \in 0..(POOL - 1) : slots[b][i] = id}
           oi == lookup_find(table, id)
<1>1. Typed /\ Sound(table) /\ Entries(table) = OrdersOf(slots[b]) /\ id # 0 /\ table \in TableType
  BY DEF IInv, Sound
<1>2. ASSUME at = {} PROVE oi = OB_NULL_IDX
  <2>1. ASSUME NEW p \in Positions, table[p].key = id PROVE FALSE
    <3>1. table[p].pool_idx \in 0..(POOL - 1) /\ slots[b][table[p].pool_idx] = id
      BY <1>1, <2>1, EntryNames DEF Used
    <3> QED
      BY <3>1, <1>2
  <2> QED
    BY <1>1, <2>1, FindsNone
<1>3. ASSUME NEW i \in at PROVE oi = i
  <2>1. [key |-> id, pool_idx |-> i] \in Entries(table)
    BY <1>1 DEF OrdersOf
  <2>2. PICK p \in Positions : table[p] = [key |-> id, pool_idx |-> i]
    BY <2>1 DEF Entries
  <2> QED
    BY <1>1, <2>2, FindsIt DEF Used
<1> HIDE DEF at, oi
<1>4. IF at = {} THEN oi = OB_NULL_IDX ELSE oi \in at
  BY <1>2, <1>3
<1> QED
  BY <1>4 DEF at, oi

-----------------------------------------------------------------------------
(* The theorems. *)

(* With one book in the process, the types, the reach of every entry of the *)
(* table, its agreement with the book's slots and the free stack hold in    *)
(* every state (engine/orderbook.c:137-167, 169-190).                       *)
THEOREM LookupInvariant == ASSUME OneBook PROVE Spec => []IInv
<1>1. IInv /\ [Next]_vars => IInv'
  BY IInvStep
<1> QED
  BY <1>1, IInvInit, PTL DEF Spec

(* The lookup of one book is exact, for any hash and any sizes: for every   *)
(* id it gives the slot of the order, and nothing for an id the book does   *)
(* not hold (engine/orderbook.c:137-167).                                   *)
THEOREM LookupNamesTheOrder == ASSUME OneBook PROVE Spec => []PerBookLookup
BY LookupInvariant, LookupExact, PTL

(* With one book, the loops of lookup_insert and lookup_remove end: the     *)
(* table, larger than the pool, always has an empty position.               *)
THEOREM ProbingEnds == ASSUME OneBook PROVE Spec => []ProbesEnd
BY LookupInvariant, NeverFull, PTL
=============================================================================
