--------------------------- MODULE OrderBookProofs ---------------------------
(***************************************************************************)
(* Proofs about OrderBook for every set of prices and quantities and every *)
(* size of the pools.  The operators on a book (Detach, Attach) are shown  *)
(* to keep pool, lookup, queues and tree linked; the actions are then      *)
(* compositions of them, and the inductive invariant IInv follows.  MInv   *)
(* and TInv are inductive relative to it: what the matching leaves behind, *)
(* and the cached totals.                                                  *)
(***************************************************************************)
EXTENDS OrderBookProps, TLAPS, FiniteSums, FiniteSetTheorems, SequenceTheorems

(* The set L of orders with attributes P is what the queues of b list.     *)
Linked(P, L, b) ==
  /\ \A id \in L : \E i \in 1..Len(b.fifo[P[id].side][P[id].price]) :
                     b.fifo[P[id].side][P[id].price][i] = id
  /\ \A s \in Side, p \in Prices : \A i \in 1..Len(b.fifo[s][p]) :
       /\ b.fifo[s][p][i] \in L
       /\ P[b.fifo[s][p][i]].side = s
       /\ P[b.fifo[s][p][i]].price = p

InTree(b) == \A s \in Side, p \in Prices : p \in b.tree[s] <=> b.fifo[s][p] # <<>>

InTime(P, b) ==
  \A s \in Side, p \in Prices : \A i, j \in 1..Len(b.fifo[s][p]) :
    i < j => P[b.fifo[s][p][i]].ts_update < P[b.fifo[s][p][j]].ts_update

Counted(b) ==
  /\ \A s \in Side : b.level_count[s] = Cardinality(b.tree[s])
  /\ b.level_free_top + b.level_count["BID"] + b.level_count["ASK"] = 2 * OB_MAX_LEVELS

(* The structures of a book agree on the orders L with attributes P. *)
Sound(P, L, b) == Linked(P, L, b) /\ InTree(b) /\ InTime(P, b) /\ Counted(b)

-----------------------------------------------------------------------------
(* Removing an id that occurs once in a queue leaves the others, in order. *)
LEMMA UnlinkRemoves ==
  ASSUME NEW S, NEW q \in Seq(S), NEW id,
         NEW k \in 1..Len(q), q[k] = id,
         \A i \in 1..Len(q) : q[i] = id => i = k
  PROVE  /\ Unlink(q, id) \in Seq(S)
         /\ Len(Unlink(q, id)) = Len(q) - 1
         /\ \A i \in 1..(Len(q) - 1) :
              Unlink(q, id)[i] = IF i < k THEN q[i] ELSE q[i + 1]
<1>1. (CHOOSE i \in 1..Len(q) : q[i] = id) = k
  OBVIOUS
<1>2. Unlink(q, id) = [i \in 1..(Len(q) - 1) |-> IF i < k THEN q[i] ELSE q[i + 1]]
  BY <1>1, Zenon DEF Unlink
<1>3. Len(q) \in Nat /\ Len(q) - 1 \in Nat
  OBVIOUS
<1>4. \A i \in 1..(Len(q) - 1) : (IF i < k THEN q[i] ELSE q[i + 1]) \in S
  OBVIOUS
<1>5. Unlink(q, id) \in [1..(Len(q) - 1) -> S]
  BY <1>2, <1>4
<1>6. Unlink(q, id) \in Seq(S)
  BY <1>3, <1>5, IsASeq
<1>7. Len(Unlink(q, id)) = Len(q) - 1
  BY <1>2, <1>3, <1>6
<1> QED
  BY <1>2, <1>6, <1>7


(* Replacing one queue leaves the others. *)
LEMMA QueueUpdate ==
  ASSUME NEW f \in [Side -> [Prices -> Seq(Ids)]], NEW s \in Side, NEW p \in Prices, NEW v
  PROVE  /\ [f EXCEPT ![s][p] = v][s][p] = v
         /\ \A x \in Side, y \in Prices : x # s \/ y # p => [f EXCEPT ![s][p] = v][x][y] = f[x][y]
  OBVIOUS

(* What level_delete does to the fields of a book. *)
LEMMA DeleteFields ==
  ASSUME NEW b \in Book, NEW s \in Side, NEW p \in Prices,
         NEW d, d = level_delete(b, s, p)
  PROVE  /\ d \in Book
         /\ d.tree[s] = b.tree[s] \ {p}
         /\ d.level_count[s] = b.level_count[s] - 1
         /\ \A x \in Side : x # s => d.tree[x] = b.tree[x] /\ d.level_count[x] = b.level_count[x]
         /\ d.level_free_top = b.level_free_top + 1
         /\ d.fifo = b.fifo
<1> DEFINE tree == [b.tree EXCEPT ![s] = @ \ {p}]
           level_count == [b.level_count EXCEPT ![s] = @ - 1]
           level_free_top == b.level_free_top + 1
<1>1. /\ tree \in [Side -> SUBSET Prices]
      /\ level_count \in [Side -> Int]
      /\ level_free_top \in Int
  BY DEF Book
<1>2. d = [b EXCEPT !.tree = tree, !.level_count = level_count,
                                        !.level_free_top = level_free_top]
  BY DEF level_delete
<1> HIDE DEF tree, level_count, level_free_top
<1>3. d \in Book
  BY <1>1, <1>2, Zenon DEF Book
<1>4. /\ d.tree = tree
      /\ d.level_count = level_count
      /\ d.level_free_top = level_free_top
      /\ d.fifo = b.fifo
  BY <1>2 DEF Book
<1>5. b.tree \in [Side -> SUBSET Prices] /\ b.level_count \in [Side -> Int]
  BY DEF Book
<1>6. tree[s] = b.tree[s] \ {p} /\ \A x \in Side : x # s => tree[x] = b.tree[x]
  BY <1>5 DEF tree
<1>7. /\ level_count[s] = b.level_count[s] - 1
      /\ \A x \in Side : x # s => level_count[x] = b.level_count[x]
  BY <1>5 DEF level_count
<1> QED
  BY <1>3, <1>4, <1>6, <1>7 DEF level_free_top

(* What level_dequeue does to the fields of a book. *)
LEMMA DequeueFields ==
  ASSUME NEW b \in Book, NEW s \in Side, NEW p \in Prices, NEW id, NEW n \in Int,
         Unlink(b.fifo[s][p], id) \in Seq(Ids),
         NEW d, d = level_dequeue(b, s, p, id, n)
  PROVE  /\ d \in Book
         /\ d.tree = b.tree /\ d.level_count = b.level_count
         /\ d.level_free_top = b.level_free_top
         /\ d.fifo[s][p] = Unlink(b.fifo[s][p], id)
         /\ \A x \in Side, y \in Prices : x # s \/ y # p => d.fifo[x][y] = b.fifo[x][y]
<1> DEFINE fifo == [b.fifo EXCEPT ![s][p] = Unlink(b.fifo[s][p], id)]
           lvl_qty == [b.lvl_qty EXCEPT ![s][p] = @ - n]
           side_qty == [b.side_qty EXCEPT ![s] = @ - n]
<1>1. /\ fifo \in [Side -> [Prices -> Seq(Ids)]]
      /\ lvl_qty \in [Side -> [Prices -> Int]]
      /\ side_qty \in [Side -> Int]
  BY DEF Book
<1>2. d = [b EXCEPT !.fifo = fifo, !.lvl_qty = lvl_qty,
                                                !.side_qty = side_qty]
  BY DEF level_dequeue
<1> HIDE DEF fifo, lvl_qty, side_qty
<1>3. d \in Book
  BY <1>1, <1>2, Zenon DEF Book
<1>4. /\ d.tree = b.tree
      /\ d.level_count = b.level_count
      /\ d.level_free_top = b.level_free_top
      /\ d.fifo = fifo
  BY <1>2 DEF Book
<1>5. b.fifo \in [Side -> [Prices -> Seq(Ids)]]
  BY DEF Book
<1>6. /\ fifo[s][p] = Unlink(b.fifo[s][p], id)
      /\ \A x \in Side, y \in Prices : x # s \/ y # p => fifo[x][y] = b.fifo[x][y]
  BY <1>5, QueueUpdate DEF fifo
<1> QED
  BY <1>3, <1>4, <1>6

(* What level_create does to the fields of a book. *)
LEMMA CreateFields ==
  ASSUME NEW b \in Book, NEW s \in Side, NEW p \in Prices,
         NEW d, d = level_create(b, s, p)
  PROVE  /\ d \in Book
         /\ d.tree[s] = b.tree[s] \cup {p}
         /\ d.level_count[s] = b.level_count[s] + 1
         /\ \A x \in Side : x # s => d.tree[x] = b.tree[x] /\ d.level_count[x] = b.level_count[x]
         /\ d.level_free_top = b.level_free_top - 1
         /\ b.fifo[s][p] = <<>> => d.fifo = b.fifo
<1> DEFINE tree == [b.tree EXCEPT ![s] = @ \cup {p}]
           fifo == [b.fifo EXCEPT ![s][p] = <<>>]
           lvl_qty == [b.lvl_qty EXCEPT ![s][p] = 0]
           level_count == [b.level_count EXCEPT ![s] = @ + 1]
           level_free_top == b.level_free_top - 1
<1>1. /\ tree \in [Side -> SUBSET Prices]
      /\ fifo \in [Side -> [Prices -> Seq(Ids)]]
      /\ lvl_qty \in [Side -> [Prices -> Int]]
      /\ level_count \in [Side -> Int]
      /\ level_free_top \in Int
  BY DEF Book
<1>2. d = [b EXCEPT !.tree = tree, !.fifo = fifo, !.lvl_qty = lvl_qty,
                                        !.level_count = level_count,
                                        !.level_free_top = level_free_top]
  BY DEF level_create
<1> HIDE DEF tree, fifo, lvl_qty, level_count, level_free_top
<1>3. d \in Book
  BY <1>1, <1>2, Zenon DEF Book
<1>4. /\ d.tree = tree
      /\ d.level_count = level_count
      /\ d.level_free_top = level_free_top
      /\ d.fifo = fifo
  BY <1>2 DEF Book
<1>5. b.fifo[s][p] = <<>> => fifo = b.fifo
  BY DEF Book, fifo
<1>6. b.tree \in [Side -> SUBSET Prices] /\ b.level_count \in [Side -> Int]
  BY DEF Book
<1>7. tree[s] = b.tree[s] \cup {p} /\ \A x \in Side : x # s => tree[x] = b.tree[x]
  BY <1>6 DEF tree
<1>8. /\ level_count[s] = b.level_count[s] + 1
      /\ \A x \in Side : x # s => level_count[x] = b.level_count[x]
  BY <1>6 DEF level_count
<1> QED
  BY <1>3, <1>4, <1>5, <1>7, <1>8 DEF level_free_top

(* d is b with id at the end of the queue of p on s, its totals apart. *)
Enqueued(b, s, p, id, d) ==
  /\ d \in Book
  /\ d.tree = b.tree /\ d.level_count = b.level_count
  /\ d.level_free_top = b.level_free_top
  /\ d.fifo[s][p] = Append(b.fifo[s][p], id)
  /\ \A x \in Side, y \in Prices : x # s \/ y # p => d.fifo[x][y] = b.fifo[x][y]

(* What level_enqueue does to the fields of a book. *)
LEMMA EnqueueFields ==
  ASSUME NEW b \in Book, NEW s \in Side, NEW p \in Prices, NEW id \in Ids, NEW n \in Int,
         NEW d, d = level_enqueue(b, s, p, id, n)
  PROVE  Enqueued(b, s, p, id, d)
<1> DEFINE fifo == [b.fifo EXCEPT ![s][p] = Append(b.fifo[s][p], id)]
           lvl_qty == [b.lvl_qty EXCEPT ![s][p] = @ + n]
           side_qty == [b.side_qty EXCEPT ![s] = @ + n]
<1>1. /\ fifo \in [Side -> [Prices -> Seq(Ids)]]
      /\ lvl_qty \in [Side -> [Prices -> Int]]
      /\ side_qty \in [Side -> Int]
  BY DEF Book
<1>2. d = [b EXCEPT !.fifo = fifo, !.lvl_qty = lvl_qty,
                                                !.side_qty = side_qty]
  BY DEF level_enqueue
<1> HIDE DEF fifo, lvl_qty, side_qty
<1>3. d \in Book
  BY <1>1, <1>2, Zenon DEF Book
<1>4. /\ d.tree = b.tree
      /\ d.level_count = b.level_count
      /\ d.level_free_top = b.level_free_top
      /\ d.fifo = fifo
  BY <1>2 DEF Book
<1>5. b.fifo \in [Side -> [Prices -> Seq(Ids)]]
  BY DEF Book
<1>6. /\ fifo[s][p] = Append(b.fifo[s][p], id)
      /\ \A x \in Side, y \in Prices : x # s \/ y # p => fifo[x][y] = b.fifo[x][y]
  BY <1>5, QueueUpdate DEF fifo
<1> QED
  BY <1>3, <1>4, <1>6 DEF Enqueued

-----------------------------------------------------------------------------
(* The queues of a book, without the record around them. *)
LEMMA Queues ==
  ASSUME NEW b \in Book, NEW s \in Side, NEW p \in Prices
  PROVE  b.fifo[s][p] \in Seq(Ids) /\ b.tree[s] \in SUBSET Prices /\ IsFiniteSet(b.tree[s])
<1>1. b.fifo[s][p] \in Seq(Ids) /\ b.tree[s] \in SUBSET Prices
  BY DEF Book
<1> QED
  BY <1>1, FS_Subset, BookAssumption DEF BookAssumption

(* Taking one of the orders off its level keeps the book sound without it. *)
LEMMA DetachSound ==
  ASSUME NEW b \in Book, NEW P, NEW L, Sound(P, L, b),
         NEW id \in L, NEW s \in Side, NEW p \in Prices, NEW n \in Int,
         P[id].side = s, P[id].price = p,
         \A j \in L : P[j].side \in Side /\ P[j].price \in Prices /\ P[j].ts_update \in Nat
  PROVE  /\ Detach(b, s, p, id, n) \in Book
         /\ Sound(P, L \ {id}, Detach(b, s, p, id, n))
         /\ \A x \in Side : Detach(b, s, p, id, n).level_count[x] <= b.level_count[x]
<1> DEFINE q == b.fifo[s][p]
           u == Unlink(q, id)
           m == level_dequeue(b, s, p, id, n)
           d == Detach(b, s, p, id, n)
<1>1. q \in Seq(Ids) /\ Len(q) \in Nat
  BY Queues
<1>2. PICK k \in 1..Len(q) : q[k] = id
  BY DEF Sound, Linked
<1>3. \A i \in 1..Len(q) : q[i] \in L /\ P[q[i]].side = s /\ P[q[i]].price = p
  BY DEF Sound, Linked
<1>4. \A i, j \in 1..Len(q) : i < j => P[q[i]].ts_update < P[q[j]].ts_update
  BY DEF Sound, InTime
<1>5. \A i \in 1..Len(q) : q[i] = id => i = k
  <2> SUFFICES ASSUME NEW i \in 1..Len(q), q[i] = id, i # k PROVE FALSE
    OBVIOUS
  <2>1. i < k \/ k < i
    BY <1>1
  <2>2. P[id].ts_update < P[id].ts_update
    BY <1>2, <1>4, <2>1
  <2> QED
    BY <2>2
<1>6. /\ u \in Seq(Ids)
      /\ Len(u) = Len(q) - 1
      /\ \A i \in 1..(Len(q) - 1) : u[i] = IF i < k THEN q[i] ELSE q[i + 1]
  <2> HIDE DEF q
  <2> QED
    BY <1>1, <1>2, <1>5, UnlinkRemoves
<1>7. /\ m \in Book
      /\ m.tree = b.tree /\ m.level_count = b.level_count
      /\ m.level_free_top = b.level_free_top
      /\ m.fifo[s][p] = u
      /\ \A x \in Side, y \in Prices : x # s \/ y # p => m.fifo[x][y] = b.fifo[x][y]
  <2>1. Unlink(b.fifo[s][p], id) \in Seq(Ids)
    BY <1>6
  <2> HIDE DEF m
  <2>2. m = level_dequeue(b, s, p, id, n)
    BY DEF m
  <2> QED
    BY <2>1, <2>2, DequeueFields
<1>8. d = IF u = <<>> THEN level_delete(m, s, p) ELSE m
  BY <1>7 DEF Detach
<1>9. Linked(P, L, b) /\ InTree(b) /\ InTime(P, b) /\ Counted(b)
  BY DEF Sound
<1> HIDE DEF q, u, m, d
<1>10. q = b.fifo[s][p]
  BY DEF q
<1>11. Linked(P, L \ {id}, m)
  <2>1. ASSUME NEW j \in L \ {id}
        PROVE  \E i \in 1..Len(m.fifo[P[j].side][P[j].price]) : m.fifo[P[j].side][P[j].price][i] = j
    <3>1. PICK i \in 1..Len(b.fifo[P[j].side][P[j].price]) : b.fifo[P[j].side][P[j].price][i] = j
      BY <1>9 DEF Linked
    <3>2. CASE P[j].side = s /\ P[j].price = p
      <4>1. i \in 1..Len(q) /\ q[i] = j /\ i # k
        BY <1>2, <1>10, <3>1, <3>2
      <4>2. CASE i < k
        <5>1. i \in 1..(Len(q) - 1) /\ u[i] = j
          BY <1>1, <1>6, <4>1, <4>2
        <5> QED
          BY <1>6, <1>7, <3>2, <5>1
      <4>3. CASE k < i
        <5>1. i - 1 \in 1..(Len(q) - 1) /\ ~(i - 1 < k) /\ (i - 1) + 1 = i
          BY <1>1, <4>1, <4>3
        <5>2. u[i - 1] = j
          BY <1>6, <4>1, <5>1
        <5> QED
          BY <1>6, <1>7, <3>2, <5>1, <5>2
      <4> QED
        BY <1>1, <4>1, <4>2, <4>3
    <3>3. CASE ~(P[j].side = s /\ P[j].price = p)
      BY <1>7, <3>1, <3>3
    <3> QED
      BY <3>2, <3>3
  <2>2. ASSUME NEW x \in Side, NEW y \in Prices, NEW i \in 1..Len(m.fifo[x][y])
        PROVE  /\ m.fifo[x][y][i] \in L \ {id}
               /\ P[m.fifo[x][y][i]].side = x
               /\ P[m.fifo[x][y][i]].price = y
    <3>1. CASE x = s /\ y = p
      <4>1. i \in 1..(Len(q) - 1) /\ m.fifo[x][y][i] = u[i]
        BY <1>6, <1>7, <3>1
      <4>2. \E j \in 1..Len(q) : j # k /\ u[i] = q[j]
        BY <1>1, <1>6, <4>1
      <4> QED
        BY <1>3, <1>5, <3>1, <4>1, <4>2
    <3>2. CASE x # s \/ y # p
      <4>1. i \in 1..Len(b.fifo[x][y]) /\ m.fifo[x][y][i] = b.fifo[x][y][i]
        BY <1>7, <3>2
      <4>2. b.fifo[x][y][i] \in L /\ P[b.fifo[x][y][i]].side = x /\ P[b.fifo[x][y][i]].price = y
        BY <1>9, <4>1 DEF Linked
      <4> QED
        BY <3>2, <4>1, <4>2
    <3> QED
      BY <3>1, <3>2
  <2> QED
    BY <2>1, <2>2 DEF Linked
<1>12. InTime(P, m)
  <2> SUFFICES ASSUME NEW x \in Side, NEW y \in Prices,
                      NEW i \in 1..Len(m.fifo[x][y]), NEW j \in 1..Len(m.fifo[x][y]), i < j
               PROVE  P[m.fifo[x][y][i]].ts_update < P[m.fifo[x][y][j]].ts_update
    BY DEF InTime
  <2>1. CASE x = s /\ y = p
    <3>1. i \in 1..(Len(q) - 1) /\ j \in 1..(Len(q) - 1)
      BY <1>6, <1>7, <2>1
    <3>2. \E i2, j2 \in 1..Len(q) : i2 < j2 /\ u[i] = q[i2] /\ u[j] = q[j2]
      <4>1. PICK i2 \in 1..Len(q) : i2 = (IF i < k THEN i ELSE i + 1) /\ u[i] = q[i2]
        <5>1. u[i] = IF i < k THEN q[i] ELSE q[i + 1]
          BY <1>6, <3>1
        <5>2. CASE i < k
          BY <1>1, <3>1, <5>1, <5>2
        <5>3. CASE ~(i < k)
          BY <1>1, <3>1, <5>1, <5>3
        <5> QED
          BY <5>2, <5>3
      <4>2. PICK j2 \in 1..Len(q) : j2 = (IF j < k THEN j ELSE j + 1) /\ u[j] = q[j2]
        <5>1. u[j] = IF j < k THEN q[j] ELSE q[j + 1]
          BY <1>6, <3>1
        <5>2. CASE j < k
          BY <1>1, <3>1, <5>1, <5>2
        <5>3. CASE ~(j < k)
          BY <1>1, <3>1, <5>1, <5>3
        <5> QED
          BY <5>2, <5>3
      <4>3. i2 < j2
        BY <3>1, <4>1, <4>2
      <4> QED
        BY <4>1, <4>2, <4>3
    <3> QED
      BY <1>4, <1>7, <2>1, <3>2
  <2>2. CASE x # s \/ y # p
    BY <1>7, <1>9, <2>2 DEF InTime
  <2> QED
    BY <2>1, <2>2
<1>13. CASE u = <<>>
  <2>1. /\ d \in Book
        /\ d.tree[s] = b.tree[s] \ {p}
        /\ d.level_count[s] = b.level_count[s] - 1
        /\ \A x \in Side : x # s => d.tree[x] = b.tree[x] /\ d.level_count[x] = b.level_count[x]
        /\ d.level_free_top = b.level_free_top + 1
        /\ d.fifo = m.fifo
    <3>1. m \in Book /\ d = level_delete(m, s, p)
      BY <1>7, <1>8, <1>13
    <3> HIDE DEF d
    <3>2. /\ d \in Book
          /\ d.tree[s] = m.tree[s] \ {p}
          /\ d.level_count[s] = m.level_count[s] - 1
          /\ \A x \in Side : x # s => d.tree[x] = m.tree[x] /\ d.level_count[x] = m.level_count[x]
          /\ d.level_free_top = m.level_free_top + 1
          /\ d.fifo = m.fifo
      BY <3>1, DeleteFields
    <3> QED
      BY <1>7, <3>2, Zenon
  <2>2. Linked(P, L \ {id}, d) /\ InTime(P, d)
    BY <1>11, <1>12, <2>1 DEF Linked, InTime
  <2>3. InTree(d)
    <3>1. d.fifo[s][p] = <<>> /\ p \notin d.tree[s]
      BY <1>7, <1>13, <2>1
    <3>2. \A x \in Side, y \in Prices : x # s \/ y # p => d.fifo[x][y] = b.fifo[x][y]
      BY <1>7, <2>1
    <3>3. \A x \in Side, y \in Prices : x # s \/ y # p => (y \in d.tree[x] <=> y \in b.tree[x])
      BY <2>1
    <3> QED
      BY <1>9, <3>1, <3>2, <3>3 DEF InTree
  <2>4. Counted(d)
    <3>1. p \in b.tree[s]
      BY <1>1, <1>2, <1>9, <1>10 DEF InTree
    <3>2. Cardinality(b.tree[s] \ {p}) = Cardinality(b.tree[s]) - 1
      <4>1. IsFiniteSet(b.tree[s])
        BY Queues
      <4> QED
        BY <3>1, <4>1, FS_RemoveElement, Zenon
    <3>3. \A x \in Side : d.level_count[x] = Cardinality(d.tree[x])
      <4> TAKE x \in Side
      <4>1. b.level_count[x] = Cardinality(b.tree[x])
        BY <1>9 DEF Counted
      <4>2. CASE x = s
        BY <2>1, <3>2, <4>1, <4>2
      <4>3. CASE x # s
        <5>1. d.tree[x] = b.tree[x] /\ d.level_count[x] = b.level_count[x]
          BY <2>1, <4>3
        <5>2. b.level_count[x] \in Int
          BY DEF Book
        <5> QED
          BY <4>1, <5>1, <5>2
      <4> QED
        BY <4>2, <4>3
    <3>4. d.level_free_top + d.level_count["BID"] + d.level_count["ASK"] = 2 * OB_MAX_LEVELS
      <4> DEFINE bids == b.level_count["BID"]
                 asks == b.level_count["ASK"]
                 dbids == d.level_count["BID"]
                 dasks == d.level_count["ASK"]
      <4>1. b.level_count \in [Side -> Int] /\ b.level_free_top \in Int
        BY DEF Book
      <4>2. bids \in Int /\ asks \in Int /\ dbids \in Int /\ dasks \in Int
        BY <2>1, <4>1 DEF Side
      <4>3. dbids + dasks = bids + asks - 1
        BY <2>1, <4>1 DEF Side
      <4>4. b.level_free_top + bids + asks = 2 * OB_MAX_LEVELS
        BY <1>9 DEF Counted
      <4>5. d.level_free_top = b.level_free_top + 1
        BY <2>1
      <4> HIDE DEF bids, asks, dbids, dasks
      <4>6. d.level_free_top + dbids + dasks = 2 * OB_MAX_LEVELS
        BY <4>1, <4>2, <4>3, <4>4, <4>5
      <4> QED
        BY <4>6 DEF dbids, dasks
    <3> QED
      BY <3>3, <3>4 DEF Counted
  <2>5. \A x \in Side : d.level_count[x] <= b.level_count[x]
    <3>1. b.level_count \in [Side -> Int]
      BY DEF Book
    <3> QED
      BY <2>1, <3>1
  <2> QED
    BY <2>1, <2>2, <2>3, <2>4, <2>5 DEF Sound, d
<1>14. CASE u # <<>>
  <2>1. d = m
    BY <1>8, <1>14
  <2>2. InTree(m)
    <3>1. p \in m.tree[s]
      BY <1>1, <1>2, <1>7, <1>9, <1>10 DEF InTree
    <3> QED
      BY <1>7, <1>9, <1>14, <3>1 DEF InTree
  <2>3. Counted(m)
    BY <1>7, <1>9 DEF Counted
  <2>4. \A x \in Side : m.level_count[x] <= b.level_count[x]
    BY <1>7 DEF Book
  <2> QED
    BY <1>7, <1>11, <1>12, <2>1, <2>2, <2>3, <2>4 DEF Sound, d
<1> QED
  BY <1>13, <1>14

(* Putting an order that came later than all others on its level keeps the *)
(* book sound with it.                                                     *)
LEMMA AttachSound ==
  ASSUME NEW b \in Book, NEW P, NEW L, Sound(P, L, b),
         NEW id \in Ids, id \notin L, NEW s \in Side, NEW p \in Prices, NEW n \in Int,
         P[id].side = s, P[id].price = p,
         \A j \in L : P[j].side \in Side /\ P[j].price \in Prices
                      /\ P[j].ts_update < P[id].ts_update
  PROVE  /\ Attach(b, s, p, id, n) \in Book
         /\ Sound(P, L \cup {id}, Attach(b, s, p, id, n))
<1> DEFINE q == b.fifo[s][p]
           c == IF p \in b.tree[s] THEN b ELSE level_create(b, s, p)
           a == Attach(b, s, p, id, n)
<1>1. q \in Seq(Ids) /\ Len(q) \in Nat
  BY Queues
<1>2. Linked(P, L, b) /\ InTree(b) /\ InTime(P, b) /\ Counted(b)
  BY DEF Sound
<1>3. /\ c \in Book
      /\ c.fifo = b.fifo
      /\ c.tree[s] = b.tree[s] \cup {p}
      /\ \A x \in Side : x # s => c.tree[x] = b.tree[x] /\ c.level_count[x] = b.level_count[x]
      /\ c.level_count[s] = IF NeedsLevel(b, s, p) THEN b.level_count[s] + 1 ELSE b.level_count[s]
      /\ c.level_free_top = IF NeedsLevel(b, s, p) THEN b.level_free_top - 1 ELSE b.level_free_top
  <2>1. CASE p \in b.tree[s]
    BY <2>1 DEF NeedsLevel
  <2>2. CASE p \notin b.tree[s]
    <3>1. b.fifo[s][p] = <<>>
      BY <1>2, <2>2 DEF InTree
    <3>2. c = level_create(b, s, p) /\ NeedsLevel(b, s, p)
      BY <2>2 DEF NeedsLevel
    <3> HIDE DEF c
    <3> QED
      BY <3>1, <3>2, CreateFields
  <2> QED
    BY <2>1, <2>2
<1>4. a = level_enqueue(c, s, p, id, n)
  BY DEF Attach
<1> HIDE DEF c, a
<1>5. /\ a \in Book
      /\ a.tree = c.tree /\ a.level_count = c.level_count
      /\ a.level_free_top = c.level_free_top
      /\ a.fifo[s][p] = Append(q, id)
      /\ \A x \in Side, y \in Prices : x # s \/ y # p => a.fifo[x][y] = b.fifo[x][y]
  <2>1. /\ a \in Book
        /\ a.tree = c.tree /\ a.level_count = c.level_count
        /\ a.level_free_top = c.level_free_top
        /\ a.fifo[s][p] = Append(c.fifo[s][p], id)
        /\ \A x \in Side, y \in Prices : x # s \/ y # p => a.fifo[x][y] = c.fifo[x][y]
    <3>1. c \in Book
      BY <1>3
    <3>2. Enqueued(c, s, p, id, a)
      BY <1>4, <3>1, EnqueueFields
    <3> QED
      BY <3>2 DEF Enqueued
  <2> QED
    BY <1>3, <2>1
<1>6. /\ Len(Append(q, id)) = Len(q) + 1
      /\ \A i \in 1..Len(q) : Append(q, id)[i] = q[i]
      /\ Append(q, id)[Len(q) + 1] = id
  <2> HIDE DEF q
  <2> QED
    BY <1>1
<1> HIDE DEF q
<1>7. q = b.fifo[s][p]
  BY DEF q
<1>8. Linked(P, L \cup {id}, a)
  <2>1. ASSUME NEW j \in L \cup {id}
        PROVE  \E i \in 1..Len(a.fifo[P[j].side][P[j].price]) : a.fifo[P[j].side][P[j].price][i] = j
    <3>1. CASE j = id
      BY <1>5, <1>6, <3>1
    <3>2. CASE j \in L
      <4>1. PICK i \in 1..Len(b.fifo[P[j].side][P[j].price]) : b.fifo[P[j].side][P[j].price][i] = j
        BY <1>2, <3>2 DEF Linked
      <4>2. CASE P[j].side = s /\ P[j].price = p
        <5>1. i \in 1..Len(Append(q, id)) /\ Append(q, id)[i] = j
          BY <1>1, <1>6, <1>7, <4>1, <4>2
        <5> QED
          BY <1>5, <1>7, <4>2, <5>1
      <4>3. CASE ~(P[j].side = s /\ P[j].price = p)
        BY <1>5, <4>1, <4>3
      <4> QED
        BY <4>2, <4>3
    <3> QED
      BY <3>1, <3>2
  <2>2. ASSUME NEW x \in Side, NEW y \in Prices, NEW i \in 1..Len(a.fifo[x][y])
        PROVE  /\ a.fifo[x][y][i] \in L \cup {id}
               /\ P[a.fifo[x][y][i]].side = x
               /\ P[a.fifo[x][y][i]].price = y
    <3>1. CASE x = s /\ y = p
      <4>1. CASE i = Len(q) + 1
        BY <1>5, <1>6, <1>7, <3>1, <4>1
      <4>2. CASE i # Len(q) + 1
        <5>1. i \in 1..Len(q) /\ a.fifo[x][y][i] = q[i]
          BY <1>1, <1>5, <1>6, <3>1, <4>2
        <5> QED
          BY <1>2, <1>7, <3>1, <5>1 DEF Linked
      <4> QED
        BY <4>1, <4>2
    <3>2. CASE x # s \/ y # p
      <4>1. i \in 1..Len(b.fifo[x][y]) /\ a.fifo[x][y][i] = b.fifo[x][y][i]
        BY <1>5, <3>2
      <4> QED
        BY <1>2, <4>1 DEF Linked
    <3> QED
      BY <3>1, <3>2
  <2> QED
    BY <2>1, <2>2 DEF Linked
<1>9. InTime(P, a)
  <2> SUFFICES ASSUME NEW x \in Side, NEW y \in Prices,
                      NEW i \in 1..Len(a.fifo[x][y]), NEW j \in 1..Len(a.fifo[x][y]), i < j
               PROVE  P[a.fifo[x][y][i]].ts_update < P[a.fifo[x][y][j]].ts_update
    BY DEF InTime
  <2>1. CASE x = s /\ y = p
    <3>1. i \in 1..Len(q) /\ a.fifo[x][y][i] = q[i] /\ q[i] \in L
      <4>1. i \in 1..Len(q)
        BY <1>1, <1>5, <1>6, <2>1
      <4>2. a.fifo[x][y][i] = q[i]
        BY <1>5, <1>6, <2>1, <4>1
      <4>3. q[i] \in L
        BY <1>2, <1>7, <4>1 DEF Linked
      <4> QED
        BY <4>1, <4>2, <4>3
    <3>2. CASE j = Len(q) + 1
      BY <1>5, <1>6, <2>1, <3>1, <3>2
    <3>3. CASE j # Len(q) + 1
      <4>1. j \in 1..Len(q) /\ a.fifo[x][y][j] = q[j]
        BY <1>1, <1>5, <1>6, <2>1, <3>3
      <4> QED
        BY <1>2, <1>7, <2>1, <3>1, <4>1 DEF InTime
    <3> QED
      BY <3>2, <3>3
  <2>2. CASE x # s \/ y # p
    BY <1>2, <1>5, <2>2 DEF InTime
  <2> QED
    BY <2>1, <2>2
<1>10. InTree(a)
  <2>1. a.fifo[s][p] # <<>> /\ p \in a.tree[s]
    BY <1>1, <1>3, <1>5, <1>6
  <2>2. \A x \in Side, y \in Prices : x # s \/ y # p => (y \in a.tree[x] <=> y \in b.tree[x])
    BY <1>3, <1>5
  <2> QED
    BY <1>2, <1>5, <2>1, <2>2 DEF InTree
<1>11. Counted(a)
  <2>1. \A x \in Side : a.level_count[x] = Cardinality(a.tree[x])
    <3>1. \A x \in Side : b.level_count[x] = Cardinality(b.tree[x])
      BY <1>2 DEF Counted
    <3>2. a.level_count[s] = Cardinality(a.tree[s])
      <4>1. Cardinality(b.tree[s] \cup {p}) =
              IF p \in b.tree[s] THEN Cardinality(b.tree[s]) ELSE Cardinality(b.tree[s]) + 1
        BY Queues, FS_AddElement
      <4> QED
        BY <1>3, <1>5, <3>1, <4>1 DEF NeedsLevel
    <3> QED
      BY <1>3, <1>5, <3>1, <3>2
  <2>2. a.level_free_top + a.level_count["BID"] + a.level_count["ASK"] = 2 * OB_MAX_LEVELS
    <3> DEFINE bids == b.level_count["BID"]
               asks == b.level_count["ASK"]
               abids == a.level_count["BID"]
               aasks == a.level_count["ASK"]
               one == IF NeedsLevel(b, s, p) THEN 1 ELSE 0
    <3>1. b.level_count \in [Side -> Int] /\ b.level_free_top \in Int
      BY DEF Book
    <3>2. bids \in Int /\ asks \in Int /\ abids \in Int /\ aasks \in Int
      BY <1>3, <1>5, <3>1 DEF Side
    <3>3. abids + aasks = bids + asks + one
      <4>1. CASE NeedsLevel(b, s, p)
        BY <1>3, <1>5, <3>1, <4>1 DEF Side
      <4>2. CASE ~NeedsLevel(b, s, p)
        BY <1>3, <1>5, <3>1, <4>2 DEF Side
      <4> QED
        BY <4>1, <4>2
    <3>4. b.level_free_top + bids + asks = 2 * OB_MAX_LEVELS
      BY <1>2 DEF Counted
    <3>5. a.level_free_top = b.level_free_top - one /\ one \in Int
      BY <1>3, <1>5, <3>1
    <3> HIDE DEF bids, asks, abids, aasks, one
    <3>6. a.level_free_top + abids + aasks = 2 * OB_MAX_LEVELS
      BY <3>1, <3>2, <3>3, <3>4, <3>5
    <3> QED
      BY <3>6 DEF abids, aasks
  <2> QED
    BY <2>1, <2>2 DEF Counted
<1> QED
  BY <1>3, <1>5, <1>8, <1>9, <1>10, <1>11 DEF Sound, a

(* Soundness of a book is about the side, price and time of its orders.    *)
LEMMA SoundDependsOn ==
  ASSUME NEW b \in Book, NEW P, NEW Q, NEW L, Sound(P, L, b),
         \A j \in L : /\ Q[j].side = P[j].side /\ Q[j].price = P[j].price
                      /\ Q[j].ts_update = P[j].ts_update
  PROVE  Sound(Q, L, b)
<1>1. Linked(Q, L, b)
  <2>1. Linked(P, L, b)
    BY DEF Sound
  <2>2. \A j \in L : \E i \in 1..Len(b.fifo[Q[j].side][Q[j].price]) :
                      b.fifo[Q[j].side][Q[j].price][i] = j
    <3> SUFFICES ASSUME NEW j \in L
                 PROVE  \E i \in 1..Len(b.fifo[Q[j].side][Q[j].price]) :
                           b.fifo[Q[j].side][Q[j].price][i] = j
      OBVIOUS
    <3>1. \E i \in 1..Len(b.fifo[P[j].side][P[j].price]) : b.fifo[P[j].side][P[j].price][i] = j
      BY <2>1 DEF Linked
    <3> QED
      BY <3>1
  <2>3. ASSUME NEW x \in Side, NEW y \in Prices, NEW i \in 1..Len(b.fifo[x][y])
        PROVE  /\ b.fifo[x][y][i] \in L
               /\ Q[b.fifo[x][y][i]].side = x
               /\ Q[b.fifo[x][y][i]].price = y
    <3>1. /\ b.fifo[x][y][i] \in L
          /\ P[b.fifo[x][y][i]].side = x
          /\ P[b.fifo[x][y][i]].price = y
      BY <2>1 DEF Linked
    <3> QED
      BY <3>1
  <2> QED
    BY <2>2, <2>3 DEF Linked
<1>2. InTime(Q, b)
  <2> SUFFICES ASSUME NEW x \in Side, NEW y \in Prices,
                      NEW i \in 1..Len(b.fifo[x][y]), NEW j \in 1..Len(b.fifo[x][y]), i < j
               PROVE  Q[b.fifo[x][y][i]].ts_update < Q[b.fifo[x][y][j]].ts_update
    BY DEF InTime
  <2>1. b.fifo[x][y][i] \in L /\ b.fifo[x][y][j] \in L
    BY DEF Sound, Linked
  <2> QED
    BY <2>1 DEF Sound, InTime
<1> QED
  BY <1>1, <1>2 DEF Sound

-----------------------------------------------------------------------------
(* The ids are bounded, so every set of them has a cardinality. *)
LEMMA IdsFinite == \A S \in SUBSET Ids : IsFiniteSet(S)
<1>1. 1 \in Int /\ MAX_ID \in Int
  BY BookAssumption DEF BookAssumption
<1>2. IsFiniteSet(Ids)
  BY <1>1, FS_Interval DEF Ids
<1> QED
  BY <1>2, FS_Subset

(* An order put into a free slot joins the pool. *)
LEMMA PoolPut ==
  ASSUME NEW P, P \in [DOMAIN P -> Order], NEW i, NEW v \in Order, NEW Q, Q = Put(P, i, v)
  PROVE  DOMAIN Q = DOMAIN P \cup {i} /\ Q \in [DOMAIN Q -> Order]
  BY DEF Put

(* A fill changes the quantity of one order and nothing else of the pool. *)
LEMMA PoolFill ==
  ASSUME NEW P, P \in [DOMAIN P -> Order], NEW i \in DOMAIN P, NEW n \in Nat,
         NEW Q, Q = [P EXCEPT ![i].qty_remain = n]
  PROVE  /\ DOMAIN Q = DOMAIN P
         /\ Q \in [DOMAIN Q -> Order]
         /\ \A j \in DOMAIN P : /\ Q[j].side = P[j].side /\ Q[j].price = P[j].price
                               /\ Q[j].ts_update = P[j].ts_update
                               /\ Q[j].ts_submit = P[j].ts_submit
         /\ \A j \in DOMAIN P : j # i => Q[j] = P[j]
<1>1. Q = [P EXCEPT ![i] = [P[i] EXCEPT !.qty_remain = n]]
  OBVIOUS
<1>2. P[i] \in Order
  OBVIOUS
<1>3. [P[i] EXCEPT !.qty_remain = n] \in Order
  BY <1>2, Zenon DEF Order
<1>4. /\ [P[i] EXCEPT !.qty_remain = n].side = P[i].side
      /\ [P[i] EXCEPT !.qty_remain = n].price = P[i].price
      /\ [P[i] EXCEPT !.qty_remain = n].ts_update = P[i].ts_update
      /\ [P[i] EXCEPT !.qty_remain = n].ts_submit = P[i].ts_submit
  BY <1>2 DEF Order
<1> QED
  BY <1>1, <1>3, <1>4

-----------------------------------------------------------------------------
(* The inductive invariant.  IndexesAgree alone is not inductive: that an  *)
(* order is not twice in a queue follows from the queues' time order, and  *)
(* that the next order is later than all of its level from its timestamps  *)
(* being the latest there are.                                             *)

OrdersInThePast ==
  /\ \A id \in DOMAIN pool : id < next_order_id /\ pool[id].ts_update <= now
  /\ ~Idle => \A id \in lookup : pool[id].ts_update < pool[agg].ts_update

PoolCounted == order_free_top + Cardinality(DOMAIN pool) = OB_MAX_ORDERS

LevelsBounded == \A s \in Side : book.level_count[s] <= OB_MAX_LEVELS

IInv ==
  /\ TypeOK
  /\ lookup = DOMAIN pool \ {agg}
  /\ Sound(pool, lookup, book)
  /\ OrdersInThePast
  /\ PoolCounted
  /\ LevelsBounded

(* An empty book satisfies the invariant. *)
LEMMA IInvInit == Init => IInv
<1> SUFFICES ASSUME Init PROVE IInv
  OBVIOUS
<1>1. DOMAIN pool = {} /\ lookup = {} /\ agg = 0
  BY DEF Init
<1>2. /\ \A s \in Side : book.tree[s] = {} /\ book.level_count[s] = 0
      /\ \A s \in Side, p \in Prices : book.fifo[s][p] = <<>>
      /\ book.level_free_top = 2 * OB_MAX_LEVELS
  BY DEF Init
<1>3. book \in Book
  <2>1. /\ [s \in Side |-> {}] \in [Side -> SUBSET Prices]
        /\ [s \in Side |-> [p \in Prices |-> <<>>]] \in [Side -> [Prices -> Seq(Ids)]]
        /\ [s \in Side |-> [p \in Prices |-> 0]] \in [Side -> [Prices -> Int]]
        /\ [s \in Side |-> 0] \in [Side -> Int]
        /\ 2 * OB_MAX_LEVELS \in Int
    BY BookAssumption DEF BookAssumption
  <2> QED
    BY <2>1 DEF Init, Book
<1>4. TypeOK
  <2>1. ret \in [op : {"init", "add", "cancel", "modify"},
                 status : {"none", "OK", "PARTIAL", "FILLED", "REJECTED", "NOT_FOUND"},
                 out_id : Ids \cup {0}]
    BY DEF Init, Ret
  <2> QED
    BY <1>1, <1>3, <2>1, BookAssumption DEF Init, TypeOK, BookAssumption
<1>5. Sound(pool, lookup, book)
  <2>1. Linked(pool, lookup, book) /\ InTree(book) /\ InTime(pool, book)
    BY <1>1, <1>2 DEF Linked, InTree, InTime
  <2>2. Counted(book)
    <3>1. \A s \in Side : book.level_count[s] = Cardinality(book.tree[s])
      BY <1>2, FS_EmptySet
    <3>2. book.level_count["BID"] = 0 /\ book.level_count["ASK"] = 0
      BY <1>2 DEF Side
    <3>3. 2 * OB_MAX_LEVELS \in Int
      BY BookAssumption DEF BookAssumption
    <3> QED
      BY <1>2, <3>1, <3>2, <3>3 DEF Counted
  <2> QED
    BY <2>1, <2>2 DEF Sound
<1>6. OrdersInThePast /\ PoolCounted /\ LevelsBounded
  BY <1>1, <1>2, FS_EmptySet, BookAssumption
     DEF Init, OrdersInThePast, PoolCounted, LevelsBounded, Idle, BookAssumption
<1> QED
  BY <1>1, <1>4, <1>5, <1>6 DEF IInv

(* What the invariant says of one resting order, and of the aggressor. *)
LEMMA RestingOrder ==
  ASSUME IInv, NEW id \in lookup
  PROVE  /\ id \in DOMAIN pool /\ id \in Ids /\ id # agg
         /\ pool[id] \in Order
         /\ pool[id].side \in Side /\ pool[id].price \in Prices
         /\ pool[id].qty_remain \in Nat /\ pool[id].ts_update \in Nat
<1>1. id \in DOMAIN pool /\ id \in Ids /\ id # agg /\ pool[id] \in Order
  BY DEF IInv, TypeOK
<1> QED
  BY <1>1 DEF Order

(* What is known of the aggressor while its call is in progress. *)
LEMMA Aggressor ==
  ASSUME IInv, ~Idle
  PROVE  /\ agg \in DOMAIN pool /\ agg \in Ids /\ agg \notin lookup
         /\ pool[agg] \in Order
         /\ pool[agg].side \in Side /\ pool[agg].price \in Prices
         /\ pool[agg].qty_remain \in Nat /\ pool[agg].ts_update \in Nat
         /\ Opp(pool[agg].side) \in Side
<1>1. agg \in DOMAIN pool /\ agg \in Ids /\ agg \notin lookup /\ pool[agg] \in Order
  BY DEF IInv, TypeOK, Idle
<1>2. /\ pool[agg].side \in Side /\ pool[agg].price \in Prices
      /\ pool[agg].qty_remain \in Nat /\ pool[agg].ts_update \in Nat
  BY <1>1 DEF Order
<1> QED
  BY <1>1, <1>2 DEF Opp, Side

(* The head of the best opposite level rests there. *)
LEMMA HeadRests ==
  ASSUME IInv, NEW p \in Prices, Matching(p),
         NEW o, o = Opp(pool[agg].side), NEW r, r = Head(book.fifo[o][p])
  PROVE  /\ ~Idle /\ o \in Side
         /\ r \in lookup /\ pool[r].side = o /\ pool[r].price = p
<1>1. ~Idle /\ p \in book.tree[o]
  BY DEF Matching, IsBest
<1>2. o \in Side
  BY <1>1, Aggressor
<1>3. book.fifo[o][p] # <<>> /\ book.fifo[o][p] \in Seq(Ids)
  <2>1. book \in Book
    BY DEF IInv, TypeOK
  <2> QED
    BY <1>1, <1>2, <2>1, Queues DEF IInv, Sound, InTree
<1>4. 1 \in 1..Len(book.fifo[o][p]) /\ r = book.fifo[o][p][1]
  BY <1>3
<1> QED
  BY <1>1, <1>2, <1>4 DEF IInv, Sound, Linked

(* An order leaves its level: what is left is sound. *)
LEMMA LeavesLevel ==
  ASSUME IInv, NEW id \in lookup, NEW n \in Int, NEW Q, NEW b,
         b = Detach(book, pool[id].side, pool[id].price, id, n),
         \A j \in lookup \ {id} : /\ Q[j].side = pool[j].side /\ Q[j].price = pool[j].price
                                 /\ Q[j].ts_update = pool[j].ts_update
  PROVE  /\ b \in Book
         /\ Sound(Q, lookup \ {id}, b)
         /\ \A s \in Side : b.level_count[s] <= OB_MAX_LEVELS
<1>1. book \in Book /\ Sound(pool, lookup, book)
  BY DEF IInv, TypeOK
<1>2. \A j \in lookup : /\ pool[j].side \in Side /\ pool[j].price \in Prices
                         /\ pool[j].ts_update \in Nat
  BY RestingOrder
<1>3. /\ b \in Book
      /\ Sound(pool, lookup \ {id}, b)
      /\ \A s \in Side : b.level_count[s] <= book.level_count[s]
  BY <1>1, <1>2, DetachSound
<1>4. Sound(Q, lookup \ {id}, b)
  BY <1>3, SoundDependsOn
<1>5. \A s \in Side : b.level_count[s] <= OB_MAX_LEVELS
  <2> TAKE s \in Side
  <2>1. b.level_count[s] \in Int /\ book.level_count[s] \in Int
    BY <1>1, <1>3 DEF Book
  <2>2. book.level_count[s] <= OB_MAX_LEVELS
    BY DEF IInv, LevelsBounded
  <2> QED
    BY <1>3, <2>1, <2>2, BookAssumption DEF BookAssumption
<1> QED
  BY <1>3, <1>4, <1>5

(* What a call may return. *)
Results == [op : {"init", "add", "cancel", "modify"},
            status : {"none", "OK", "PARTIAL", "FILLED", "REJECTED", "NOT_FOUND"},
            out_id : Ids \cup {0}]

(* Every call returns one of the declared results. *)
LEMMA ReturnsResult ==
  ASSUME NEW op \in {"init", "add", "cancel", "modify"},
         NEW st \in {"none", "OK", "PARTIAL", "FILLED", "REJECTED", "NOT_FOUND"},
         NEW id \in Ids \cup {0}
  PROVE  Ret(op, st, id) \in Results
  BY DEF Ret, Results

(* A call that changes nothing but its result keeps the invariant. *)
LEMMA OnlyReturns ==
  ASSUME IInv,
         UNCHANGED <<pool, order_free_top, lookup, book, next_order_id, now, agg, mc>>,
         ret' \in Results
  PROVE  IInv'
  BY DEF Results, IInv, TypeOK, Sound, Linked, InTree, InTime, Counted, OrdersInThePast, PoolCounted,
         LevelsBounded, Idle

(* A refused add changes no structure. *)
LEMMA AddRefusedStep ==
  ASSUME IInv, NEW valid, AddRefused(valid)
  PROVE  IInv'
  BY OnlyReturns DEF AddRefused, Ret, Results

(* Cancelling an unknown id changes no structure. *)
LEMMA CancelUnknownStep ==
  ASSUME IInv, NEW id, CancelUnknown(id)
  PROVE  IInv'
  BY OnlyReturns DEF CancelUnknown, Ret, Results

(* A refused modification changes no structure. *)
LEMMA ModifyRefusedStep ==
  ASSUME IInv, NEW id, NEW valid, ModifyRefused(id, valid)
  PROVE  IInv'
  BY OnlyReturns DEF ModifyRefused, Ret, Results

(* The aggressor takes a slot but is neither in the lookup nor in a queue yet. *)
LEMMA AddEnterStep ==
  ASSUME IInv, NEW s \in Side, NEW p \in Prices, NEW q \in Qtys, AddEnter(s, p, q)
  PROVE  IInv'
<1> DEFINE v == [side |-> s, price |-> p, qty_remain |-> q,
                 ts_submit |-> now + 1, ts_update |-> now + 1]
<1>1. /\ pool \in [DOMAIN pool -> Order] /\ DOMAIN pool \subseteq Ids
      /\ now \in Nat /\ next_order_id \in Ids /\ order_free_top \in Int
  BY BookAssumption DEF IInv, TypeOK, AddEnter, Ids, BookAssumption
<1>2. next_order_id \notin DOMAIN pool
  BY <1>1 DEF IInv, OrdersInThePast, Ids
<1>3. v \in Order
  BY <1>1, BookAssumption DEF Order, BookAssumption
<1>4. pool' = Put(pool, next_order_id, v)
  BY DEF AddEnter
<1>5. v.ts_update = now + 1
  OBVIOUS
<1> HIDE DEF v
<1>6. /\ DOMAIN pool' = DOMAIN pool \cup {next_order_id}
      /\ pool' \in [DOMAIN pool' -> Order]
      /\ pool'[next_order_id] = v
      /\ \A j \in DOMAIN pool : pool'[j] = pool[j]
      /\ Cardinality(DOMAIN pool') = Cardinality(DOMAIN pool) + 1
      /\ Cardinality(DOMAIN pool) \in Nat
  <2>1. /\ DOMAIN pool' = DOMAIN pool \cup {next_order_id}
        /\ pool' \in [DOMAIN pool' -> Order]
    BY <1>1, <1>3, <1>4, PoolPut
  <2>2. pool'[next_order_id] = v
    BY <1>4 DEF Put
  <2>3. \A j \in DOMAIN pool : pool'[j] = pool[j]
    BY <1>2, <1>4 DEF Put
  <2>4. IsFiniteSet(DOMAIN pool)
    BY <1>1, IdsFinite
  <2>5. /\ Cardinality(DOMAIN pool') = Cardinality(DOMAIN pool) + 1
        /\ Cardinality(DOMAIN pool) \in Nat
    BY <1>2, <2>1, <2>4, FS_AddElement, FS_CardinalityType
  <2> QED
    BY <2>1, <2>2, <2>3, <2>5
<1>7. /\ agg = 0 /\ agg' = next_order_id /\ mc' = 0 /\ now' = now + 1
      /\ next_order_id' = next_order_id + 1 /\ order_free_top' = order_free_top - 1
      /\ lookup' = lookup /\ book' = book
      /\ ret' = Ret("add", "none", next_order_id)
  BY DEF AddEnter, Idle
<1>8. TypeOK'
  <2>1. ret' \in Results
    BY <1>1, <1>7, ReturnsResult
  <2>2. next_order_id' \in 1..(MAX_ID + 1)
    BY <1>1, <1>7, BookAssumption DEF Ids, BookAssumption
  <2> QED
    BY <1>1, <1>6, <1>7, <2>1, <2>2 DEF IInv, TypeOK, Results
<1>9. (lookup = DOMAIN pool \ {agg})'
  BY <1>1, <1>2, <1>6, <1>7 DEF IInv, Ids
<1>10. lookup \subseteq DOMAIN pool
  BY DEF IInv
<1>11. Sound(pool, lookup, book)'
  <2>1. book \in Book /\ Sound(pool, lookup, book)
    BY DEF IInv, TypeOK
  <2>2. \A j \in lookup : pool'[j] = pool[j]
    BY <1>6, <1>10
  <2>3. Sound(pool', lookup, book)
    BY <2>1, <2>2, SoundDependsOn
  <2> QED
    BY <1>7, <2>3
<1>12. OrdersInThePast'
  <2>1. \A j \in DOMAIN pool : j < next_order_id /\ pool[j].ts_update <= now
    BY DEF IInv, OrdersInThePast
  <2>2. \A j \in DOMAIN pool : j \in Nat /\ pool[j].ts_update \in Nat
    BY <1>1 DEF Order, Ids
  <2>3. ASSUME NEW j \in DOMAIN pool'
        PROVE  j < next_order_id + 1 /\ pool'[j].ts_update <= now + 1
    <3>1. CASE j = next_order_id
      BY <1>1, <1>5, <1>6, <3>1 DEF Ids
    <3>2. CASE j \in DOMAIN pool
      BY <1>1, <1>6, <2>1, <2>2, <3>2 DEF Ids
    <3> QED
      BY <1>6, <3>1, <3>2
  <2>4. ASSUME NEW j \in lookup
        PROVE  pool'[j].ts_update < pool'[next_order_id].ts_update
    BY <1>1, <1>5, <1>6, <1>10, <2>1, <2>2
  <2> QED
    BY <1>7, <2>3, <2>4 DEF OrdersInThePast
<1>13. PoolCounted' /\ LevelsBounded'
  BY <1>1, <1>6, <1>7, BookAssumption DEF IInv, PoolCounted, LevelsBounded, BookAssumption
<1> QED
  BY <1>8, <1>9, <1>11, <1>12, <1>13 DEF IInv

(* A fill that the resting order survives moves no order. *)
LEMMA FillAggressorStep ==
  ASSUME IInv, NEW p \in Prices, FillAggressor(p)
  PROVE  IInv'
<1> DEFINE o == Opp(pool[agg].side)
           r == Head(book.fifo[o][p])
           n == pool[agg].qty_remain
           P1 == [pool EXCEPT ![agg].qty_remain = 0]
<1>1. Matching(p) /\ n < pool[r].qty_remain
  BY DEF FillAggressor
<1>2. /\ ~Idle /\ o \in Side
      /\ r \in lookup /\ pool[r].side = o /\ pool[r].price = p
  BY <1>1, HeadRests
<1>3. /\ pool \in [DOMAIN pool -> Order] /\ book \in Book
      /\ agg \in DOMAIN pool /\ r \in DOMAIN pool /\ r # agg
      /\ n \in Nat /\ pool[r].qty_remain \in Nat
  BY <1>2, Aggressor, RestingOrder DEF IInv, TypeOK
<1>4. /\ book' = [book EXCEPT !.lvl_qty[o][p] = @ - n, !.side_qty[o] = @ - n]
      /\ pool' = [pool EXCEPT ![agg].qty_remain = 0, ![r].qty_remain = @ - n]
      /\ UNCHANGED <<order_free_top, lookup, next_order_id, now, agg, ret>>
      /\ mc' = IF mc < OB_MAX_ORDERS THEN mc + 1 ELSE mc
  BY DEF FillAggressor, RecordFill
<1> HIDE DEF o, r
<1>5. P1[r].qty_remain = pool[r].qty_remain
  BY <1>3
<1>6. pool' = [P1 EXCEPT ![r].qty_remain = pool[r].qty_remain - n]
  BY <1>3, <1>4, <1>5
<1> HIDE DEF n, P1
<1>7. /\ DOMAIN P1 = DOMAIN pool
      /\ P1 \in [DOMAIN P1 -> Order]
      /\ \A j \in DOMAIN pool : /\ P1[j].side = pool[j].side /\ P1[j].price = pool[j].price
                               /\ P1[j].ts_update = pool[j].ts_update
  <2>1. P1 = [pool EXCEPT ![agg].qty_remain = 0] /\ 0 \in Nat
    BY DEF P1
  <2>2. /\ DOMAIN P1 = DOMAIN pool
        /\ P1 \in [DOMAIN P1 -> Order]
    BY <1>3, <2>1, PoolFill
  <2>3. \A j \in DOMAIN pool : /\ P1[j].side = pool[j].side /\ P1[j].price = pool[j].price
                             /\ P1[j].ts_update = pool[j].ts_update
    BY <1>3, <2>1, PoolFill
  <2> QED
    BY <2>2, <2>3
<1>8. /\ DOMAIN pool' = DOMAIN pool
      /\ pool' \in [DOMAIN pool' -> Order]
      /\ \A j \in DOMAIN pool : /\ pool'[j].side = pool[j].side /\ pool'[j].price = pool[j].price
                               /\ pool'[j].ts_update = pool[j].ts_update
  <2>1. pool[r].qty_remain - n \in Nat
    BY <1>1, <1>3 DEF r, n, o
  <2>2. P1 \in [DOMAIN P1 -> Order] /\ r \in DOMAIN P1
    BY <1>3, <1>7
  <2>3. DOMAIN pool' = DOMAIN P1 /\ pool' \in [DOMAIN pool' -> Order]
    BY <1>6, <2>1, <2>2, PoolFill
  <2>4. \A j \in DOMAIN P1 : /\ pool'[j].side = P1[j].side /\ pool'[j].price = P1[j].price
                           /\ pool'[j].ts_update = P1[j].ts_update
    BY <1>6, <2>1, <2>2, PoolFill
  <2> QED
    BY <1>7, <2>3, <2>4
<1>9. /\ book' \in Book
      /\ book'.fifo = book.fifo /\ book'.tree = book.tree
      /\ book'.level_count = book.level_count /\ book'.level_free_top = book.level_free_top
  <2> DEFINE lvl_qty == [book.lvl_qty EXCEPT ![o][p] = @ - n]
             side_qty == [book.side_qty EXCEPT ![o] = @ - n]
  <2>1. lvl_qty \in [Side -> [Prices -> Int]] /\ side_qty \in [Side -> Int]
    BY <1>2, <1>3 DEF Book
  <2>2. book' = [book EXCEPT !.lvl_qty = lvl_qty, !.side_qty = side_qty]
    BY <1>4
  <2> HIDE DEF lvl_qty, side_qty
  <2>3. book' \in Book
    BY <1>3, <2>1, <2>2, Zenon DEF Book
  <2> QED
    BY <1>3, <2>2, <2>3 DEF Book
<1>10. lookup \subseteq DOMAIN pool
  BY DEF IInv
<1>11. TypeOK'
  <2>1. mc' \in Nat
    BY <1>4 DEF IInv, TypeOK
  <2> QED
    BY <1>4, <1>8, <1>9, <2>1 DEF IInv, TypeOK
<1>12. Sound(pool, lookup, book)'
  <2>1. Sound(pool', lookup, book)
    BY <1>3, <1>8, <1>10, SoundDependsOn DEF IInv
  <2>2. Sound(pool', lookup, book')
    <3>1. Linked(pool', lookup, book') /\ InTime(pool', book')
      BY <1>9, <2>1 DEF Sound, Linked, InTime
    <3>2. InTree(book') /\ Counted(book')
      BY <1>9, <2>1 DEF Sound, InTree, Counted
    <3> QED
      BY <3>1, <3>2 DEF Sound
  <2> QED
    BY <1>4, <2>2
<1>13. OrdersInThePast'
  BY <1>3, <1>4, <1>8, <1>10 DEF IInv, OrdersInThePast, Idle
<1>14. (lookup = DOMAIN pool \ {agg})' /\ PoolCounted' /\ LevelsBounded'
  BY <1>4, <1>8, <1>9 DEF IInv, PoolCounted, LevelsBounded
<1> QED
  BY <1>11, <1>12, <1>13, <1>14 DEF IInv

(* A resting order leaves the book for good, P being the pool before its   *)
(* slot is freed: after a complete fill, a cancel, or a lost modification. *)
LEMMA RemovalKeeps ==
  ASSUME IInv, NEW id \in lookup, NEW n \in Int,
         NEW P, DOMAIN P = DOMAIN pool, P \in [DOMAIN P -> Order],
         \A j \in DOMAIN pool : /\ P[j].side = pool[j].side /\ P[j].price = pool[j].price
                              /\ P[j].ts_update = pool[j].ts_update,
         pool' = Drop(P, id),
         book' = Detach(book, pool[id].side, pool[id].price, id, n),
         lookup' = lookup \ {id}, order_free_top' = order_free_top + 1,
         next_order_id' = next_order_id, agg' = agg,
         now' \in Nat, now <= now', mc' \in Nat, ret' \in Results
  PROVE  IInv'
<1>1. /\ id \in DOMAIN pool /\ id # agg /\ DOMAIN pool \subseteq Ids
      /\ lookup = DOMAIN pool \ {agg} /\ now \in Nat
  BY RestingOrder DEF IInv, TypeOK
<1>2. DOMAIN pool' = DOMAIN pool \ {id} /\ \A j \in DOMAIN pool' : pool'[j] = P[j]
  BY DEF Drop
<1>3. pool' \in [DOMAIN pool' -> Order]
  BY <1>2 DEF Drop
<1>4. \A j \in DOMAIN pool' : /\ pool'[j].side = pool[j].side /\ pool'[j].price = pool[j].price
                             /\ pool'[j].ts_update = pool[j].ts_update
  BY <1>2
<1>5. /\ book' \in Book
      /\ Sound(pool', lookup \ {id}, book')
      /\ \A s \in Side : book'.level_count[s] <= OB_MAX_LEVELS
  <2>1. \A j \in lookup \ {id} : /\ pool'[j].side = pool[j].side
                                /\ pool'[j].price = pool[j].price
                                /\ pool'[j].ts_update = pool[j].ts_update
    BY <1>1, <1>2, <1>4
  <2> QED
    BY <2>1, LeavesLevel
<1>6. TypeOK'
  BY <1>1, <1>2, <1>3, <1>5 DEF IInv, TypeOK, Results
<1>7. (lookup = DOMAIN pool \ {agg})'
  BY <1>1, <1>2
<1>8. Sound(pool, lookup, book)'
  BY <1>5
<1>9. OrdersInThePast'
  <2>1. \A j \in DOMAIN pool : pool[j].ts_update \in Nat
    BY DEF IInv, TypeOK, Order
  <2>2. ASSUME NEW j \in DOMAIN pool'
        PROVE  j < next_order_id /\ pool'[j].ts_update <= now'
    <3>1. j \in DOMAIN pool /\ pool'[j].ts_update = pool[j].ts_update
      BY <1>2, <1>4
    <3>2. j < next_order_id /\ pool[j].ts_update <= now
      BY <3>1 DEF IInv, OrdersInThePast
    <3> QED
      BY <1>1, <2>1, <3>1, <3>2
  <2>3. ASSUME ~Idle, NEW j \in lookup'
        PROVE  pool'[j].ts_update < pool'[agg].ts_update
    <3>1. agg \in DOMAIN pool' /\ j \in DOMAIN pool' /\ j \in lookup
      BY <1>1, <1>2, <2>3, Aggressor
    <3>2. pool[j].ts_update < pool[agg].ts_update
      BY <2>3, <3>1 DEF IInv, OrdersInThePast
    <3> QED
      BY <1>4, <3>1, <3>2
  <2> QED
    BY <2>2, <2>3 DEF OrdersInThePast, Idle
<1>10. PoolCounted'
  <2>1. IsFiniteSet(DOMAIN pool)
    BY <1>1, IdsFinite
  <2>2. /\ Cardinality(DOMAIN pool') = Cardinality(DOMAIN pool) - 1
        /\ Cardinality(DOMAIN pool) \in Nat
    <3>1. id \in DOMAIN pool /\ DOMAIN pool' = DOMAIN pool \ {id}
      BY <1>1, <1>2
    <3>2. Cardinality(DOMAIN pool \ {id}) = Cardinality(DOMAIN pool) - 1
      BY <2>1, <3>1, FS_RemoveElement, Zenon
    <3> QED
      BY <2>1, <3>1, <3>2, FS_CardinalityType
  <2> QED
    BY <2>2 DEF IInv, TypeOK, PoolCounted
<1>11. LevelsBounded'
  BY <1>5 DEF LevelsBounded
<1> QED
  BY <1>6, <1>7, <1>8, <1>9, <1>10, <1>11 DEF IInv

(* A cancelled order leaves every structure at once. *)
LEMMA CancelOrderStep ==
  ASSUME IInv, NEW id \in Ids, CancelOrder(id)
  PROVE  IInv'
<1>1. id \in lookup
  BY DEF CancelOrder
<1>2. pool[id].qty_remain \in Int
  BY <1>1, RestingOrder
<1>3. /\ pool' = Drop(pool, id)
      /\ book' = Detach(book, pool[id].side, pool[id].price, id, pool[id].qty_remain)
      /\ lookup' = lookup \ {id} /\ order_free_top' = order_free_top + 1
      /\ next_order_id' = next_order_id /\ agg' = agg /\ now' = now /\ mc' = mc
      /\ ret' = Ret("cancel", "OK", 0)
  BY DEF CancelOrder
<1>4. pool \in [DOMAIN pool -> Order] /\ now' \in Nat /\ now <= now' /\ mc' \in Nat
  BY <1>3 DEF IInv, TypeOK
<1>5. ret' \in Results
  BY <1>3, ReturnsResult
<1> QED
  BY <1>1, <1>2, <1>3, <1>4, <1>5, RemovalKeeps

(* An order the modification gives up leaves every structure at once. *)
LEMMA ModifyLosesStep ==
  ASSUME IInv, NEW id \in Ids, NEW p \in Prices, NEW q \in Qtys, ModifyLoses(id, p, q)
  PROVE  IInv'
<1>1. id \in lookup
  BY DEF ModifyLoses
<1>2. pool[id].qty_remain \in Int
  BY <1>1, RestingOrder
<1>3. /\ pool' = Drop(pool, id)
      /\ book' = Detach(book, pool[id].side, pool[id].price, id, pool[id].qty_remain)
      /\ lookup' = lookup \ {id} /\ order_free_top' = order_free_top + 1
      /\ next_order_id' = next_order_id /\ agg' = agg /\ now' = now + 1 /\ mc' = mc
      /\ ret' = Ret("modify", "REJECTED", 0)
  BY DEF ModifyLoses
<1>4. pool \in [DOMAIN pool -> Order] /\ now' \in Nat /\ now <= now' /\ mc' \in Nat
  BY <1>3 DEF IInv, TypeOK
<1>5. ret' \in Results
  BY <1>3, ReturnsResult
<1> QED
  BY <1>1, <1>2, <1>3, <1>4, <1>5, RemovalKeeps

(* A completely filled resting order leaves every structure at once. *)
LEMMA FillRestingStep ==
  ASSUME IInv, NEW p \in Prices, FillResting(p)
  PROVE  IInv'
<1> DEFINE o == Opp(pool[agg].side)
           r == Head(book.fifo[o][p])
           n == pool[r].qty_remain
           P == [pool EXCEPT ![agg].qty_remain = @ - n]
<1>1. Matching(p) /\ pool[agg].qty_remain >= n
  BY DEF FillResting
<1>2. /\ ~Idle /\ o \in Side
      /\ r \in lookup /\ pool[r].side = o /\ pool[r].price = p
  BY <1>1, HeadRests
<1>3. /\ pool' = Drop(P, r)
      /\ book' = Detach(book, o, p, r, n)
      /\ lookup' = lookup \ {r} /\ order_free_top' = order_free_top + 1
      /\ next_order_id' = next_order_id /\ agg' = agg /\ now' = now /\ ret' = ret
      /\ mc' = IF mc < OB_MAX_ORDERS THEN mc + 1 ELSE mc
  BY DEF FillResting, RecordFill
<1> HIDE DEF o, r
<1>4. n \in Nat /\ agg \in DOMAIN pool /\ pool[agg].qty_remain \in Nat
  BY <1>2, RestingOrder, Aggressor
<1>5. pool[agg].qty_remain - n \in Nat /\ n \in Int
  BY <1>1, <1>4 DEF n, r, o
<1> HIDE DEF n
<1>6. pool \in [DOMAIN pool -> Order] /\ now' \in Nat /\ now <= now' /\ mc' \in Nat
  BY <1>3 DEF IInv, TypeOK
<1>7. P = [pool EXCEPT ![agg].qty_remain = pool[agg].qty_remain - n]
  BY <1>4
<1> HIDE DEF P
<1>8. DOMAIN P = DOMAIN pool /\ P \in [DOMAIN P -> Order]
  BY <1>4, <1>5, <1>6, <1>7, PoolFill
<1>9. \A j \in DOMAIN pool : /\ P[j].side = pool[j].side /\ P[j].price = pool[j].price
                           /\ P[j].ts_update = pool[j].ts_update
  BY <1>4, <1>5, <1>6, <1>7, PoolFill
<1>10. ret' \in Results
  BY <1>3 DEF IInv, TypeOK, Results
<1> QED
  BY <1>2, <1>3, <1>5, <1>6, <1>8, <1>9, <1>10, RemovalKeeps

(* The aggressor's slot is freed. *)
LEMMA ReleaseSlotStep ==
  ASSUME IInv, ~Idle, NEW status \in {"FILLED", "REJECTED"}, ReleaseSlot(status)
  PROVE  IInv'
<1>1. /\ agg \in DOMAIN pool /\ agg \in Ids /\ DOMAIN pool \subseteq Ids
      /\ pool \in [DOMAIN pool -> Order]
      /\ lookup = DOMAIN pool \ {agg}
  BY Aggressor DEF IInv, TypeOK
<1>2. /\ pool' = Drop(pool, agg) /\ order_free_top' = order_free_top + 1
      /\ agg' = 0 /\ mc' = 0 /\ ret' = Ret("add", status, agg)
      /\ lookup' = lookup /\ book' = book /\ next_order_id' = next_order_id /\ now' = now
  BY DEF ReleaseSlot
<1>3. /\ DOMAIN pool' = DOMAIN pool \ {agg}
      /\ pool' \in [DOMAIN pool' -> Order]
      /\ \A j \in DOMAIN pool' : pool'[j] = pool[j]
  BY <1>1, <1>2 DEF Drop
<1>4. TypeOK'
  <2>1. ret' \in Results
    BY <1>1, <1>2, ReturnsResult
  <2> QED
    BY <1>1, <1>2, <1>3, <2>1 DEF IInv, TypeOK, Results
<1>5. (lookup = DOMAIN pool \ {agg})'
  BY <1>1, <1>2, <1>3 DEF Ids
<1>6. Sound(pool, lookup, book)'
  <2>1. book \in Book /\ Sound(pool, lookup, book)
    BY DEF IInv, TypeOK
  <2>2. \A j \in lookup : pool'[j] = pool[j]
    BY <1>1, <1>3
  <2>3. Sound(pool', lookup, book)
    BY <2>1, <2>2, SoundDependsOn
  <2> QED
    BY <1>2, <2>3
<1>7. OrdersInThePast'
  BY <1>2, <1>3 DEF IInv, OrdersInThePast, Idle
<1>8. PoolCounted'
  <2>1. IsFiniteSet(DOMAIN pool)
    BY <1>1, IdsFinite
  <2>2. /\ Cardinality(DOMAIN pool') = Cardinality(DOMAIN pool) - 1
        /\ Cardinality(DOMAIN pool) \in Nat
    BY <1>1, <1>3, <2>1, FS_RemoveElement, FS_CardinalityType
  <2> QED
    BY <1>2, <2>2 DEF IInv, TypeOK, PoolCounted
<1>9. LevelsBounded'
  BY <1>2 DEF IInv, LevelsBounded
<1> QED
  BY <1>4, <1>5, <1>6, <1>7, <1>8, <1>9 DEF IInv

(* A completely filled aggressor gives its slot back. *)
LEMMA AddFilledStep ==
  ASSUME IInv, AddFilled
  PROVE  IInv'
  BY ReleaseSlotStep DEF AddFilled

(* So does one whose remainder cannot rest. *)
LEMMA AddDroppedStep ==
  ASSUME IInv, AddDropped
  PROVE  IInv'
  BY ReleaseSlotStep DEF AddDropped, LoopOver

(* Putting an order adds one level to its side where it needs a new one, and *)
(* none elsewhere.                                                           *)
LEMMA AttachCounts ==
  ASSUME NEW b \in Book, NEW s \in Side, NEW p \in Prices, NEW id \in Ids, NEW n \in Int,
         InTree(b), NEW d, d = Attach(b, s, p, id, n)
  PROVE  /\ \A x \in Side : x # s => d.level_count[x] = b.level_count[x]
         /\ NeedsLevel(b, s, p) => d.level_count[s] = b.level_count[s] + 1
         /\ ~NeedsLevel(b, s, p) => d.level_count[s] = b.level_count[s]
<1> DEFINE c == IF p \in b.tree[s] THEN b ELSE level_create(b, s, p)
<1>1. d = level_enqueue(c, s, p, id, n)
  BY DEF Attach
<1>2. CASE p \in b.tree[s]
  <2>1. c = b /\ ~NeedsLevel(b, s, p)
    BY <1>2 DEF NeedsLevel
  <2> HIDE DEF c
  <2>2. d.level_count = b.level_count
    BY <1>1, <2>1, EnqueueFields DEF Enqueued
  <2> QED
    BY <2>1, <2>2
<1>3. CASE p \notin b.tree[s]
  <2>1. c = level_create(b, s, p) /\ NeedsLevel(b, s, p)
    BY <1>3 DEF NeedsLevel
  <2> HIDE DEF c
  <2>2. /\ c \in Book
        /\ c.level_count[s] = b.level_count[s] + 1
        /\ \A x \in Side : x # s => c.level_count[x] = b.level_count[x]
    BY <2>1, CreateFields
  <2>3. d.level_count = c.level_count
    BY <1>1, <2>2, EnqueueFields DEF Enqueued
  <2> QED
    BY <2>1, <2>2, <2>3
<1> QED
  BY <1>2, <1>3

(* A level more, where the guards allow one, keeps the sides bounded. *)
LEMMA AttachBounded ==
  ASSUME NEW b \in Book, NEW a \in Book, NEW s \in Side, NEW p \in Prices,
         \A x \in Side : b.level_count[x] <= OB_MAX_LEVELS,
         NeedsLevel(b, s, p) => b.level_count[s] < OB_MAX_LEVELS,
         \A x \in Side : x # s => a.level_count[x] = b.level_count[x],
         NeedsLevel(b, s, p) => a.level_count[s] = b.level_count[s] + 1,
         ~NeedsLevel(b, s, p) => a.level_count[s] = b.level_count[s]
  PROVE  \A x \in Side : a.level_count[x] <= OB_MAX_LEVELS
<1>1. b.level_count[s] \in Int /\ OB_MAX_LEVELS \in Int
  BY BookAssumption DEF Book, BookAssumption
<1>2. b.level_count[s] < OB_MAX_LEVELS => b.level_count[s] + 1 <= OB_MAX_LEVELS
  BY <1>1
<1>3. a.level_count[s] <= OB_MAX_LEVELS
  BY <1>2
<1> QED
  BY <1>3

(* The remainder enters every structure at once, as the latest of its level. *)
LEMMA AddRestsStep ==
  ASSUME IInv, AddRests
  PROVE  IInv'
<1> DEFINE s == pool[agg].side
           p == pool[agg].price
           n == pool[agg].qty_remain
<1>1. /\ ~Idle
      /\ NeedsLevel(book, s, p) => book.level_count[s] < OB_MAX_LEVELS
      /\ book' = Attach(book, s, p, agg, n)
      /\ lookup' = lookup \cup {agg}
      /\ agg' = 0 /\ mc' = 0
      /\ ret' = Ret("add", IF mc > 0 THEN "PARTIAL" ELSE "OK", agg)
      /\ UNCHANGED <<pool, order_free_top, next_order_id, now>>
  BY DEF AddRests, LoopOver
<1>2. /\ agg \in DOMAIN pool /\ agg \in Ids /\ agg \notin lookup
      /\ s \in Side /\ p \in Prices /\ n \in Int
  BY <1>1, Aggressor
<1>3. book \in Book /\ Sound(pool, lookup, book)
  BY DEF IInv, TypeOK
<1>4. \A j \in lookup : /\ pool[j].side \in Side /\ pool[j].price \in Prices
                         /\ pool[j].ts_update < pool[agg].ts_update
  BY <1>1, RestingOrder DEF IInv, OrdersInThePast
<1>5. pool[agg].side = s /\ pool[agg].price = p
  OBVIOUS
<1> HIDE DEF s, p, n
<1>6. /\ book' \in Book
      /\ Sound(pool, lookup \cup {agg}, book')
  BY <1>1, <1>2, <1>3, <1>4, <1>5, AttachSound
<1>7. /\ \A x \in Side : x # s => book'.level_count[x] = book.level_count[x]
      /\ NeedsLevel(book, s, p) => book'.level_count[s] = book.level_count[s] + 1
      /\ ~NeedsLevel(book, s, p) => book'.level_count[s] = book.level_count[s]
  <2>1. InTree(book)
    BY <1>3 DEF Sound
  <2> QED
    BY <1>1, <1>2, <1>3, <2>1, AttachCounts
<1>8. TypeOK'
  <2>1. ret' \in Results
    BY <1>1, <1>2, ReturnsResult
  <2> QED
    BY <1>1, <1>2, <1>6, <2>1 DEF IInv, TypeOK, Results
<1>9. (lookup = DOMAIN pool \ {agg})'
  <2>1. lookup = DOMAIN pool \ {agg} /\ 0 \notin DOMAIN pool
    BY DEF IInv, TypeOK, Ids
  <2> QED
    BY <1>1, <1>2, <2>1
<1>10. Sound(pool, lookup, book)'
  BY <1>1, <1>6
<1>11. OrdersInThePast' /\ PoolCounted'
  BY <1>1 DEF IInv, OrdersInThePast, PoolCounted, Idle
<1>12. LevelsBounded'
  <2>1. \A x \in Side : book.level_count[x] <= OB_MAX_LEVELS
    BY DEF IInv, LevelsBounded
  <2>2. \A x \in Side : book'.level_count[x] <= OB_MAX_LEVELS
    BY <1>1, <1>2, <1>3, <1>6, <1>7, <2>1, AttachBounded
  <2> QED
    BY <2>2 DEF LevelsBounded
<1> QED
  BY <1>8, <1>9, <1>10, <1>11, <1>12 DEF IInv

(* A modified order leaves its level and enters another as its latest order. *)
LEMMA ModifyMovesStep ==
  ASSUME IInv, NEW id \in Ids, NEW p \in Prices, NEW q \in Qtys, ModifyMoves(id, p, q)
  PROVE  IInv'
<1> DEFINE s == pool[id].side
           b == Detach(book, s, pool[id].price, id, pool[id].qty_remain)
           v == [pool[id] EXCEPT !.price = p, !.qty_remain = q, !.ts_update = now + 1]
<1>1. /\ agg = 0 /\ id \in lookup
      /\ NeedsLevel(b, s, p) => b.level_count[s] < OB_MAX_LEVELS
      /\ book' = Attach(b, s, p, id, q)
      /\ now' = now + 1
      /\ ret' = Ret("modify", "OK", 0)
      /\ UNCHANGED <<order_free_top, lookup, next_order_id, agg, mc>>
  BY DEF ModifyMoves, Idle
<1>2. /\ id \in DOMAIN pool /\ pool[id] \in Order /\ s \in Side
      /\ pool[id].qty_remain \in Int
      /\ pool \in [DOMAIN pool -> Order] /\ DOMAIN pool \subseteq Ids
      /\ now \in Nat /\ q \in Nat /\ lookup = DOMAIN pool \ {agg} /\ 0 \notin DOMAIN pool
  BY <1>1, RestingOrder, BookAssumption DEF IInv, TypeOK, BookAssumption, Ids
<1>3. pool' = [pool EXCEPT ![id] = v]
  BY DEF ModifyMoves
<1>4. v \in Order
  <2>1. now + 1 \in Nat
    BY <1>2
  <2> QED
    BY <1>2, <2>1, Zenon DEF Order
<1>5. v.side = s /\ v.price = p /\ v.ts_update = now + 1
  BY <1>2 DEF Order
<1> HIDE DEF v
<1>6. /\ DOMAIN pool' = DOMAIN pool
      /\ pool' \in [DOMAIN pool' -> Order]
      /\ pool'[id] = v
      /\ \A j \in DOMAIN pool : j # id => pool'[j] = pool[j]
  BY <1>2, <1>3, <1>4
<1>7. /\ b \in Book
      /\ Sound(pool', lookup \ {id}, b)
      /\ \A x \in Side : b.level_count[x] <= OB_MAX_LEVELS
  <2>1. \A j \in lookup \ {id} : /\ pool'[j].side = pool[j].side
                                /\ pool'[j].price = pool[j].price
                                /\ pool'[j].ts_update = pool[j].ts_update
    BY <1>2, <1>6
  <2> QED
    BY <1>1, <1>2, <2>1, LeavesLevel
<1> HIDE DEF b
<1>8. /\ pool'[id].side = s /\ pool'[id].price = p
      /\ \A j \in lookup \ {id} : /\ pool'[j].side \in Side /\ pool'[j].price \in Prices
                                 /\ pool'[j].ts_update < pool'[id].ts_update
  <2>1. pool'[id].side = s /\ pool'[id].price = p /\ pool'[id].ts_update = now + 1
    BY <1>5, <1>6
  <2>2. ASSUME NEW j \in lookup \ {id}
        PROVE  /\ pool'[j].side \in Side /\ pool'[j].price \in Prices
               /\ pool'[j].ts_update < now + 1
    <3>1. /\ pool[j].side \in Side /\ pool[j].price \in Prices /\ pool[j].ts_update \in Nat
          /\ j \in DOMAIN pool
      BY RestingOrder
    <3>2. pool[j].ts_update <= now
      BY <3>1 DEF IInv, OrdersInThePast
    <3>3. pool'[j] = pool[j]
      BY <1>6, <3>1
    <3> QED
      BY <1>2, <3>1, <3>2, <3>3
  <2> QED
    BY <2>1, <2>2
<1>9. id \in Ids /\ id \notin lookup \ {id} /\ q \in Int
  BY <1>2
<1> HIDE DEF s
<1>10. /\ book' \in Book
       /\ Sound(pool', (lookup \ {id}) \cup {id}, book')
  BY <1>1, <1>2, <1>7, <1>8, <1>9, AttachSound
<1>11. /\ \A x \in Side : x # s => book'.level_count[x] = b.level_count[x]
       /\ NeedsLevel(b, s, p) => book'.level_count[s] = b.level_count[s] + 1
       /\ ~NeedsLevel(b, s, p) => book'.level_count[s] = b.level_count[s]
  <2>1. InTree(b)
    BY <1>7 DEF Sound
  <2> QED
    BY <1>1, <1>2, <1>7, <1>9, <2>1, AttachCounts
<1>12. TypeOK'
  <2>1. ret' \in Results
    BY <1>1, ReturnsResult
  <2> QED
    BY <1>1, <1>2, <1>6, <1>10, <2>1 DEF IInv, TypeOK, Results
<1>13. (lookup = DOMAIN pool \ {agg})'
  BY <1>1, <1>2, <1>6
<1>14. Sound(pool, lookup, book)'
  <2>1. (lookup \ {id}) \cup {id} = lookup
    BY <1>1
  <2> QED
    BY <1>1, <1>10, <2>1
<1>15. OrdersInThePast'
  <2>1. ASSUME NEW j \in DOMAIN pool
        PROVE  j < next_order_id /\ pool'[j].ts_update <= now + 1
    <3>1. j < next_order_id /\ pool[j].ts_update <= now /\ pool[j].ts_update \in Nat
      BY <1>2 DEF IInv, OrdersInThePast, Order
    <3>2. CASE j = id
      BY <1>2, <1>5, <1>6, <3>1, <3>2
    <3>3. CASE j # id
      BY <1>2, <1>6, <3>1, <3>3
    <3> QED
      BY <3>2, <3>3
  <2> QED
    BY <1>1, <1>6, <2>1 DEF OrdersInThePast, Idle
<1>16. PoolCounted'
  BY <1>1, <1>6 DEF IInv, PoolCounted
<1>17. LevelsBounded'
  <2>1. \A x \in Side : book'.level_count[x] <= OB_MAX_LEVELS
    BY <1>1, <1>2, <1>7, <1>10, <1>11, AttachBounded
  <2> QED
    BY <2>1 DEF LevelsBounded
<1> QED
  BY <1>12, <1>13, <1>14, <1>15, <1>16, <1>17 DEF IInv

-----------------------------------------------------------------------------
(* Every step keeps the invariant. *)
LEMMA IInvStep == IInv /\ [Next]_vars => IInv'
<1> SUFFICES ASSUME IInv, [Next]_vars PROVE IInv'
  OBVIOUS
<1>1. ASSUME NEW s \in Side, NEW p \in Prices, NEW q \in Qtys, AddEnter(s, p, q) PROVE IInv'
  BY <1>1, AddEnterStep
<1>2. ASSUME NEW valid \in BOOLEAN, AddRefused(valid) PROVE IInv'
  BY <1>2, AddRefusedStep
<1>3. ASSUME NEW p \in Prices, FillAggressor(p) PROVE IInv'
  BY <1>3, FillAggressorStep
<1>4. ASSUME NEW p \in Prices, FillResting(p) PROVE IInv'
  BY <1>4, FillRestingStep
<1>5. CASE Return
  BY <1>5, AddFilledStep, AddDroppedStep, AddRestsStep DEF Return
<1>6. CASE CancelStep
  BY <1>6, CancelOrderStep, CancelUnknownStep DEF CancelStep
<1>7. ASSUME NEW id \in Ids, NEW p \in Prices, NEW q \in Qtys,
             ModifyMoves(id, p, q) \/ ModifyLoses(id, p, q)
      PROVE  IInv'
  BY <1>7, ModifyMovesStep, ModifyLosesStep
<1>8. ASSUME NEW id \in Ids, NEW valid \in BOOLEAN, ModifyRefused(id, valid) PROVE IInv'
  BY <1>8, ModifyRefusedStep
<1>9. CASE UNCHANGED vars
  <2>0. /\ pool' = pool /\ order_free_top' = order_free_top /\ lookup' = lookup /\ book' = book
        /\ next_order_id' = next_order_id /\ now' = now /\ agg' = agg /\ mc' = mc /\ ret' = ret
    BY <1>9 DEF vars
  <2>1. TypeOK'
    BY <2>0, Zenon DEF IInv, TypeOK
  <2>2. Sound(pool, lookup, book)'
    <3>1. Sound(pool, lookup, book)
      BY DEF IInv
    <3> QED
      BY <2>0, <3>1 DEF Sound, Linked, InTree, InTime, Counted
  <2>3. OrdersInThePast'
    BY <2>0, Zenon DEF IInv, OrdersInThePast, Idle
  <2>4. PoolCounted' /\ LevelsBounded'
    BY <2>0 DEF IInv, PoolCounted, LevelsBounded
  <2> QED
    BY <2>0, <2>1, <2>2, <2>3, <2>4 DEF IInv
<1> QED
  BY <1>1, <1>2, <1>3, <1>4, <1>5, <1>6, <1>7, <1>8, <1>9
     DEF Next, Enter, MatchStep, ModifyStep

(* The invariant holds in every reachable state. *)
LEMMA IInvAlways == Spec => []IInv
  BY IInvInit, IInvStep, PTL DEF Spec

(* Every variable always has its type, whatever the prices, quantities and *)
(* pool sizes: the slot of the aggressor stays occupied through the fills  *)
(* of ob_add_order.                                                        *)
THEOREM TypeCorrect == Spec => []TypeOK
<1>1. IInv => TypeOK
  BY DEF IInv
<1> QED
  BY <1>1, IInvAlways, PTL

(* No call of ob_add_order, ob_cancel_order or ob_modify_order leaks a     *)
(* slot of the order or the level pool or frees one twice.                 *)
THEOREM SlotsAreConserved == Spec => []SlotsConserved
<1>1. IInv => SlotsConserved
  BY DEF IInv, PoolCounted, Sound, Counted, SlotsConserved
<1> QED
  BY <1>1, IInvAlways, PTL

(* Pool, lookup, queues and tree always describe the same resting orders.  *)
THEOREM IndexesAlwaysAgree == Spec => []IndexesAgree
<1>1. IInv => IndexesAgree
  BY DEF IInv, Sound, Linked, InTree, IndexesAgree
<1> QED
  BY <1>1, IInvAlways, PTL

(* Every queue is always in the order in which its orders entered it.      *)
THEOREM TimePriorityHolds == Spec => []TimePriority
<1>1. IInv => TimePriority
  BY DEF IInv, Sound, InTime, TimePriority
<1> QED
  BY <1>1, IInvAlways, PTL

(* While a side is below its level limit the level pool is not empty: the  *)
(* pool has a slot for every level that both sides may have.               *)
LEMMA LevelsLeft == IInv => LevelAllocSafe
<1> SUFFICES ASSUME IInv, NEW s \in Side, book.level_count[s] < OB_MAX_LEVELS
             PROVE  book.level_free_top > 0
  BY DEF LevelAllocSafe
<1> DEFINE bids == book.level_count["BID"]
           asks == book.level_count["ASK"]
<1>1. book.level_count \in [Side -> Int] /\ book.level_free_top \in Int
  BY DEF IInv, TypeOK, Book
<1>2. bids \in Int /\ asks \in Int /\ OB_MAX_LEVELS \in Int
  BY <1>1, BookAssumption DEF Side, BookAssumption
<1>3. bids <= OB_MAX_LEVELS /\ asks <= OB_MAX_LEVELS
  BY DEF IInv, LevelsBounded, Side
<1>4. bids < OB_MAX_LEVELS \/ asks < OB_MAX_LEVELS
  BY DEF Side
<1>5. book.level_free_top + bids + asks = 2 * OB_MAX_LEVELS
  BY DEF IInv, Sound, Counted
<1> HIDE DEF bids, asks
<1> QED
  BY <1>1, <1>2, <1>3, <1>4, <1>5

(* level_new, whose result ob_modify_order does not check, never fails for *)
(* a side that is below its level limit.                                   *)
THEOREM LevelAllocIsSafe == Spec => []LevelAllocSafe
  BY LevelsLeft, IInvAlways, PTL
-----------------------------------------------------------------------------
(* Matching: only a modification can cross the book, and the scratch       *)
(* buffer never lacks the room for a fill.                                 *)

(* An order enters a queue when it is submitted, or later.                 *)
SubmittedFirst == \A id \in DOMAIN pool : pool[id].ts_submit <= pool[id].ts_update

(* A bid and an ask that cross, and the later of the two.                  *)
Cross(b, a) == pool[b].side = "BID" /\ pool[a].side = "ASK" /\ pool[b].price >= pool[a].price

Later(b, a) == IF pool[b].ts_update < pool[a].ts_update THEN a ELSE b

(* CrossOnlyByModify in the middle of a call too: fills only remove.       *)
CrossedByModify ==
  \A b, a \in lookup :
    Cross(b, a) => pool[Later(b, a)].ts_submit < pool[Later(b, a)].ts_update

(* While the aggressor has quantity left, each fill so far took one order  *)
(* out of the book, so the fills recorded and the orders still resting are *)
(* fewer than the slots of the pool, of which the aggressor has one.       *)
ScratchLeft ==
  ~Idle /\ pool[agg].qty_remain > 0 => mc + Cardinality(lookup) < OB_MAX_ORDERS

MInv == SubmittedFirst /\ CrossedByModify /\ ScratchLeft

-----------------------------------------------------------------------------
(* The orders of the lookup are finitely many and all in the pool. *)
LEMMA LookupFinite ==
  ASSUME IInv
  PROVE  /\ IsFiniteSet(lookup) /\ Cardinality(lookup) \in Nat
         /\ lookup \subseteq DOMAIN pool /\ lookup \subseteq Ids
<1>1. lookup \subseteq DOMAIN pool /\ lookup \subseteq Ids
  BY DEF IInv, TypeOK
<1> QED
  BY <1>1, IdsFinite, FS_CardinalityType

(* The attributes that matter here are the same before and after.          *)
SameOrder(j) == /\ pool'[j].side = pool[j].side /\ pool'[j].price = pool[j].price
                /\ pool'[j].ts_submit = pool[j].ts_submit
                /\ pool'[j].ts_update = pool[j].ts_update

(* Removing orders and filling them crosses nothing. *)
LEMMA StaysCrossed ==
  ASSUME CrossedByModify, lookup' \subseteq lookup, \A j \in lookup' : SameOrder(j)
  PROVE  CrossedByModify'
<1> SUFFICES ASSUME NEW b \in lookup', NEW a \in lookup', Cross(b, a)'
             PROVE  pool'[Later(b, a)'].ts_submit < pool'[Later(b, a)'].ts_update
  BY DEF CrossedByModify
<1>1. SameOrder(a) /\ SameOrder(b) /\ a \in lookup /\ b \in lookup
  OBVIOUS
<1>2. Cross(b, a) /\ Later(b, a)' = Later(b, a)
  BY <1>1 DEF Cross, Later, SameOrder
<1>3. pool[Later(b, a)].ts_submit < pool[Later(b, a)].ts_update
  BY <1>1, <1>2 DEF CrossedByModify
<1>4. SameOrder(Later(b, a))
  BY <1>1 DEF Later
<1> QED
  BY <1>2, <1>3, <1>4 DEF SameOrder

(* So do the orders of the pool stay submitted before they are entered.    *)
LEMMA StaysSubmitted ==
  ASSUME SubmittedFirst, DOMAIN pool' \subseteq DOMAIN pool,
         \A j \in DOMAIN pool' : SameOrder(j)
  PROVE  SubmittedFirst'
  BY DEF SubmittedFirst, SameOrder

(* Nothing of the invariant changes when its variables do not. *)
LEMMA NothingMatched ==
  ASSUME MInv, UNCHANGED <<pool, lookup, agg, mc>>
  PROVE  MInv'
  BY DEF MInv, SubmittedFirst, CrossedByModify, ScratchLeft, Cross, Later, Idle

(* An order that leaves pool and lookup between calls. *)
LEMMA RemovalMatches ==
  ASSUME IInv, MInv, NEW id \in lookup, Idle, agg' = agg,
         pool' = Drop(pool, id), lookup' = lookup \ {id}
  PROVE  MInv'
<1>1. DOMAIN pool' = DOMAIN pool \ {id} /\ \A j \in DOMAIN pool' : pool'[j] = pool[j]
  BY DEF Drop
<1>2. \A j \in DOMAIN pool' : SameOrder(j)
  BY <1>1 DEF SameOrder
<1>3. SubmittedFirst'
  BY <1>1, <1>2, StaysSubmitted DEF MInv
<1>4. \A j \in lookup' : j \in DOMAIN pool'
  BY <1>1, LookupFinite
<1>5. CrossedByModify'
  BY <1>2, <1>4, StaysCrossed DEF MInv
<1>6. ScratchLeft'
  BY DEF ScratchLeft, Idle
<1> QED
  BY <1>3, <1>5, <1>6 DEF MInv

-----------------------------------------------------------------------------
(* A new aggressor is submitted now, and a slot was free for it. *)
LEMMA AddEnterMatches ==
  ASSUME IInv, MInv, NEW s \in Side, NEW p \in Prices, NEW q \in Qtys, AddEnter(s, p, q)
  PROVE  MInv'
<1> DEFINE v == [side |-> s, price |-> p, qty_remain |-> q,
                 ts_submit |-> now + 1, ts_update |-> now + 1]
<1>1. /\ agg = 0 /\ order_free_top > 0 /\ now \in Nat /\ order_free_top \in Int
      /\ pool' = Put(pool, next_order_id, v)
      /\ agg' = next_order_id /\ mc' = 0 /\ lookup' = lookup
  BY DEF AddEnter, Idle, IInv, TypeOK
<1>2. \A j \in DOMAIN pool : j < next_order_id /\ j \in Nat
  BY DEF IInv, OrdersInThePast, TypeOK, Ids
<1>3. next_order_id \notin DOMAIN pool /\ next_order_id \in Nat
  BY <1>2 DEF IInv, TypeOK
<1>4. v.ts_submit = now + 1 /\ v.ts_update = now + 1
  OBVIOUS
<1> HIDE DEF v
<1>5. /\ DOMAIN pool' = DOMAIN pool \cup {next_order_id}
      /\ pool'[next_order_id] = v
      /\ \A j \in DOMAIN pool : pool'[j] = pool[j]
  BY <1>1, <1>3 DEF Put
<1>6. SubmittedFirst'
  BY <1>1, <1>4, <1>5 DEF SubmittedFirst, MInv
<1>7. \A j \in lookup' : SameOrder(j)
  BY <1>1, <1>5, LookupFinite DEF SameOrder
<1>8. CrossedByModify'
  BY <1>1, <1>7, StaysCrossed DEF MInv
<1>9. ScratchLeft'
  <2>1. order_free_top + Cardinality(DOMAIN pool) = OB_MAX_ORDERS
    BY DEF IInv, PoolCounted
  <2>2. lookup = DOMAIN pool
    BY <1>1 DEF IInv, TypeOK, Ids
  <2>3. 0 + Cardinality(lookup) < OB_MAX_ORDERS
    BY <1>1, <2>1, <2>2, LookupFinite
  <2> QED
    BY <1>1, <2>3 DEF ScratchLeft
<1> QED
  BY <1>6, <1>8, <1>9 DEF MInv

(* A fill that the resting order survives is the aggressor's last. *)
LEMMA FillAggressorMatches ==
  ASSUME IInv, MInv, NEW p \in Prices, FillAggressor(p)
  PROVE  MInv'
<1> DEFINE o == Opp(pool[agg].side)
           r == Head(book.fifo[o][p])
           n == pool[agg].qty_remain
<1>0. Matching(p)
  BY DEF FillAggressor
<1>1. /\ pool' = [pool EXCEPT ![agg].qty_remain = 0, ![r].qty_remain = @ - n]
      /\ lookup' = lookup /\ agg' = agg
  BY DEF FillAggressor
<1>2. ~Idle /\ r \in lookup
  BY <1>0, HeadRests
<1> HIDE DEF o, r, n
<1>3. /\ pool \in [DOMAIN pool -> Order] /\ agg \in DOMAIN pool /\ r \in DOMAIN pool /\ r # agg
      /\ pool[agg] \in Order /\ pool[r] \in Order
  BY <1>2, Aggressor, RestingOrder DEF IInv, TypeOK
<1>4. /\ DOMAIN pool' = DOMAIN pool
      /\ pool'[agg] = [pool[agg] EXCEPT !.qty_remain = 0]
      /\ pool'[r] = [pool[r] EXCEPT !.qty_remain = @ - n]
      /\ \A j \in DOMAIN pool : j # agg /\ j # r => pool'[j] = pool[j]
  BY <1>1, <1>3
<1>5. \A j \in DOMAIN pool' : SameOrder(j)
  <2>1. SameOrder(agg)
    BY <1>3, <1>4 DEF SameOrder, Order
  <2>2. SameOrder(r)
    BY <1>3, <1>4 DEF SameOrder, Order
  <2> QED
    BY <1>4, <2>1, <2>2 DEF SameOrder
<1>6. pool'[agg'].qty_remain = 0
  BY <1>1, <1>3, <1>4 DEF Order
<1>7. SubmittedFirst'
  BY <1>4, <1>5, StaysSubmitted DEF MInv
<1>8. CrossedByModify'
  BY <1>1, <1>4, <1>5, StaysCrossed, LookupFinite DEF MInv
<1>9. ScratchLeft'
  BY <1>6 DEF ScratchLeft
<1> QED
  BY <1>7, <1>8, <1>9 DEF MInv

(* A fill that consumes the resting order records one fill and takes one   *)
(* order away.                                                             *)
LEMMA FillRestingMatches ==
  ASSUME IInv, MInv, NEW p \in Prices, FillResting(p)
  PROVE  MInv'
<1> DEFINE o == Opp(pool[agg].side)
           r == Head(book.fifo[o][p])
           n == pool[r].qty_remain
           P == [pool EXCEPT ![agg].qty_remain = @ - n]
<1>0. Matching(p)
  BY DEF FillResting
<1>1. /\ pool' = Drop(P, r)
      /\ lookup' = lookup \ {r} /\ agg' = agg
      /\ mc' = IF mc < OB_MAX_ORDERS THEN mc + 1 ELSE mc
  BY DEF FillResting, RecordFill
<1>2. ~Idle /\ r \in lookup /\ pool[agg].qty_remain > 0
  BY <1>0, HeadRests DEF Matching
<1> HIDE DEF o, r, n
<1>3. /\ pool \in [DOMAIN pool -> Order] /\ agg \in DOMAIN pool /\ r # agg
      /\ pool[agg] \in Order
  BY <1>2, Aggressor DEF IInv, TypeOK
<1>4. /\ DOMAIN pool' = DOMAIN pool \ {r}
      /\ pool'[agg] = [pool[agg] EXCEPT !.qty_remain = @ - n]
      /\ \A j \in DOMAIN pool' : j # agg => pool'[j] = pool[j]
  BY <1>1, <1>3 DEF Drop
<1>5. \A j \in DOMAIN pool' : SameOrder(j)
  <2>1. SameOrder(agg)
    BY <1>3, <1>4 DEF SameOrder, Order
  <2> QED
    BY <1>4, <2>1 DEF SameOrder
<1>6. SubmittedFirst'
  BY <1>4, <1>5, StaysSubmitted DEF MInv
<1>7. CrossedByModify'
  BY <1>1, <1>4, <1>5, StaysCrossed, LookupFinite DEF MInv
<1>8. ScratchLeft'
  <2>1. mc + Cardinality(lookup) < OB_MAX_ORDERS /\ mc \in Nat
    BY <1>2 DEF MInv, ScratchLeft, IInv, TypeOK
  <2>2. Cardinality(lookup') = Cardinality(lookup) - 1
    BY <1>1, <1>2, LookupFinite, FS_RemoveElement
  <2>3. mc' <= mc + 1 /\ mc' \in Nat
    BY <1>1, <2>1
  <2>4. mc' + Cardinality(lookup') < OB_MAX_ORDERS
    BY <2>1, <2>2, <2>3, LookupFinite, BookAssumption DEF BookAssumption
  <2> QED
    BY <2>4 DEF ScratchLeft
<1> QED
  BY <1>6, <1>7, <1>8 DEF MInv

(* The aggressor's slot is freed. *)
LEMMA ReleaseSlotMatches ==
  ASSUME IInv, MInv, ~Idle, NEW status, ReleaseSlot(status)
  PROVE  MInv'
<1>1. pool' = Drop(pool, agg) /\ agg' = 0 /\ lookup' = lookup
  BY DEF ReleaseSlot
<1>2. /\ DOMAIN pool' = DOMAIN pool \ {agg} /\ \A j \in DOMAIN pool' : pool'[j] = pool[j]
      /\ lookup' = DOMAIN pool'
  BY <1>1 DEF Drop, IInv
<1>3. \A j \in DOMAIN pool' : SameOrder(j)
  BY <1>2 DEF SameOrder
<1>4. SubmittedFirst'
  BY <1>2, <1>3, StaysSubmitted DEF MInv
<1>5. CrossedByModify'
  BY <1>1, <1>2, <1>3, StaysCrossed DEF MInv
<1>6. ScratchLeft'
  BY <1>1 DEF ScratchLeft, Idle
<1> QED
  BY <1>4, <1>5, <1>6 DEF MInv

(* When the remainder comes to rest no opposite level is within its limit, *)
(* so that it crosses no resting order.                                    *)
LEMMA AddRestsMatches ==
  ASSUME IInv, MInv, AddRests
  PROVE  MInv'
<1>1. /\ LoopOver /\ ~Idle
      /\ lookup' = lookup \cup {agg} /\ agg' = 0 /\ pool' = pool
  BY DEF AddRests, LoopOver
<1>2. SubmittedFirst'
  BY <1>1 DEF MInv, SubmittedFirst
<1>3. ScratchLeft'
  BY <1>1 DEF ScratchLeft, Idle
<1>4. book \in Book /\ Linked(pool, lookup, book) /\ InTree(book)
  BY DEF IInv, TypeOK, Sound
<1>5. /\ pool[agg].side \in Side /\ pool[agg].price \in Int
      /\ \A j \in lookup : pool[j].price \in Int
  BY <1>1, Aggressor, RestingOrder, BookAssumption DEF BookAssumption
<1>6. ASSUME NEW j \in lookup, pool[j].side = Opp(pool[agg].side)
      PROVE  ~Crosses(pool[agg].side, pool[agg].price, pool[j].price)
  <2>1. pool[j].side \in Side /\ pool[j].price \in Prices
    BY RestingOrder
  <2>2. PICK i \in 1..Len(book.fifo[pool[j].side][pool[j].price]) :
               book.fifo[pool[j].side][pool[j].price][i] = j
    BY <1>4 DEF Linked
  <2>3. pool[j].price \in book.tree[pool[j].side]
    BY <1>4, <2>1, <2>2 DEF InTree
  <2> QED
    BY <1>1, <1>6, <2>3 DEF LoopOver
<1>7. ASSUME NEW b \in lookup \cup {agg}, NEW a \in lookup \cup {agg}, Cross(b, a)
      PROVE  b \in lookup /\ a \in lookup
  <2>1. CASE b = agg
    <3>1. a # agg /\ a \in lookup
      BY <1>7, <2>1 DEF Cross
    <3>2. pool[agg].side = "BID" /\ pool[a].side = "ASK" /\ pool[agg].price >= pool[a].price
      BY <1>7, <2>1 DEF Cross
    <3>3. pool[a].side = Opp(pool[agg].side)
          /\ Crosses(pool[agg].side, pool[agg].price, pool[a].price)
      BY <1>5, <3>1, <3>2 DEF Crosses, Opp
    <3> QED
      BY <1>6, <3>1, <3>3
  <2>2. CASE a = agg
    <3>1. b # agg /\ b \in lookup
      BY <1>7, <2>2 DEF Cross
    <3>2. pool[b].side = "BID" /\ pool[agg].side = "ASK" /\ pool[b].price >= pool[agg].price
      BY <1>7, <2>2 DEF Cross
    <3>3. pool[b].side = Opp(pool[agg].side)
          /\ Crosses(pool[agg].side, pool[agg].price, pool[b].price)
      BY <1>5, <3>1, <3>2 DEF Crosses, Opp
    <3> QED
      BY <1>6, <3>1, <3>3
  <2> QED
    BY <2>1, <2>2
<1>8. CrossedByModify'
  BY <1>1, <1>7 DEF MInv, CrossedByModify, Cross, Later
<1> QED
  BY <1>2, <1>3, <1>8 DEF MInv

(* A modified order is the latest of the book and was submitted before: it *)
(* is the later of every pair that it crosses in.                          *)
LEMMA ModifyMovesMatches ==
  ASSUME IInv, MInv, NEW id \in Ids, NEW p \in Prices, NEW q \in Qtys, ModifyMoves(id, p, q)
  PROVE  MInv'
<1>1. /\ agg = 0 /\ id \in lookup /\ lookup' = lookup /\ agg' = agg /\ now \in Nat
      /\ pool' = [pool EXCEPT ![id].price = p, ![id].qty_remain = q, ![id].ts_update = now + 1]
  BY DEF ModifyMoves, Idle, IInv, TypeOK
<1>2. pool \in [DOMAIN pool -> Order] /\ id \in DOMAIN pool /\ pool[id] \in Order
  BY <1>1, RestingOrder DEF IInv, TypeOK
<1>3. /\ DOMAIN pool' = DOMAIN pool
      /\ \A j \in DOMAIN pool : j # id => pool'[j] = pool[j]
      /\ pool'[id] = [pool[id] EXCEPT !.price = p, !.qty_remain = q, !.ts_update = now + 1]
  BY <1>1, <1>2
<1>4. pool'[id].ts_submit = pool[id].ts_submit /\ pool'[id].ts_update = now + 1
  BY <1>2, <1>3 DEF Order
<1>5. \A j \in DOMAIN pool : /\ pool[j].ts_update <= now
                             /\ pool[j].ts_update \in Nat /\ pool[j].ts_submit \in Nat
  BY <1>2 DEF IInv, OrdersInThePast, Order
<1>6. pool[id].ts_submit < now + 1
  BY <1>1, <1>2, <1>5 DEF MInv, SubmittedFirst
<1>7. SubmittedFirst'
  <2> SUFFICES ASSUME NEW j \in DOMAIN pool PROVE pool'[j].ts_submit <= pool'[j].ts_update
    BY <1>3 DEF SubmittedFirst
  <2>1. CASE j = id
    BY <1>1, <1>2, <1>4, <1>5, <1>6, <2>1
  <2>2. CASE j # id
    BY <1>3, <2>2 DEF MInv, SubmittedFirst
  <2> QED
    BY <2>1, <2>2
<1>8. CrossedByModify'
  <2> SUFFICES ASSUME NEW b \in lookup, NEW a \in lookup, Cross(b, a)'
               PROVE  pool'[Later(b, a)'].ts_submit < pool'[Later(b, a)'].ts_update
    BY <1>1 DEF CrossedByModify
  <2>0. b \in DOMAIN pool /\ a \in DOMAIN pool
    BY LookupFinite
  <2>1. CASE a = id \/ b = id
    <3>1. a # b
      BY DEF Cross
    <3>2. \A j \in DOMAIN pool : j # id => pool'[j].ts_update < pool'[id].ts_update
      BY <1>1, <1>3, <1>4, <1>5
    <3>3. \A j \in DOMAIN pool : j # id => ~(pool'[id].ts_update < pool'[j].ts_update)
      BY <1>1, <1>3, <1>4, <1>5
    <3>4. Later(b, a)' = id
      BY <2>0, <2>1, <3>1, <3>2, <3>3 DEF Later
    <3> QED
      BY <1>4, <1>6, <3>4
  <2>2. CASE a # id /\ b # id
    <3>1. pool'[a] = pool[a] /\ pool'[b] = pool[b]
      BY <1>3, <2>0, <2>2
    <3>2. Cross(b, a) /\ Later(b, a)' = Later(b, a)
      BY <3>1 DEF Cross, Later
    <3>3. pool'[Later(b, a)] = pool[Later(b, a)]
      BY <3>1 DEF Later
    <3> QED
      BY <3>2, <3>3 DEF MInv, CrossedByModify
  <2> QED
    BY <2>1, <2>2
<1>9. ScratchLeft'
  BY <1>1 DEF ScratchLeft, Idle
<1> QED
  BY <1>7, <1>8, <1>9 DEF MInv

-----------------------------------------------------------------------------
(* An empty book is not crossed. *)
LEMMA MInvInit == Init => MInv
  BY DEF Init, MInv, SubmittedFirst, CrossedByModify, ScratchLeft, Idle

(* Every step keeps the invariant. *)
LEMMA MInvStep == IInv /\ MInv /\ [Next]_vars => MInv'
<1> SUFFICES ASSUME IInv, MInv, [Next]_vars PROVE MInv'
  OBVIOUS
<1>1. ASSUME NEW s \in Side, NEW p \in Prices, NEW q \in Qtys, AddEnter(s, p, q) PROVE MInv'
  BY <1>1, AddEnterMatches
<1>2. ASSUME NEW valid \in BOOLEAN, AddRefused(valid) PROVE MInv'
  BY <1>2, NothingMatched DEF AddRefused
<1>3. ASSUME NEW p \in Prices, FillAggressor(p) PROVE MInv'
  BY <1>3, FillAggressorMatches
<1>4. ASSUME NEW p \in Prices, FillResting(p) PROVE MInv'
  BY <1>4, FillRestingMatches
<1>5. CASE AddFilled
  BY <1>5, ReleaseSlotMatches DEF AddFilled
<1>6. CASE AddDropped
  BY <1>6, ReleaseSlotMatches DEF AddDropped, LoopOver
<1>7. CASE AddRests
  BY <1>7, AddRestsMatches
<1>8. ASSUME NEW id \in Ids, CancelOrder(id) PROVE MInv'
  BY <1>8, RemovalMatches DEF CancelOrder
<1>9. ASSUME NEW id \in Ids, CancelUnknown(id) PROVE MInv'
  BY <1>9, NothingMatched DEF CancelUnknown
<1>10. ASSUME NEW id \in Ids, NEW p \in Prices, NEW q \in Qtys, ModifyMoves(id, p, q) PROVE MInv'
  BY <1>10, ModifyMovesMatches
<1>11. ASSUME NEW id \in Ids, NEW p \in Prices, NEW q \in Qtys, ModifyLoses(id, p, q) PROVE MInv'
  BY <1>11, RemovalMatches DEF ModifyLoses
<1>12. ASSUME NEW id \in Ids, NEW valid \in BOOLEAN, ModifyRefused(id, valid) PROVE MInv'
  BY <1>12, NothingMatched DEF ModifyRefused
<1>13. CASE UNCHANGED vars
  BY <1>13, NothingMatched DEF vars
<1> QED
  BY <1>1, <1>2, <1>3, <1>4, <1>5, <1>6, <1>7, <1>8, <1>9, <1>10, <1>11, <1>12, <1>13
     DEF Next, Enter, MatchStep, Return, CancelStep, ModifyStep

(* The invariant holds in every reachable state. *)
LEMMA MInvAlways == Spec => []MInv
  BY IInvAlways, MInvInit, MInvStep, PTL DEF Spec

(* A resting bid meets or exceeds a resting ask only if the later of the   *)
(* two got where it is by ob_modify_order: ob_add_order never leaves the   *)
(* book crossed, however its fill loop ends.                               *)
THEOREM OnlyModifyCrosses == Spec => []CrossOnlyByModify
<1>1. MInv => CrossOnlyByModify
  BY DEF MInv, CrossedByModify, CrossOnlyByModify, Cross, Later
<1> QED
  BY <1>1, MInvAlways, PTL

(* The scratch buffer of OB_MAX_ORDERS records always has room for the     *)
(* next fill, whatever the number and the size of the resting orders.      *)
THEOREM ScratchAlwaysSuffices == Spec => []ScratchSuffices
<1>1. IInv /\ MInv => ScratchSuffices
  <2> SUFFICES ASSUME IInv, MInv, ~Idle, pool[agg].qty_remain > 0 PROVE mc < OB_MAX_ORDERS
    BY DEF ScratchSuffices
  <2>1. mc + Cardinality(lookup) < OB_MAX_ORDERS /\ mc \in Nat
    BY DEF MInv, ScratchLeft, IInv, TypeOK
  <2> QED
    BY <2>1, LookupFinite, BookAssumption DEF BookAssumption
<1> QED
  BY <1>1, IInvAlways, MInvAlways, PTL
-----------------------------------------------------------------------------
(* Totals: what a level and a side report is the sum of the orders they    *)
(* hold, in the middle of a fill loop too.                                 *)

(* The orders of L that stand at one price, and the quantity they sum to.  *)
At(P, L, s, p) == {id \in L : P[id].side = s /\ P[id].price = p}

QtyOf(P) == [id \in DOMAIN P |-> P[id].qty_remain]

QtyAt(P, L, s, p) == SumFunctionOnSet(QtyOf(P), At(P, L, s, p))

(* The total of a price is that of its orders, also where it has no level  *)
(* (and counts nothing), and the total of a side that of its levels.       *)
Totalled(P, L, b) ==
  /\ \A s \in Side, p \in Prices : b.lvl_qty[s][p] = QtyAt(P, L, s, p)
  /\ \A s \in Side : b.side_qty[s] = SumFunctionOnSet(b.lvl_qty[s], b.tree[s])

TInv == Totalled(pool, lookup, book)

(* Orders with attributes of the right kind. *)
Orders(P, L) == \A j \in L : /\ j \in DOMAIN P /\ P[j].side \in Side /\ P[j].price \in Prices
                             /\ P[j].qty_remain \in Nat /\ P[j].ts_update \in Nat

(* Two books whose totals are the same but for level p of side s, which    *)
(* counts n more in the second.                                            *)
Shifted(b, d, s, p, n) ==
  /\ d.lvl_qty[s][p] = b.lvl_qty[s][p] + n
  /\ \A x \in Side, y \in Prices : x # s \/ y # p => d.lvl_qty[x][y] = b.lvl_qty[x][y]
  /\ d.side_qty[s] = b.side_qty[s] + n
  /\ \A x \in Side : x # s => d.side_qty[x] = b.side_qty[x]

(* The shift is told by the totals alone. *)
LEMMA ShiftedFrom ==
  ASSUME NEW b, NEW c, NEW d, NEW s, NEW p, NEW n, Shifted(c, d, s, p, n),
         c.lvl_qty = b.lvl_qty, c.side_qty = b.side_qty
  PROVE  Shifted(b, d, s, p, n)
  BY Zenon DEF Shifted

(* Two sets of orders with the same quantities at every price but p of s.  *)
SameElsewhere(P, L, Q, M, s, p) ==
  \A x \in Side, y \in Prices : x # s \/ y # p => QtyAt(Q, M, x, y) = QtyAt(P, L, x, y)

-----------------------------------------------------------------------------
(* The totals of a book have the types they need. *)
LEMMA TotalTypes ==
  ASSUME NEW b \in Book
  PROVE  /\ b.lvl_qty \in [Side -> [Prices -> Int]] /\ b.side_qty \in [Side -> Int]
         /\ \A s \in Side : /\ b.side_qty[s] \in Int
                            /\ \A p \in Prices : b.lvl_qty[s][p] \in Int
                            /\ b.tree[s] \subseteq Prices /\ IsFiniteSet(b.tree[s])
<1>1. /\ b.lvl_qty \in [Side -> [Prices -> Int]] /\ b.side_qty \in [Side -> Int]
      /\ b.tree \in [Side -> SUBSET Prices]
  BY DEF Book
<1>2. \A T \in SUBSET Prices : IsFiniteSet(T)
  BY FS_Subset, BookAssumption DEF BookAssumption
<1> QED
  BY <1>1, <1>2

(* Updating one total leaves the others. *)
LEMMA TotalUpdate ==
  ASSUME NEW f \in [Side -> [Prices -> Int]], NEW s \in Side, NEW p \in Prices, NEW v
  PROVE  /\ [f EXCEPT ![s][p] = v][s][p] = v
         /\ \A x \in Side, y \in Prices : x # s \/ y # p => [f EXCEPT ![s][p] = v][x][y] = f[x][y]
  OBVIOUS

(* Updating the totals of a level and of its side. *)
LEMMA ShiftFields ==
  ASSUME NEW b \in Book, NEW s \in Side, NEW p \in Prices, NEW n \in Int, NEW d,
         d.lvl_qty = [b.lvl_qty EXCEPT ![s][p] = @ + n],
         d.side_qty = [b.side_qty EXCEPT ![s] = @ + n]
  PROVE  Shifted(b, d, s, p, n)
<1> DEFINE f == b.lvl_qty
           g == b.side_qty
           v == b.lvl_qty[s][p] + n
<1>1. f \in [Side -> [Prices -> Int]] /\ g \in [Side -> Int]
  BY TotalTypes
<1> DEFINE h == [f EXCEPT ![s][p] = v]
<1>2. d.lvl_qty = h
  OBVIOUS
<1>3. h[s][p] = v /\ \A x \in Side, y \in Prices : x # s \/ y # p => h[x][y] = f[x][y]
  <2> HIDE DEF f, v
  <2> QED
    BY <1>1, TotalUpdate
<1> HIDE DEF h
<1>4. /\ d.lvl_qty[s][p] = v
      /\ \A x \in Side, y \in Prices : x # s \/ y # p => d.lvl_qty[x][y] = f[x][y]
  BY <1>2, <1>3
<1>5. d.side_qty[s] = g[s] + n /\ \A x \in Side : x # s => d.side_qty[x] = g[x]
  BY <1>1
<1> QED
  BY <1>4, <1>5 DEF Shifted

(* What level_dequeue does to the totals. *)
LEMMA DequeueTotals ==
  ASSUME NEW b \in Book, NEW s \in Side, NEW p \in Prices, NEW id, NEW n \in Int,
         NEW d, d = level_dequeue(b, s, p, id, n)
  PROVE  Shifted(b, d, s, p, -n) /\ d.tree = b.tree
<1> DEFINE fifo == [b.fifo EXCEPT ![s][p] = Unlink(b.fifo[s][p], id)]
           lvl_qty == [b.lvl_qty EXCEPT ![s][p] = @ + (-n)]
           side_qty == [b.side_qty EXCEPT ![s] = @ + (-n)]
<1>1. \A x \in Int : x - n = x + (-n)
  OBVIOUS
<1>2. /\ lvl_qty = [b.lvl_qty EXCEPT ![s][p] = @ - n]
      /\ side_qty = [b.side_qty EXCEPT ![s] = @ - n]
  BY <1>1, TotalTypes
<1>3. d = [b EXCEPT !.fifo = fifo, !.lvl_qty = [b.lvl_qty EXCEPT ![s][p] = @ - n],
                    !.side_qty = [b.side_qty EXCEPT ![s] = @ - n]]
  BY DEF level_dequeue
<1>4. d = [b EXCEPT !.fifo = fifo, !.lvl_qty = lvl_qty, !.side_qty = side_qty]
  BY <1>2, <1>3
<1>5. -n \in Int
  OBVIOUS
<1>6. lvl_qty = [b.lvl_qty EXCEPT ![s][p] = @ + (-n)] /\ side_qty = [b.side_qty EXCEPT ![s] = @ + (-n)]
  OBVIOUS
<1> HIDE DEF fifo, lvl_qty, side_qty
<1>7. d.lvl_qty = lvl_qty /\ d.side_qty = side_qty /\ d.tree = b.tree
  BY <1>4 DEF Book
<1> QED
  BY <1>5, <1>6, <1>7, ShiftFields

(* What level_enqueue does to the totals. *)
LEMMA EnqueueTotals ==
  ASSUME NEW b \in Book, NEW s \in Side, NEW p \in Prices, NEW id, NEW n \in Int,
         NEW d, d = level_enqueue(b, s, p, id, n)
  PROVE  Shifted(b, d, s, p, n) /\ d.tree = b.tree
<1> DEFINE fifo == [b.fifo EXCEPT ![s][p] = Append(b.fifo[s][p], id)]
           lvl_qty == [b.lvl_qty EXCEPT ![s][p] = @ + n]
           side_qty == [b.side_qty EXCEPT ![s] = @ + n]
<1>1. d = [b EXCEPT !.fifo = fifo, !.lvl_qty = lvl_qty, !.side_qty = side_qty]
  BY DEF level_enqueue
<1>2. lvl_qty = [b.lvl_qty EXCEPT ![s][p] = @ + n] /\ side_qty = [b.side_qty EXCEPT ![s] = @ + n]
  OBVIOUS
<1> HIDE DEF fifo, lvl_qty, side_qty
<1>3. d.lvl_qty = lvl_qty /\ d.side_qty = side_qty /\ d.tree = b.tree
  BY <1>1 DEF Book
<1> QED
  BY <1>2, <1>3, ShiftFields

(* level_delete and level_create move a level in or out of the tree; a new *)
(* one counts nothing.                                                     *)
LEMMA DeleteTotals ==
  ASSUME NEW b \in Book, NEW s \in Side, NEW p \in Prices, NEW d, d = level_delete(b, s, p)
  PROVE  /\ d.lvl_qty = b.lvl_qty /\ d.side_qty = b.side_qty
<1> DEFINE tree == [b.tree EXCEPT ![s] = @ \ {p}]
           level_count == [b.level_count EXCEPT ![s] = @ - 1]
           level_free_top == b.level_free_top + 1
<1>1. d = [b EXCEPT !.tree = tree, !.level_count = level_count, !.level_free_top = level_free_top]
  BY DEF level_delete
<1> HIDE DEF tree, level_count, level_free_top
<1> QED
  BY <1>1 DEF Book

(* A level that level_create takes from the pool counts nothing; a price   *)
(* without orders counted nothing before either.                           *)
LEMMA CreateTotals ==
  ASSUME NEW b \in Book, NEW s \in Side, NEW p \in Prices, b.lvl_qty[s][p] = 0,
         NEW d, d = level_create(b, s, p)
  PROVE  /\ d.lvl_qty = b.lvl_qty /\ d.side_qty = b.side_qty
<1> DEFINE tree == [b.tree EXCEPT ![s] = @ \cup {p}]
           fifo == [b.fifo EXCEPT ![s][p] = <<>>]
           lvl_qty == [b.lvl_qty EXCEPT ![s][p] = 0]
           level_count == [b.level_count EXCEPT ![s] = @ + 1]
           level_free_top == b.level_free_top - 1
<1>1. d = [b EXCEPT !.tree = tree, !.fifo = fifo, !.lvl_qty = lvl_qty,
                    !.level_count = level_count, !.level_free_top = level_free_top]
  BY DEF level_create
<1>2. lvl_qty = b.lvl_qty
  BY TotalTypes
<1> HIDE DEF tree, fifo, lvl_qty, level_count, level_free_top
<1> QED
  BY <1>1, <1>2 DEF Book
-----------------------------------------------------------------------------
(* The orders at a price are finitely many and their quantities integers.  *)
LEMMA LevelSum ==
  ASSUME NEW P, NEW L, IsFiniteSet(L), Orders(P, L), NEW s, NEW p
  PROVE  /\ IsFiniteSet(At(P, L, s, p))
         /\ \A j \in At(P, L, s, p) : QtyOf(P)[j] = P[j].qty_remain /\ QtyOf(P)[j] \in Int
         /\ QtyAt(P, L, s, p) \in Int
<1>1. At(P, L, s, p) \subseteq L
  BY DEF At
<1>2. IsFiniteSet(At(P, L, s, p))
  BY <1>1, FS_Subset
<1>3. \A j \in At(P, L, s, p) : QtyOf(P)[j] = P[j].qty_remain /\ QtyOf(P)[j] \in Int
  BY <1>1 DEF QtyOf, Orders
<1> QED
  BY <1>2, <1>3, SumType DEF QtyAt

(* The totals depend on the attributes of the orders alone. *)
LEMMA TotalledDependsOn ==
  ASSUME NEW P, NEW Q, NEW L, NEW b, IsFiniteSet(L), Totalled(P, L, b), L \subseteq DOMAIN P,
         L \subseteq DOMAIN Q,
         \A j \in L : /\ Q[j].side = P[j].side /\ Q[j].price = P[j].price
                      /\ Q[j].qty_remain = P[j].qty_remain
  PROVE  Totalled(Q, L, b)
<1>1. ASSUME NEW s \in Side, NEW p \in Prices
      PROVE  QtyAt(Q, L, s, p) = QtyAt(P, L, s, p)
  <2>1. At(Q, L, s, p) = At(P, L, s, p) /\ At(P, L, s, p) \subseteq L
    BY DEF At
  <2>2. IsFiniteSet(At(P, L, s, p))
    BY <2>1, FS_Subset
  <2>3. \A j \in At(P, L, s, p) : QtyOf(Q)[j] = QtyOf(P)[j]
    BY <2>1 DEF QtyOf
  <2>4. SumFunctionOnSet(QtyOf(Q), At(P, L, s, p)) = SumFunctionOnSet(QtyOf(P), At(P, L, s, p))
    BY <2>2, <2>3, SumOfEqual
  <2> QED
    BY <2>1, <2>4 DEF QtyAt
<1> QED
  BY <1>1 DEF Totalled

(* One term more or less shifts a sum by as much. *)
LEMMA SumShift ==
  ASSUME NEW e, NEW f, NEW T, IsFiniteSet(T), NEW p \in T, NEW n \in Int,
         \A y \in T : e[y] \in Int, f[p] = e[p] + n, \A y \in T \ {p} : f[y] = e[y]
  PROVE  SumFunctionOnSet(f, T) = SumFunctionOnSet(e, T) + n
<1>1. \A y \in T : e[y] \in Int /\ f[y] \in Int
  OBVIOUS
<1>2. SumFunctionOnSet(f, T) = SumFunctionOnSet(e, T) - e[p] + f[p]
  BY <1>1, SumUpdate
<1>3. SumFunctionOnSet(e, T) \in Int
  BY SumType
<1> QED
  BY <1>2, <1>3

(* A level that counts nothing may be in the tree or not. *)
LEMMA EmptyLevel ==
  ASSUME NEW f, NEW T, IsFiniteSet(T), NEW p, p \notin T => f[p] = 0,
         \A y \in T \cup {p} : f[y] \in Int
  PROVE  SumFunctionOnSet(f, T \cup {p}) = SumFunctionOnSet(f, T)
<1>1. CASE p \in T
  <2>1. T \cup {p} = T
    BY <1>1
  <2> QED
    BY <2>1
<1>2. CASE p \notin T
  <2>1. SumFunctionOnSet(f, T \cup {p}) = SumFunctionOnSet(f, T) + f[p]
    BY <1>2, SumAdd
  <2>2. SumFunctionOnSet(f, T) \in Int /\ f[p] = 0
    BY <1>2, SumType
  <2> QED
    BY <2>1, <2>2
<1> QED
  BY <1>1, <1>2

(* The argument common to every step that moves quantity: the totals stay  *)
(* sums when one level counts n more in the book and n more in its orders, *)
(* and enters or leaves the tree only while it counts nothing.             *)
LEMMA ShiftTotalled ==
  ASSUME NEW b \in Book, NEW d \in Book, NEW P, NEW L, NEW Q, NEW M, Totalled(P, L, b),
         NEW s \in Side, NEW p \in Prices, NEW n \in Int, Shifted(b, d, s, p, n),
         SameElsewhere(P, L, Q, M, s, p),
         QtyAt(Q, M, s, p) = QtyAt(P, L, s, p) + n,
         \A x \in Side : x # s => d.tree[x] = b.tree[x],
         d.tree[s] \cup {p} = b.tree[s] \cup {p},
         p \notin b.tree[s] => b.lvl_qty[s][p] = 0,
         p \notin d.tree[s] => d.lvl_qty[s][p] = 0
  PROVE  Totalled(Q, M, d)
<1>1. ASSUME NEW x \in Side, NEW y \in Prices
      PROVE  d.lvl_qty[x][y] = QtyAt(Q, M, x, y)
  <2>1. b.lvl_qty[x][y] = QtyAt(P, L, x, y)
    BY DEF Totalled
  <2>2. CASE x = s /\ y = p
    BY <2>1, <2>2 DEF Shifted
  <2>3. CASE x # s \/ y # p
    BY <2>1, <2>3 DEF Shifted, SameElsewhere
  <2> QED
    BY <2>2, <2>3
<1>2. ASSUME NEW x \in Side
      PROVE  d.side_qty[x] = SumFunctionOnSet(d.lvl_qty[x], d.tree[x])
  <2>1. b.side_qty[x] = SumFunctionOnSet(b.lvl_qty[x], b.tree[x])
    BY DEF Totalled
  <2>2. CASE x # s
    <3>1. \A y \in b.tree[x] : d.lvl_qty[x][y] = b.lvl_qty[x][y]
      BY <2>2, TotalTypes DEF Shifted
    <3>2. SumFunctionOnSet(d.lvl_qty[x], b.tree[x]) = SumFunctionOnSet(b.lvl_qty[x], b.tree[x])
      BY <3>1, TotalTypes, SumOfEqual
    <3> QED
      BY <2>1, <2>2, <3>2 DEF Shifted
  <2>3. CASE x = s
    <3> DEFINE e == b.lvl_qty[s]
               f == d.lvl_qty[s]
               T == b.tree[s]
               U == d.tree[s]
    <3>1. /\ IsFiniteSet(T) /\ IsFiniteSet(U) /\ T \subseteq Prices /\ U \subseteq Prices
          /\ \A y \in Prices : e[y] \in Int /\ f[y] \in Int
      BY TotalTypes
    <3>2. /\ U \cup {p} = T \cup {p} /\ f[p] = e[p] + n /\ \A y \in Prices : y # p => f[y] = e[y]
          /\ p \notin T => e[p] = 0
          /\ p \notin U => f[p] = 0
      BY DEF Shifted
    <3>3. b.side_qty[s] = SumFunctionOnSet(e, T) /\ d.side_qty[s] = b.side_qty[s] + n
      BY <2>1, <2>3 DEF Shifted
    <3> HIDE DEF e, f, T, U
    <3>4. IsFiniteSet(T \cup {p})
      BY <3>1, FS_AddElement
    <3>5. /\ \A y \in T \cup {p} : e[y] \in Int
          /\ \A y \in (T \cup {p}) \ {p} : f[y] = e[y]
          /\ \A y \in U \cup {p} : f[y] \in Int
      BY <3>1, <3>2
    <3>6. SumFunctionOnSet(f, T \cup {p}) = SumFunctionOnSet(e, T \cup {p}) + n
      BY <3>2, <3>4, <3>5, SumShift
    <3>7. SumFunctionOnSet(e, T \cup {p}) = SumFunctionOnSet(e, T)
      BY <3>1, <3>2, <3>5, EmptyLevel
    <3>8. SumFunctionOnSet(f, U \cup {p}) = SumFunctionOnSet(f, U)
      BY <3>1, <3>2, <3>5, EmptyLevel
    <3>9. d.side_qty[s] = SumFunctionOnSet(f, U)
      BY <3>2, <3>3, <3>6, <3>7, <3>8
    <3> QED
      BY <2>3, <3>9 DEF f, U
  <2> QED
    BY <2>2, <2>3
<1> QED
  BY <1>1, <1>2 DEF Totalled
-----------------------------------------------------------------------------
(* An order counts at its own price ... *)
LEMMA OneOrderLess ==
  ASSUME NEW P, NEW L, IsFiniteSet(L), Orders(P, L), NEW id \in L, NEW M, M = L \ {id},
         NEW s \in Side, NEW p \in Prices, NEW n \in Nat,
         s = P[id].side, p = P[id].price, n = P[id].qty_remain
  PROVE  /\ QtyAt(P, M, s, p) \in Int
         /\ QtyAt(P, L, s, p) = QtyAt(P, M, s, p) + n
<1> DEFINE A == At(P, L, s, p)
           B == At(P, M, s, p)
           f == QtyOf(P)
<1>1. id \in A /\ B = A \ {id}
  BY DEF At
<1>2. IsFiniteSet(A) /\ \A j \in A : f[j] \in Int
  BY LevelSum
<1>3. f[id] = n /\ n \in Int
  BY DEF QtyOf, Orders
<1>4. QtyAt(P, L, s, p) = SumFunctionOnSet(f, A) /\ QtyAt(P, M, s, p) = SumFunctionOnSet(f, B)
  BY DEF QtyAt
<1> HIDE DEF A, B, f
<1>5. SumFunctionOnSet(f, A) = f[id] + SumFunctionOnSet(f, A \ {id})
  BY <1>1, <1>2, SumSplit
<1>6. SumFunctionOnSet(f, B) \in Int
  <2>1. IsFiniteSet(B) /\ \A j \in B : f[j] \in Int
    BY <1>1, <1>2, FS_RemoveElement
  <2> QED
    BY <2>1, SumType
<1> QED
  BY <1>1, <1>3, <1>4, <1>5, <1>6

(* ... and nowhere else. *)
LEMMA OtherPrices ==
  ASSUME NEW P, NEW L, NEW id \in L, NEW M, M = L \ {id}, NEW s, NEW p,
         s = P[id].side, p = P[id].price
  PROVE  SameElsewhere(P, L, P, M, s, p) /\ SameElsewhere(P, M, P, L, s, p)
<1> SUFFICES ASSUME NEW x, NEW y, x # s \/ y # p PROVE QtyAt(P, M, x, y) = QtyAt(P, L, x, y)
  BY DEF SameElsewhere
<1>1. At(P, M, x, y) = At(P, L, x, y)
  BY DEF At
<1> QED
  BY <1>1 DEF QtyAt

(* Without a level there is no order at a price. *)
LEMMA NoLevelNoOrder ==
  ASSUME NEW b \in Book, NEW P, NEW L, Sound(P, L, b), NEW s \in Side, NEW p \in Prices,
         p \notin b.tree[s]
  PROVE  QtyAt(P, L, s, p) = 0
<1>1. b.fifo[s][p] = <<>>
  BY DEF Sound, InTree
<1>2. \A j \in L : \E i \in 1..Len(b.fifo[P[j].side][P[j].price]) :
                      b.fifo[P[j].side][P[j].price][i] = j
  BY DEF Sound, Linked
<1>3. \A j \in L : P[j].side = s /\ P[j].price = p => FALSE
  BY <1>1, <1>2
<1>4. At(P, L, s, p) = {}
  BY <1>3 DEF At
<1>5. IsFiniteSet({}) /\ \A j \in {} : QtyOf(P)[j] \in Int
  BY FS_EmptySet
<1> QED
  BY <1>4, <1>5, SumType DEF QtyAt

(* Taking an order off its level, with all that it has left, shifts the    *)
(* totals by that, and only its level may leave the tree.                  *)
LEMMA DetachShifts ==
  ASSUME NEW b \in Book, NEW P, NEW L, Orders(P, L), Sound(P, L, b),
         NEW id \in L, NEW s \in Side, NEW p \in Prices, NEW n \in Nat,
         s = P[id].side, p = P[id].price, NEW d, d = Detach(b, s, p, id, n)
  PROVE  /\ Shifted(b, d, s, p, -n)
         /\ p \in b.tree[s] /\ d.tree[s] \cup {p} = b.tree[s]
         /\ \A x \in Side : x # s => d.tree[x] = b.tree[x]
<1> DEFINE q == b.fifo[s][p]
           m == level_dequeue(b, s, p, id, n)
<1>1. q \in Seq(Ids) /\ Len(q) \in Nat
  BY Queues
<1>2. PICK k \in 1..Len(q) : q[k] = id
  BY DEF Sound, Linked
<1>3. \A i \in 1..Len(q) : q[i] = id => i = k
  <2> SUFFICES ASSUME NEW i \in 1..Len(q), q[i] = id, i # k PROVE FALSE
    OBVIOUS
  <2>1. i < k \/ k < i
    BY <1>1
  <2>2. P[id].ts_update < P[id].ts_update
    BY <1>2, <2>1 DEF Sound, InTime
  <2> QED
    BY <2>2 DEF Orders
<1>4. p \in b.tree[s]
  BY <1>2 DEF Sound, InTree
<1>5. Unlink(q, id) \in Seq(Ids)
  <2> HIDE DEF q
  <2> QED
    BY <1>1, <1>2, <1>3, UnlinkRemoves
<1>6. m = level_dequeue(b, s, p, id, n) /\ n \in Int
  OBVIOUS
<1>7. d = IF m.fifo[s][p] = <<>> THEN level_delete(m, s, p) ELSE m
  BY DEF Detach
<1> HIDE DEF m
<1>8. Shifted(b, m, s, p, -n) /\ m.tree = b.tree
  BY <1>6, DequeueTotals
<1>9. m \in Book
  <2>1. Unlink(b.fifo[s][p], id) \in Seq(Ids)
    BY <1>5
  <2> HIDE DEF q
  <2> QED
    BY <1>6, <2>1, DequeueFields
<1>10. CASE m.fifo[s][p] = <<>>
  <2>1. d = level_delete(m, s, p)
    BY <1>7, <1>10
  <2>2. d.lvl_qty = m.lvl_qty /\ d.side_qty = m.side_qty
    BY <1>9, <2>1, DeleteTotals
  <2>3. d.tree[s] = m.tree[s] \ {p} /\ \A x \in Side : x # s => d.tree[x] = m.tree[x]
    BY <1>9, <2>1, DeleteFields
  <2>4. Shifted(b, d, s, p, -n)
    BY <1>8, <2>2 DEF Shifted
  <2> QED
    BY <1>4, <1>8, <2>3, <2>4
<1>11. CASE m.fifo[s][p] # <<>>
  BY <1>4, <1>7, <1>8, <1>11
<1> QED
  BY <1>10, <1>11

(* Taking an order off its level keeps the totals. *)
LEMMA DetachTotalled ==
  ASSUME NEW b \in Book, NEW P, NEW L, IsFiniteSet(L), Orders(P, L), Sound(P, L, b),
         Totalled(P, L, b), NEW id \in L, NEW s, NEW p, NEW n,
         s = P[id].side, p = P[id].price, n = P[id].qty_remain,
         NEW d, d = Detach(b, s, p, id, n)
  PROVE  Totalled(P, L \ {id}, d)
<1> DEFINE M == L \ {id}
           k == -n
<1>0. M = L \ {id}
  OBVIOUS
<1>1. s \in Side /\ p \in Prices /\ n \in Nat /\ n \in Int /\ k \in Int
  BY DEF Orders
<1>2. d \in Book /\ Sound(P, M, d)
  BY <1>1, DetachSound DEF Orders
<1>3. /\ Shifted(b, d, s, p, k)
      /\ p \in b.tree[s] /\ d.tree[s] \cup {p} = b.tree[s]
      /\ \A x \in Side : x # s => d.tree[x] = b.tree[x]
  BY <1>1, DetachShifts
<1> HIDE DEF M, k
<1>4. /\ QtyAt(P, M, s, p) \in Int
      /\ QtyAt(P, L, s, p) = QtyAt(P, M, s, p) + n
  BY <1>1, <1>0, OneOrderLess
<1>5. p \notin d.tree[s] => d.lvl_qty[s][p] = 0
  <2>1. b.lvl_qty[s][p] = QtyAt(P, L, s, p) /\ d.lvl_qty[s][p] = b.lvl_qty[s][p] + k /\ k = -n
    BY <1>1, <1>3 DEF Totalled, Shifted, k
  <2>2. p \notin d.tree[s] => QtyAt(P, M, s, p) = 0
    BY <1>1, <1>2, NoLevelNoOrder
  <2> QED
    BY <1>1, <1>4, <2>1, <2>2
<1>6. d.tree[s] \cup {p} = b.tree[s] \cup {p}
  BY <1>3
<1>7. p \notin b.tree[s] => b.lvl_qty[s][p] = 0
  BY <1>3
<1>8. \A x \in Side : x # s => d.tree[x] = b.tree[x]
  BY <1>3
<1>9. k \in Int /\ Shifted(b, d, s, p, k) /\ QtyAt(P, M, s, p) = QtyAt(P, L, s, p) + k
  <2>1. k \in Int /\ Shifted(b, d, s, p, k)
    BY <1>1, <1>3
  <2>2. QtyAt(P, M, s, p) \in Int /\ QtyAt(P, L, s, p) = QtyAt(P, M, s, p) + n
    BY <1>4
  <2> QED
    BY <1>1, <2>1, <2>2 DEF k
<1>10. SameElsewhere(P, L, P, M, s, p)
  BY <1>0, OtherPrices
<1>11. Totalled(P, M, d)
  BY <1>1, <1>2, <1>5, <1>6, <1>7, <1>8, <1>9, <1>10, ShiftTotalled
<1> QED
  BY <1>11 DEF M

(* Putting an order on the level of its price keeps the totals, whether    *)
(* there is a level or one is created for it.                              *)
LEMMA AttachTotalled ==
  ASSUME NEW b \in Book, NEW P, NEW L, IsFiniteSet(L), NEW id \in Ids, id \notin L,
         Orders(P, L \cup {id}), Sound(P, L, b), Totalled(P, L, b),
         \A j \in L : P[j].ts_update < P[id].ts_update,
         NEW s, NEW p, NEW n, s = P[id].side, p = P[id].price, n = P[id].qty_remain,
         NEW d, d = Attach(b, s, p, id, n)
  PROVE  Totalled(P, L \cup {id}, d)
<1> DEFINE c == IF p \in b.tree[s] THEN b ELSE level_create(b, s, p)
           M == L \cup {id}
<1>1. s \in Side /\ p \in Prices /\ n \in Nat /\ n \in Int
  BY DEF Orders
<1>2. d \in Book /\ Sound(P, M, d)
  BY <1>1, AttachSound DEF Orders
<1>3. p \notin b.tree[s] => b.lvl_qty[s][p] = 0
  BY <1>1, NoLevelNoOrder DEF Totalled
<1>4. d = level_enqueue(c, s, p, id, n)
  BY DEF Attach
<1>5. /\ c \in Book /\ c.lvl_qty = b.lvl_qty /\ c.side_qty = b.side_qty
      /\ c.tree[s] \cup {p} = b.tree[s] \cup {p} /\ p \in c.tree[s]
      /\ \A x \in Side : x # s => c.tree[x] = b.tree[x]
  <2>1. CASE p \in b.tree[s]
    BY <2>1
  <2>2. CASE p \notin b.tree[s]
    <3>1. c = level_create(b, s, p)
      BY <2>2
    <3> HIDE DEF c
    <3>2. c.lvl_qty = b.lvl_qty /\ c.side_qty = b.side_qty
      BY <1>1, <1>3, <2>2, <3>1, CreateTotals
    <3>3. /\ c \in Book /\ c.tree[s] = b.tree[s] \cup {p}
          /\ \A x \in Side : x # s => c.tree[x] = b.tree[x]
      BY <1>1, <3>1, CreateFields
    <3> QED
      BY <3>2, <3>3
  <2> QED
    BY <2>1, <2>2
<1> HIDE DEF c
<1>6. Shifted(c, d, s, p, n) /\ d.tree = c.tree
  BY <1>1, <1>4, <1>5, EnqueueTotals
<1>7. Shifted(b, d, s, p, n)
  <2>1. c.lvl_qty = b.lvl_qty /\ c.side_qty = b.side_qty
    BY <1>5
  <2>2. Shifted(c, d, s, p, n)
    BY <1>6
  <2> QED
    BY <2>1, <2>2, ShiftedFrom
<1>8. L = M \ {id} /\ id \in M /\ IsFiniteSet(M) /\ Orders(P, M)
  BY FS_AddElement
<1> HIDE DEF M
<1>9. QtyAt(P, M, s, p) = QtyAt(P, L, s, p) + n
  BY <1>1, <1>8, OneOrderLess
<1>10. SameElsewhere(P, L, P, M, s, p)
  BY <1>8, OtherPrices
<1>11. Totalled(P, M, d)
  BY <1>1, <1>2, <1>3, <1>5, <1>6, <1>7, <1>9, <1>10, ShiftTotalled
<1> QED
  BY <1>11 DEF M
-----------------------------------------------------------------------------
(* What the invariant of the structures gives the totals. *)
LEMMA BookOfOrders ==
  ASSUME IInv
  PROVE  /\ book \in Book /\ Sound(pool, lookup, book)
         /\ IsFiniteSet(lookup) /\ lookup \subseteq DOMAIN pool /\ lookup \subseteq Ids
         /\ Orders(pool, lookup)
<1>1. book \in Book /\ Sound(pool, lookup, book) /\ lookup \subseteq DOMAIN pool /\ lookup \subseteq Ids
  BY DEF IInv, TypeOK
<1>2. Orders(pool, lookup)
  BY RestingOrder DEF Orders
<1> QED
  BY <1>1, <1>2, IdsFinite

(* The attributes of a resting order that its totals depend on. *)
OrderStays(j) == /\ j \in DOMAIN pool'
                /\ pool'[j].side = pool[j].side /\ pool'[j].price = pool[j].price
                /\ pool'[j].qty_remain = pool[j].qty_remain

(* A step that leaves the book and its orders alone keeps the totals. *)
LEMMA SameTotals ==
  ASSUME IInv, TInv, lookup' = lookup, book' = book, \A j \in lookup : OrderStays(j)
  PROVE  TInv'
<1>1. Totalled(pool, lookup, book) /\ IsFiniteSet(lookup)
      /\ lookup \subseteq DOMAIN pool /\ lookup \subseteq DOMAIN pool'
  BY BookOfOrders DEF TInv, OrderStays
<1>2. \A j \in lookup : /\ pool'[j].side = pool[j].side /\ pool'[j].price = pool[j].price
                        /\ pool'[j].qty_remain = pool[j].qty_remain
  BY DEF OrderStays
<1>3. Totalled(pool', lookup, book)
  BY <1>1, <1>2, TotalledDependsOn
<1> QED
  BY <1>3 DEF TInv

(* A resting order that leaves for good takes all it has from the totals.  *)
LEMMA RemovalTotals ==
  ASSUME IInv, TInv, NEW id \in lookup, lookup' = lookup \ {id},
         book' = Detach(book, pool[id].side, pool[id].price, id, pool[id].qty_remain),
         \A j \in lookup \ {id} : OrderStays(j)
  PROVE  TInv'
<1> DEFINE M == lookup \ {id}
<1>1. Totalled(pool, M, book')
  BY BookOfOrders, DetachTotalled DEF TInv
<1>2. /\ M \subseteq DOMAIN pool /\ M \subseteq DOMAIN pool' /\ IsFiniteSet(M)
      /\ \A j \in M : /\ pool'[j].side = pool[j].side /\ pool'[j].price = pool[j].price
                      /\ pool'[j].qty_remain = pool[j].qty_remain
  BY BookOfOrders, FS_RemoveElement DEF OrderStays
<1>3. lookup' = M
  OBVIOUS
<1> HIDE DEF M
<1>4. Totalled(pool', M, book')
  BY <1>1, <1>2, TotalledDependsOn
<1> QED
  BY <1>3, <1>4 DEF TInv

(* Of the pool only the aggressor changes when it enters, ... *)
LEMMA AddEnterTotals ==
  ASSUME IInv, TInv, NEW s \in Side, NEW p \in Prices, NEW q \in Qtys, AddEnter(s, p, q)
  PROVE  TInv'
<1> DEFINE v == [side |-> s, price |-> p, qty_remain |-> q,
                 ts_submit |-> now + 1, ts_update |-> now + 1]
<1>1. pool' = Put(pool, next_order_id, v) /\ lookup' = lookup /\ book' = book
  BY DEF AddEnter
<1> HIDE DEF v
<1>2. next_order_id \notin DOMAIN pool
  <2>1. \A j \in DOMAIN pool : j < next_order_id /\ j \in Nat
    BY DEF IInv, OrdersInThePast, TypeOK, Ids
  <2>2. next_order_id \in Nat
    BY DEF IInv, TypeOK
  <2> QED
    BY <2>1, <2>2
<1>3. \A j \in lookup : j \in DOMAIN pool' /\ pool'[j] = pool[j]
  BY <1>1, <1>2, BookOfOrders DEF Put
<1> QED
  BY <1>1, <1>3, SameTotals DEF OrderStays

(* ... and when its slot is freed. *)
LEMMA ReleaseSlotTotals ==
  ASSUME IInv, TInv, ~Idle, NEW status, ReleaseSlot(status)
  PROVE  TInv'
<1>1. pool' = Drop(pool, agg) /\ lookup' = lookup /\ book' = book
  BY DEF ReleaseSlot
<1>2. \A j \in lookup : j \in DOMAIN pool' /\ pool'[j] = pool[j]
  BY <1>1, BookOfOrders, Aggressor DEF Drop
<1> QED
  BY <1>1, <1>2, SameTotals DEF OrderStays

(* A fill that the resting order survives shifts its level by as much.     *)
LEMMA FillAggressorTotals ==
  ASSUME IInv, TInv, NEW p \in Prices, FillAggressor(p)
  PROVE  TInv'
<1> DEFINE o == Opp(pool[agg].side)
           r == Head(book.fifo[o][p])
           n == pool[agg].qty_remain
           k == -n
<1>0. Matching(p) /\ lookup' = lookup
  BY DEF FillAggressor
<1>1. ~Idle /\ o \in Side /\ r \in lookup /\ pool[r].side = o /\ pool[r].price = p
      /\ p \in book.tree[o]
  BY <1>0, HeadRests DEF Matching, IsBest
<1>2. /\ n \in Nat /\ k \in Int
      /\ agg \in DOMAIN pool /\ r \in DOMAIN pool /\ r # agg /\ agg \notin lookup
      /\ pool \in [DOMAIN pool -> Order] /\ pool[r] \in Order /\ pool[r].qty_remain \in Nat
  <2>1. agg \in DOMAIN pool /\ agg \notin lookup /\ n \in Nat
    BY <1>1, Aggressor
  <2>2. r \in DOMAIN pool /\ r # agg /\ pool[r] \in Order /\ pool[r].qty_remain \in Nat
    BY <1>1, RestingOrder
  <2>3. pool \in [DOMAIN pool -> Order]
    BY DEF IInv, TypeOK
  <2> QED
    BY <2>1, <2>2, <2>3
<1>3. book' \in Book
  BY IInvStep DEF Next, MatchStep, IInv, TypeOK
<1>4. Shifted(book, book', o, p, k) /\ book'.tree = book.tree
  <2> DEFINE lvl_qty == [book.lvl_qty EXCEPT ![o][p] = @ + k]
             side_qty == [book.side_qty EXCEPT ![o] = @ + k]
  <2>1. \A x \in Int : x - n = x + k
    BY <1>2
  <2>2. /\ book.lvl_qty \in [Side -> [Prices -> Int]] /\ book.side_qty \in [Side -> Int]
        /\ book \in Book
    BY BookOfOrders, TotalTypes
  <2>3. /\ lvl_qty = [book.lvl_qty EXCEPT ![o][p] = @ - n]
        /\ side_qty = [book.side_qty EXCEPT ![o] = @ - n]
    BY <1>1, <2>1, <2>2
  <2>4. book' = [book EXCEPT !.lvl_qty = [book.lvl_qty EXCEPT ![o][p] = @ - n],
                             !.side_qty = [book.side_qty EXCEPT ![o] = @ - n]]
    BY DEF FillAggressor
  <2>5. book' = [book EXCEPT !.lvl_qty = lvl_qty, !.side_qty = side_qty]
    BY <2>3, <2>4
  <2>6. lvl_qty = [book.lvl_qty EXCEPT ![o][p] = @ + k] /\ side_qty = [book.side_qty EXCEPT ![o] = @ + k]
    OBVIOUS
  <2> HIDE DEF lvl_qty, side_qty, o, k
  <2>7. book'.lvl_qty = lvl_qty /\ book'.side_qty = side_qty /\ book'.tree = book.tree
    BY <2>2, <2>5 DEF Book
  <2> QED
    BY <1>1, <1>2, <2>2, <2>6, <2>7, ShiftFields
<1>5. /\ DOMAIN pool' = DOMAIN pool
      /\ pool'[r] = [pool[r] EXCEPT !.qty_remain = pool[r].qty_remain - n]
      /\ \A j \in DOMAIN pool : j # agg /\ j # r => pool'[j] = pool[j]
  <2>1. pool' = [pool EXCEPT ![agg].qty_remain = 0, ![r].qty_remain = @ - n]
    BY DEF FillAggressor
  <2> HIDE DEF o, r, n
  <2> QED
    BY <1>2, <2>1
<1> HIDE DEF o, r, n, k
<1>6. pool'[r].qty_remain = pool[r].qty_remain + k
  BY <1>2, <1>5 DEF Order, k
<1>7. /\ \A j \in lookup : pool'[j].side = pool[j].side /\ pool'[j].price = pool[j].price
      /\ \A j \in lookup : j # r => pool'[j].qty_remain = pool[j].qty_remain
  <2>1. pool'[r].side = pool[r].side /\ pool'[r].price = pool[r].price
    BY <1>2, <1>5 DEF Order
  <2> QED
    BY <1>2, <1>5, <2>1, BookOfOrders
<1>8. \A x \in Side, y \in Prices : At(pool', lookup, x, y) = At(pool, lookup, x, y)
  BY <1>7 DEF At
<1>9. QtyAt(pool', lookup, o, p) = QtyAt(pool, lookup, o, p) + k
  <2> DEFINE A == At(pool, lookup, o, p)
             e == QtyOf(pool)
             f == QtyOf(pool')
  <2>1. IsFiniteSet(A) /\ \A j \in A : e[j] \in Int
    BY LevelSum, BookOfOrders
  <2>2. r \in A
    BY <1>1 DEF At
  <2>3. f[r] = e[r] + k /\ \A j \in A \ {r} : f[j] = e[j]
    BY <1>2, <1>5, <1>6, <1>7, BookOfOrders DEF At, QtyOf
  <2>4. QtyAt(pool', lookup, o, p) = SumFunctionOnSet(f, A) /\ QtyAt(pool, lookup, o, p) = SumFunctionOnSet(e, A)
    BY <1>1, <1>8 DEF QtyAt
  <2> HIDE DEF A, e, f
  <2>5. SumFunctionOnSet(f, A) = SumFunctionOnSet(e, A) + k
    BY <1>2, <2>1, <2>2, <2>3, SumShift
  <2> QED
    BY <2>4, <2>5
<1>10. SameElsewhere(pool, lookup, pool', lookup, o, p)
  <2> SUFFICES ASSUME NEW x \in Side, NEW y \in Prices, x # o \/ y # p
               PROVE  QtyAt(pool', lookup, x, y) = QtyAt(pool, lookup, x, y)
    BY DEF SameElsewhere
  <2>1. \A j \in At(pool, lookup, x, y) : QtyOf(pool')[j] = QtyOf(pool)[j]
    BY <1>1, <1>5, <1>7, BookOfOrders DEF At, QtyOf
  <2>2. IsFiniteSet(At(pool, lookup, x, y))
    BY LevelSum, BookOfOrders
  <2>3. SumFunctionOnSet(QtyOf(pool'), At(pool, lookup, x, y))
          = SumFunctionOnSet(QtyOf(pool), At(pool, lookup, x, y))
    BY <2>1, <2>2, SumOfEqual
  <2> QED
    BY <1>8, <2>3 DEF QtyAt
<1>11. Totalled(pool', lookup, book')
  BY <1>1, <1>2, <1>3, <1>4, <1>9, <1>10, BookOfOrders, ShiftTotalled DEF TInv
<1> QED
  BY <1>0, <1>11 DEF TInv

(* A fill that consumes the resting order removes it, with all it has.     *)
LEMMA FillRestingTotals ==
  ASSUME IInv, TInv, NEW p \in Prices, FillResting(p)
  PROVE  TInv'
<1> DEFINE o == Opp(pool[agg].side)
           r == Head(book.fifo[o][p])
           n == pool[r].qty_remain
           P == [pool EXCEPT ![agg].qty_remain = @ - n]
<1>0. Matching(p)
  BY DEF FillResting
<1>1. ~Idle /\ r \in lookup /\ pool[r].side = o /\ pool[r].price = p
  BY <1>0, HeadRests
<1>2. pool' = Drop(P, r) /\ book' = Detach(book, o, p, r, n) /\ lookup' = lookup \ {r}
  BY DEF FillResting
<1>3. DOMAIN P = DOMAIN pool /\ \A j \in DOMAIN pool : j # agg => P[j] = pool[j]
  BY DEF IInv, TypeOK
<1> HIDE DEF P
<1>4. \A j \in lookup \ {r} : j \in DOMAIN pool' /\ pool'[j] = pool[j]
  BY <1>1, <1>2, <1>3, BookOfOrders, Aggressor DEF Drop
<1>5. \A j \in lookup \ {r} : OrderStays(j)
  BY <1>4 DEF OrderStays
<1>6. book' = Detach(book, pool[r].side, pool[r].price, r, pool[r].qty_remain)
  BY <1>1, <1>2
<1> HIDE DEF o, r, n
<1> QED
  BY <1>1, <1>2, <1>5, <1>6, RemovalTotals

(* A cancelled order leaves, and so does one that a modification loses.    *)
LEMMA DropTotals ==
  ASSUME IInv, TInv, NEW id \in lookup, lookup' = lookup \ {id}, pool' = Drop(pool, id),
         book' = Detach(book, pool[id].side, pool[id].price, id, pool[id].qty_remain)
  PROVE  TInv'
<1>1. \A j \in lookup \ {id} : OrderStays(j)
  BY BookOfOrders DEF Drop, OrderStays
<1> QED
  BY <1>1, RemovalTotals

(* The remainder that comes to rest brings all it has. *)
LEMMA AddRestsTotals ==
  ASSUME IInv, TInv, AddRests
  PROVE  TInv'
<1>1. /\ ~Idle
      /\ book' = Attach(book, pool[agg].side, pool[agg].price, agg, pool[agg].qty_remain)
      /\ lookup' = lookup \cup {agg} /\ pool' = pool
  BY DEF AddRests, LoopOver
<1>2. /\ agg \in Ids /\ agg \notin lookup /\ Orders(pool, lookup \cup {agg})
      /\ \A j \in lookup : pool[j].ts_update < pool[agg].ts_update
  BY <1>1, Aggressor, RestingOrder DEF Orders, IInv, OrdersInThePast
<1>3. Totalled(pool, lookup \cup {agg}, book')
  BY <1>1, <1>2, BookOfOrders, AttachTotalled DEF TInv
<1> QED
  BY <1>1, <1>3 DEF TInv

(* A modified order takes its old quantity along and brings its new one.   *)
LEMMA ModifyMovesTotals ==
  ASSUME IInv, TInv, NEW id \in Ids, NEW p \in Prices, NEW q \in Qtys, ModifyMoves(id, p, q)
  PROVE  TInv'
<1> DEFINE b == Detach(book, pool[id].side, pool[id].price, id, pool[id].qty_remain)
           M == lookup \ {id}
<1>1. /\ id \in lookup /\ lookup' = lookup /\ now \in Nat /\ q \in Nat
      /\ book' = Attach(b, pool[id].side, p, id, q)
      /\ pool' = [pool EXCEPT ![id].price = p, ![id].qty_remain = q, ![id].ts_update = now + 1]
  BY BookAssumption DEF ModifyMoves, IInv, TypeOK, BookAssumption
<1>2. Totalled(pool, M, b) /\ b \in Book /\ Sound(pool, M, b)
  <2>1. Totalled(pool, M, b)
    BY <1>1, BookOfOrders, DetachTotalled DEF TInv
  <2>2. b \in Book /\ Sound(pool, M, b)
    <3>1. pool[id].qty_remain \in Int /\ id \in lookup
      BY <1>1, RestingOrder
    <3>2. \A j \in lookup \ {id} : /\ pool[j].side = pool[j].side /\ pool[j].price = pool[j].price
                                    /\ pool[j].ts_update = pool[j].ts_update
      OBVIOUS
    <3>3. b = Detach(book, pool[id].side, pool[id].price, id, pool[id].qty_remain)
      OBVIOUS
    <3> HIDE DEF b
    <3> QED
      BY <3>1, <3>2, <3>3, LeavesLevel
  <2> QED
    BY <2>1, <2>2
<1>3. /\ pool \in [DOMAIN pool -> Order] /\ id \in DOMAIN pool /\ pool[id] \in Order
  BY <1>1, RestingOrder DEF IInv, TypeOK
<1>4. /\ DOMAIN pool' = DOMAIN pool
      /\ \A j \in DOMAIN pool : j # id => pool'[j] = pool[j]
      /\ pool'[id] = [pool[id] EXCEPT !.price = p, !.qty_remain = q, !.ts_update = now + 1]
  BY <1>1, <1>3
<1>5. /\ pool'[id].side = pool[id].side /\ pool'[id].price = p /\ pool'[id].qty_remain = q
      /\ pool'[id].ts_update = now + 1
  BY <1>3, <1>4 DEF Order
<1>6. /\ IsFiniteSet(M) /\ M \subseteq DOMAIN pool /\ M \subseteq DOMAIN pool'
      /\ \A j \in M : pool'[j] = pool[j]
  BY <1>4, BookOfOrders, FS_RemoveElement
<1>7. \A j \in M : pool'[j].ts_update < pool'[id].ts_update
  <2>1. \A j \in M : pool[j].ts_update <= now /\ pool[j].ts_update \in Nat
    BY <1>6, RestingOrder DEF IInv, OrdersInThePast
  <2> QED
    BY <1>1, <1>5, <1>6, <2>1
<1>8. Orders(pool', M \cup {id})
  <2>1. \A j \in M : /\ j \in DOMAIN pool' /\ pool'[j].side \in Side /\ pool'[j].price \in Prices
                     /\ pool'[j].qty_remain \in Nat /\ pool'[j].ts_update \in Nat
    BY <1>6, RestingOrder
  <2>2. /\ id \in DOMAIN pool' /\ pool'[id].side \in Side /\ pool'[id].price \in Prices
        /\ pool'[id].qty_remain \in Nat /\ pool'[id].ts_update \in Nat
    BY <1>1, <1>3, <1>4, <1>5, RestingOrder
  <2> QED
    BY <2>1, <2>2 DEF Orders
<1>9. Sound(pool', M, b)
  BY <1>2, <1>6, SoundDependsOn
<1>10. M \cup {id} = lookup /\ id \notin M
  BY <1>1
<1> HIDE DEF b, M
<1>11. Totalled(pool', M, b)
  BY <1>2, <1>6, TotalledDependsOn
<1>12. Totalled(pool', M \cup {id}, book')
  <2>1. book' = Attach(b, pool'[id].side, pool'[id].price, id, pool'[id].qty_remain)
    BY <1>1, <1>5
  <2> QED
    BY <1>2, <1>6, <1>7, <1>8, <1>9, <1>10, <1>11, <2>1, AttachTotalled
<1> QED
  BY <1>1, <1>10, <1>12 DEF TInv
-----------------------------------------------------------------------------
(* An empty book reports nothing. *)
LEMMA TInvInit == Init => TInv
<1> SUFFICES ASSUME Init PROVE TInv
  OBVIOUS
<1>1. /\ pool = [i \in {} |-> 0] /\ lookup = {}
      /\ \A s \in Side : /\ book.tree[s] = {} /\ book.side_qty[s] = 0
                         /\ \A p \in Prices : book.lvl_qty[s][p] = 0
  BY DEF Init
<1>2. \A f : SumFunctionOnSet(f, {}) = 0
  <2>1. IsFiniteSet({}) /\ \A f : \A x \in {} : f[x] \in Int
    BY FS_EmptySet
  <2> QED
    BY <2>1, SumType
<1>3. \A s \in Side, p \in Prices : At(pool, lookup, s, p) = {}
  BY <1>1 DEF At
<1> QED
  BY <1>1, <1>2, <1>3 DEF TInv, Totalled, QtyAt

(* Every step keeps the totals. *)
LEMMA TInvStep == IInv /\ TInv /\ [Next]_vars => TInv'
<1> SUFFICES ASSUME IInv, TInv, [Next]_vars PROVE TInv'
  OBVIOUS
<1>0. UNCHANGED <<pool, lookup, book>> => TInv'
  BY DEF TInv
<1>1. ASSUME NEW s \in Side, NEW p \in Prices, NEW q \in Qtys, AddEnter(s, p, q) PROVE TInv'
  BY <1>1, AddEnterTotals
<1>2. ASSUME NEW valid \in BOOLEAN, AddRefused(valid) PROVE TInv'
  BY <1>0, <1>2 DEF AddRefused
<1>3. ASSUME NEW p \in Prices, FillAggressor(p) PROVE TInv'
  BY <1>3, FillAggressorTotals
<1>4. ASSUME NEW p \in Prices, FillResting(p) PROVE TInv'
  BY <1>4, FillRestingTotals
<1>5. CASE AddFilled
  BY <1>5, ReleaseSlotTotals DEF AddFilled
<1>6. CASE AddDropped
  BY <1>6, ReleaseSlotTotals DEF AddDropped, LoopOver
<1>7. CASE AddRests
  BY <1>7, AddRestsTotals
<1>8. ASSUME NEW id \in Ids, CancelOrder(id) PROVE TInv'
  BY <1>8, DropTotals DEF CancelOrder
<1>9. ASSUME NEW id \in Ids, CancelUnknown(id) PROVE TInv'
  BY <1>0, <1>9 DEF CancelUnknown
<1>10. ASSUME NEW id \in Ids, NEW p \in Prices, NEW q \in Qtys, ModifyMoves(id, p, q) PROVE TInv'
  BY <1>10, ModifyMovesTotals
<1>11. ASSUME NEW id \in Ids, NEW p \in Prices, NEW q \in Qtys, ModifyLoses(id, p, q) PROVE TInv'
  BY <1>11, DropTotals DEF ModifyLoses
<1>12. ASSUME NEW id \in Ids, NEW valid \in BOOLEAN, ModifyRefused(id, valid) PROVE TInv'
  BY <1>0, <1>12 DEF ModifyRefused
<1>13. CASE UNCHANGED vars
  BY <1>0, <1>13 DEF vars
<1> QED
  BY <1>1, <1>2, <1>3, <1>4, <1>5, <1>6, <1>7, <1>8, <1>9, <1>10, <1>11, <1>12, <1>13
     DEF Next, Enter, MatchStep, Return, CancelStep, ModifyStep

(* The totals hold in every reachable state. *)
LEMMA TInvAlways == Spec => []TInv
  BY IInvAlways, TInvInit, TInvStep, PTL DEF Spec

(* The orders of a queue are those at its price, each once. *)
LEMMA QueueSum ==
  ASSUME IInv, NEW s \in Side, NEW p \in Prices
  PROVE  QtyAt(pool, lookup, s, p) = SumFunction([i \in 1..Len(book.fifo[s][p]) |->
                                                    pool[book.fifo[s][p][i]].qty_remain])
<1> DEFINE q == book.fifo[s][p]
           I == 1..Len(q)
           e == [i \in I |-> pool[q[i]].qty_remain]
           f == QtyOf(pool)
           A == At(pool, lookup, s, p)
<1>1. q \in Seq(Ids) /\ Len(q) \in Nat
  BY BookOfOrders, Queues
<1>2. \A i \in I : q[i] \in lookup /\ pool[q[i]].side = s /\ pool[q[i]].price = p
  BY BookOfOrders DEF Sound, Linked
<1>3. \A j \in A : \E i \in I : q[i] = j
  BY BookOfOrders DEF Sound, Linked, At
<1>4. {q[i] : i \in I} = A
  BY <1>2, <1>3 DEF At
<1>5. \A i, j \in I : q[i] = q[j] => i = j
  <2>1. \A i, j \in I : i < j => pool[q[i]].ts_update < pool[q[j]].ts_update
    <3>1. InTime(pool, book)
      BY BookOfOrders DEF Sound
    <3> QED
      BY <3>1 DEF InTime
  <2>2. \A i \in I : pool[q[i]].ts_update \in Nat
    BY <1>2, RestingOrder
  <2> SUFFICES ASSUME NEW i \in I, NEW j \in I, q[i] = q[j], i # j PROVE FALSE
    OBVIOUS
  <2>3. i < j \/ j < i
    BY <1>1
  <2> QED
    BY <2>1, <2>2, <2>3
<1>6. \A i \in I : f[q[i]] = pool[q[i]].qty_remain /\ f[q[i]] \in Int
  BY <1>2, BookOfOrders, RestingOrder DEF QtyOf
<1>7. \A i \in I : e[i] = f[q[i]]
  BY <1>6
<1>8. IsFiniteSet(I) /\ DOMAIN e = I
  <2>1. IsFiniteSet(1..Len(q))
    BY <1>1, FS_Interval
  <2> QED
    BY <2>1
<1>9. QtyAt(pool, lookup, s, p) = SumFunctionOnSet(f, A)
  BY DEF QtyAt
<1>10. SumFunction(e) = SumFunctionOnSet(e, I)
  BY <1>8, Zenon DEF SumFunction, SumFunctionOnSet, FoldFunction
<1> HIDE DEF I, e, f, A, q
<1>11. SumFunctionOnSet(e, I) = SumFunctionOnSet(f, {q[i] : i \in I})
  BY <1>5, <1>6, <1>7, <1>8, SumReindexed
<1>12. QtyAt(pool, lookup, s, p) = SumFunction(e)
  BY <1>4, <1>9, <1>10, <1>11
<1> QED
  BY <1>12 DEF e, I, q

(* The totals that ob_depth and the top of the book report are the sums    *)
(* they stand for: lv->total_qty of the orders of the level, and           *)
(* side->total_qty of the levels of the side, after every fill, removal,   *)
(* creation and modification.                                              *)
THEOREM TotalsAlwaysAgree == Spec => []TotalsAgree
<1>1. IInv /\ TInv => TotalsAgree
  <2> SUFFICES ASSUME IInv, TInv, NEW s \in Side
               PROVE  /\ book.side_qty[s] = SumFunctionOnSet(book.lvl_qty[s], book.tree[s])
                      /\ \A p \in book.tree[s] :
                           book.lvl_qty[s][p] =
                             SumFunction([i \in 1..Len(book.fifo[s][p]) |->
                                            pool[book.fifo[s][p][i]].qty_remain])
    BY DEF TotalsAgree
  <2>1. book.side_qty[s] = SumFunctionOnSet(book.lvl_qty[s], book.tree[s])
    BY DEF TInv, Totalled
  <2>2. ASSUME NEW p \in book.tree[s]
        PROVE  book.lvl_qty[s][p] = SumFunction([i \in 1..Len(book.fifo[s][p]) |->
                                                  pool[book.fifo[s][p][i]].qty_remain])
    <3>1. p \in Prices
      BY BookOfOrders, TotalTypes
    <3>2. book.lvl_qty[s][p] = QtyAt(pool, lookup, s, p)
      BY <3>1 DEF TInv, Totalled
    <3> QED
      BY <3>1, <3>2, QueueSum
  <2> QED
    BY <2>1, <2>2
<1> QED
  BY <1>1, IInvAlways, TInvAlways, PTL

-----------------------------------------------------------------------------
(* OrderBook implements PriceTimeBook: under the refinement mapping of     *)
(* OrderBookProps each step of the detailed book is a step of the abstract *)
(* one or changes nothing of it.  IInv supplies what the mapping needs:    *)
(* the head of the best level is the first order in price-time priority,   *)
(* the tree has the prices of the resting orders, and the free slots bound *)
(* their number.                                                           *)

(* The entries of the orders L with attributes P.                          *)
EntryIn(P, id) == [id |-> id, side |-> P[id].side, price |-> P[id].price,
                   qty |-> P[id].qty_remain, ts |-> P[id].ts_update]

EntriesIn(P, L) == {EntryIn(P, id) : id \in L}

Resting == EntriesIn(pool, lookup)
Taker == EntriesIn(pool, DOMAIN pool \cap {agg})

-----------------------------------------------------------------------------
(* The abstract book speaks of sides, prices and priority with the words   *)
(* of the detailed one.                                                    *)
LEMMA SameWords ==
  /\ PT!Side = Side
  /\ \A a, b : PT!Lesser(a, b) = Lesser(a, b)
  /\ \A R, s, p : PT!Eligible(R, s, p) = Eligible(R, s, p)
  /\ \A o, R : PT!IsFirst(o, R) <=> IsFirst(o, R)
  /\ \A S : PT!Cardinality(S) = Cardinality(S)
  /\ \A R, s, p, max : PT!HasRoom(R, s, p, max) <=> HasRoom(R, s, p, max)
<1>1. PT!Side = Side
  BY DEF PT!Side, Side
<1>2. \A a, b : PT!Lesser(a, b) = Lesser(a, b)
  BY DEF PT!Lesser, Lesser
<1>3. \A s, l, p : PT!Crosses(s, l, p) <=> Crosses(s, l, p)
  BY DEF PT!Crosses, Crosses
<1>4. \A s : PT!Opp(s) = Opp(s)
  BY DEF PT!Opp, Opp
<1>5. \A R, s, p : PT!Eligible(R, s, p) = Eligible(R, s, p)
  BY <1>3, <1>4 DEF PT!Eligible, Eligible
<1>6. \A s, p, r : PT!Better(s, p, r) <=> Better(s, p, r)
  BY DEF PT!Better, Better
<1>7. \A o, w : PT!Precedes(o, w) <=> Precedes(o, w)
  BY <1>6 DEF PT!Precedes, Precedes
<1>8. \A o, R : PT!IsFirst(o, R) <=> IsFirst(o, R)
  BY <1>7 DEF PT!IsFirst, IsFirst
<1>9. \A S : PT!Cardinality(S) = Cardinality(S)
  BY Zenon DEF PT!Cardinality, Cardinality
<1>10. \A R, s : PT!PricesOf(R, s) = PricesOf(R, s)
  BY Zenon DEF PT!PricesOf, PricesOf
<1>11. \A R, s, p, max : PT!HasRoom(R, s, p, max) <=> HasRoom(R, s, p, max)
  BY <1>9, <1>10, Zenon DEF PT!HasRoom, HasRoom
<1> QED
  BY <1>1, <1>2, <1>5, <1>8, <1>9, <1>11

(* The mapping of OrderBookProps in these words, before and after a step. *)
LEMMA MappedState ==
  /\ {Entry(id) : id \in lookup} = Resting
  /\ {Entry(id) : id \in DOMAIN pool \cap {agg}} = Taker
  /\ {Entry(id) : id \in lookup}' = Resting'
  /\ {Entry(id) : id \in DOMAIN pool \cap {agg}}' = Taker'
  BY DEF Entry, Resting, Taker, EntriesIn, EntryIn

(* An entry's fields; two orders have different entries. *)
LEMMA EntryFields ==
  ASSUME NEW P, NEW i
  PROVE  /\ EntryIn(P, i).id = i
         /\ EntryIn(P, i).side = P[i].side /\ EntryIn(P, i).price = P[i].price
         /\ EntryIn(P, i).qty = P[i].qty_remain /\ EntryIn(P, i).ts = P[i].ts_update
  BY DEF EntryIn

(* Taking one order away takes its entry away and no other. *)
LEMMA EntriesWithout ==
  ASSUME NEW P, NEW Q, NEW L, NEW id \in L, \A j \in L \ {id} : Q[j] = P[j]
  PROVE  EntriesIn(Q, L \ {id}) = EntriesIn(P, L) \ {EntryIn(P, id)}
<1>1. \A j \in L \ {id} : EntryIn(Q, j) = EntryIn(P, j) /\ EntryIn(P, j) # EntryIn(P, id)
  <2> TAKE j \in L \ {id}
  <2>1. EntryIn(P, j).id # EntryIn(P, id).id
    BY EntryFields
  <2> QED
    BY <2>1 DEF EntryIn
<1> QED
  BY <1>1 DEF EntriesIn

(* The idle book has no taker; in a call of ob_add_order it is the         *)
(* aggressor.                                                              *)
LEMMA TakerIs ==
  ASSUME IInv
  PROVE  /\ Idle => Taker = {}
         /\ ~Idle => Taker = {EntryIn(pool, agg)}
<1>1. DOMAIN pool \subseteq Ids /\ 0 \notin Ids
  BY DEF IInv, TypeOK, Ids
<1>2. ~Idle => agg \in DOMAIN pool
  BY Aggressor
<1> QED
  BY <1>1, <1>2 DEF Taker, EntriesIn, Idle

(* The tree of a side has the prices of its orders. *)
LEMMA TreeHasPrices ==
  ASSUME NEW b \in Book, NEW P, NEW L, Sound(P, L, b), NEW s \in Side,
         \A j \in L : P[j].side \in Side /\ P[j].price \in Prices
  PROVE  PricesOf(EntriesIn(P, L), s) = b.tree[s]
<1>1. ASSUME NEW p \in b.tree[s] PROVE p \in PricesOf(EntriesIn(P, L), s)
  <2>1. p \in Prices /\ b.fifo[s][p] \in Seq(Ids)
    BY DEF Book
  <2>2. b.fifo[s][p] # <<>>
    BY <2>1 DEF Sound, InTree
  <2>3. 1 \in 1..Len(b.fifo[s][p])
    BY <2>1, <2>2
  <2> DEFINE i == b.fifo[s][p][1]
  <2>4. i \in L /\ P[i].side = s /\ P[i].price = p
    BY <2>1, <2>3 DEF Sound, Linked
  <2> HIDE DEF i
  <2>5. EntryIn(P, i) \in EntriesIn(P, L) /\ EntryIn(P, i).side = s /\ EntryIn(P, i).price = p
    BY <2>4, EntryFields DEF EntriesIn
  <2> QED
    BY <2>5 DEF PricesOf
<1>2. ASSUME NEW p \in PricesOf(EntriesIn(P, L), s) PROVE p \in b.tree[s]
  <2>1. PICK j \in L : EntryIn(P, j).side = s /\ EntryIn(P, j).price = p
    BY DEF PricesOf, EntriesIn
  <2>2. P[j].side = s /\ P[j].price = p /\ p \in Prices
    BY <2>1, EntryFields
  <2>3. PICK i \in 1..Len(b.fifo[s][p]) : b.fifo[s][p][i] = j
    BY <2>2 DEF Sound, Linked
  <2>4. b.fifo[s][p] # <<>>
    BY <2>3
  <2> QED
    BY <2>2, <2>4 DEF Sound, InTree
<1> QED
  BY <1>1, <1>2

(* A side has room for a price where ob_add_order and ob_modify_order find *)
(* a level or may have a new one.                                          *)
LEMMA RoomIsLevel ==
  ASSUME NEW b \in Book, NEW P, NEW L, Sound(P, L, b), NEW s \in Side, NEW p,
         \A j \in L : P[j].side \in Side /\ P[j].price \in Prices
  PROVE  HasRoom(EntriesIn(P, L), s, p, OB_MAX_LEVELS)
           <=> (NeedsLevel(b, s, p) => b.level_count[s] < OB_MAX_LEVELS)
<1>1. PricesOf(EntriesIn(P, L), s) = b.tree[s]
  BY TreeHasPrices
<1>2. Cardinality(b.tree[s]) = b.level_count[s]
  BY DEF Sound, Counted
<1> QED
  BY <1>1, <1>2 DEF HasRoom, NeedsLevel

(* The head of the best opposite level within the aggressor's limit is the *)
(* first of the eligible orders: better levels are not within the limit,   *)
(* and the others of its level entered it later.                           *)
LEMMA HeadIsFirst ==
  ASSUME IInv, NEW p \in Prices, Matching(p),
         NEW o, o = Opp(pool[agg].side), NEW r, r = Head(book.fifo[o][p])
  PROVE  IsFirst(EntryIn(pool, r), Eligible(Resting, pool[agg].side, pool[agg].price))
<1> DEFINE E == Eligible(Resting, pool[agg].side, pool[agg].price)
           q == book.fifo[o][p]
<1>1. /\ o \in Side /\ r \in lookup
      /\ pool[r].side = o /\ pool[r].price = p
  BY HeadRests
<1>2. /\ p \in book.tree[o] /\ \A y \in book.tree[o] : ~Better(o, y, p)
      /\ Crosses(pool[agg].side, pool[agg].price, p)
  BY DEF Matching, IsBest
<1>3. book \in Book /\ Linked(pool, lookup, book) /\ InTree(book) /\ InTime(pool, book)
  BY DEF IInv, TypeOK, Sound
<1>4. q \in Seq(Ids) /\ q # <<>>
  BY <1>1, <1>2, <1>3 DEF Book, InTree
<1>5. 1 \in 1..Len(q) /\ r = q[1]
  BY <1>4
<1>6. EntryIn(pool, r) \in E
  BY <1>1, <1>2, EntryFields DEF Eligible, Resting, EntriesIn
<1>7. ASSUME NEW w \in E, w # EntryIn(pool, r) PROVE Precedes(EntryIn(pool, r), w)
  <2>1. PICK j \in lookup : w = EntryIn(pool, j)
    BY DEF Eligible, Resting, EntriesIn
  <2>2. j # r
    BY <1>7, <2>1
  <2>3. w.side = o
    BY DEF Eligible
  <2>4. pool[j].side = o /\ pool[j].price \in Prices
    BY <2>1, <2>3, EntryFields, RestingOrder
  <2> DEFINE y == pool[j].price
  <2>5. PICK i \in 1..Len(book.fifo[o][y]) : book.fifo[o][y][i] = j
    BY <1>3, <2>4 DEF Linked
  <2>6. y \in book.tree[o]
    BY <1>1, <1>3, <2>4, <2>5 DEF InTree
  <2>7. ~Better(o, y, p)
    BY <1>2, <2>6
  <2>8. CASE y = p
    <3>1. i \in 1..Len(q) /\ q[i] = j /\ i # 1
      BY <1>5, <2>2, <2>5, <2>8
    <3>2. 1 < i
      BY <3>1
    <3>3. pool[r].ts_update < pool[j].ts_update
      BY <1>1, <1>3, <1>5, <3>1, <3>2 DEF InTime
    <3> QED
      BY <1>1, <2>1, <2>8, <3>3, EntryFields DEF Precedes
  <2>9. CASE y # p
    <3>1. y \in Int /\ p \in Int
      BY <2>4, BookAssumption DEF BookAssumption
    <3>2. Better(o, p, y)
      BY <2>7, <2>9, <3>1 DEF Better
    <3> QED
      BY <1>1, <2>1, <3>2, EntryFields DEF Precedes
  <2> QED
    BY <2>8, <2>9
<1> QED
  BY <1>6, <1>7 DEF IsFirst

(* When the fill loop is over no resting order is eligible any more. *)
LEMMA NoneEligible ==
  ASSUME IInv, LoopOver
  PROVE  Eligible(Resting, pool[agg].side, pool[agg].price) = {}
<1> DEFINE o == Opp(pool[agg].side)
<1>1. ~Idle /\ \A y \in book.tree[o] : ~Crosses(pool[agg].side, pool[agg].price, y)
  BY DEF LoopOver
<1>2. book \in Book /\ Linked(pool, lookup, book) /\ InTree(book) /\ o \in Side
  BY <1>1, Aggressor DEF IInv, TypeOK, Sound
<1> SUFFICES ASSUME NEW w \in Eligible(Resting, pool[agg].side, pool[agg].price)
             PROVE  FALSE
  OBVIOUS
<1>3. PICK j \in lookup : w = EntryIn(pool, j)
  BY DEF Eligible, Resting, EntriesIn
<1>4. pool[j].side = o /\ Crosses(pool[agg].side, pool[agg].price, pool[j].price)
  BY <1>3, EntryFields DEF Eligible
<1>5. pool[j].price \in Prices
  BY RestingOrder
<1>6. PICK i \in 1..Len(book.fifo[o][pool[j].price]) : book.fifo[o][pool[j].price][i] = j
  BY <1>2, <1>4 DEF Linked
<1>7. pool[j].price \in book.tree[o]
  BY <1>2, <1>5, <1>6 DEF InTree
<1> QED
  BY <1>1, <1>4, <1>7

(* While slots are free there are fewer entries than slots. *)
LEMMA RoomForOneMore ==
  ASSUME IInv, Idle, order_free_top > 0
  PROVE  Cardinality(Resting) < OB_MAX_ORDERS
<1>1. lookup = DOMAIN pool /\ IsFiniteSet(DOMAIN pool)
  <2>1. DOMAIN pool \subseteq Ids /\ 0 \notin Ids
    BY DEF IInv, TypeOK, Ids
  <2> QED
    BY <2>1, IdsFinite DEF IInv, Idle
<1>2. order_free_top + Cardinality(DOMAIN pool) = OB_MAX_ORDERS /\ order_free_top \in Int
  BY DEF IInv, PoolCounted, TypeOK
<1>3. IsFiniteSet(Resting) /\ Cardinality(Resting) <= Cardinality(lookup)
  <2> DEFINE f == [id \in lookup |-> EntryIn(pool, id)]
  <2>1. f \in Surjection(lookup, Resting)
    BY DEF Surjection, Resting, EntriesIn
  <2> QED
    BY <1>1, <2>1, FS_Surjection
<1>4. Cardinality(Resting) \in Nat /\ Cardinality(lookup) \in Nat
  BY <1>1, <1>3, FS_CardinalityType
<1> QED
  BY <1>1, <1>2, <1>3, <1>4
-----------------------------------------------------------------------------
(* A call of ob_add_order enters: a valid order arrives. *)
LEMMA AddEnterArrives ==
  ASSUME IInv, NEW s \in Side, NEW p \in Prices, NEW q \in Qtys, AddEnter(s, p, q)
  PROVE  PT!Arrive(s, p, q)
<1> DEFINE v == [side |-> s, price |-> p, qty_remain |-> q,
                 ts_submit |-> now + 1, ts_update |-> now + 1]
           e == [id |-> next_order_id, side |-> s, price |-> p, qty |-> q, ts |-> now + 1]
<1>1. /\ Idle /\ order_free_top > 0 /\ next_order_id <= MAX_ID /\ now < MAX_TS
      /\ pool' = Put(pool, next_order_id, v)
      /\ next_order_id' = next_order_id + 1 /\ now' = now + 1 /\ agg' = next_order_id
      /\ lookup' = lookup
  BY DEF AddEnter
<1>2. \A j \in DOMAIN pool : j < next_order_id /\ j \in Nat
  BY DEF IInv, OrdersInThePast, TypeOK, Ids
<1>3. next_order_id \notin DOMAIN pool /\ next_order_id \in Nat
  BY <1>2 DEF IInv, TypeOK
<1>4. Resting' = Resting
  <2>1. \A j \in lookup : pool'[j] = pool[j]
    BY <1>1, <1>3 DEF Put, IInv
  <2> QED
    BY <1>1, <2>1 DEF Resting, EntriesIn, EntryIn
<1>5. Taker' = {e}
  <2>1. next_order_id \in DOMAIN pool' /\ pool'[next_order_id] = v
    BY <1>1 DEF Put
  <2>2. EntryIn(pool', next_order_id) = e
    BY <2>1 DEF EntryIn
  <2>3. DOMAIN pool' \cap {agg'} = {next_order_id}
    BY <1>1, <2>1
  <2> HIDE DEF e
  <2> QED
    BY <2>2, <2>3 DEF Taker, EntriesIn
<1>6. Taker = {} /\ Cardinality(Resting) < OB_MAX_ORDERS
  BY <1>1, TakerIs, RoomForOneMore
<1> QED
  BY <1>1, <1>4, <1>5, <1>6, MappedState, SameWords, Zenon DEF PT!Arrive

(* A fill that the resting order survives is a trade that completes the    *)
(* taker.                                                                  *)
LEMMA FillAggressorTrades ==
  ASSUME IInv, NEW p \in Prices, FillAggressor(p)
  PROVE  PT!Trade
<1> DEFINE o == Opp(pool[agg].side)
           r == Head(book.fifo[o][p])
           n == pool[agg].qty_remain
           t == EntryIn(pool, agg)
           w == EntryIn(pool, r)
<1>1. Matching(p) /\ n < pool[r].qty_remain
  BY DEF FillAggressor
<1>2. ~Idle /\ r \in lookup /\ n > 0
  BY <1>1, HeadRests DEF Matching
<1>3. IsFirst(w, Eligible(Resting, pool[agg].side, pool[agg].price))
  BY <1>1, HeadIsFirst
<1>4. /\ pool' = [pool EXCEPT ![agg].qty_remain = 0, ![r].qty_remain = @ - n]
      /\ UNCHANGED <<lookup, next_order_id, now, agg>>
  BY DEF FillAggressor
<1> HIDE DEF o, r
<1>5. /\ pool \in [DOMAIN pool -> Order] /\ agg \in DOMAIN pool /\ r \in DOMAIN pool /\ r # agg
      /\ pool[agg] \in Order /\ pool[r] \in Order
      /\ n \in Nat /\ pool[r].qty_remain \in Nat /\ agg \notin lookup
  BY <1>2, Aggressor, RestingOrder DEF IInv, TypeOK
<1>6. /\ DOMAIN pool' = DOMAIN pool
      /\ pool'[agg] = [pool[agg] EXCEPT !.qty_remain = 0]
      /\ pool'[r] = [pool[r] EXCEPT !.qty_remain = @ - n]
      /\ \A j \in DOMAIN pool : j # agg /\ j # r => pool'[j] = pool[j]
  BY <1>4, <1>5
<1>7. EntryIn(pool', agg) = [t EXCEPT !.qty = n - n]
  BY <1>5, <1>6 DEF EntryIn, Order
<1>8. EntryIn(pool', r) = [w EXCEPT !.qty = pool[r].qty_remain - n]
  BY <1>5, <1>6 DEF EntryIn, Order
<1>9. Taker = {t} /\ Taker' = {EntryIn(pool', agg)}
  BY <1>2, <1>4, <1>5, <1>6, TakerIs DEF Taker, EntriesIn
<1>10. Resting' = (Resting \ {w}) \cup {EntryIn(pool', r)}
  <2>1. \A j \in lookup \ {r} : pool'[j] = pool[j]
    BY <1>5, <1>6 DEF IInv
  <2>2. EntriesIn(pool', lookup \ {r}) = Resting \ {w}
    BY <1>2, <2>1, EntriesWithout DEF Resting
  <2>3. Resting' = EntriesIn(pool', lookup \ {r}) \cup {EntryIn(pool', r)}
    BY <1>2, <1>4 DEF Resting, EntriesIn
  <2> QED
    BY <2>2, <2>3
<1>11. t.qty = n /\ w.qty = pool[r].qty_remain /\ w \in Resting
       /\ t.side = pool[agg].side /\ t.price = pool[agg].price
  BY <1>2, EntryFields DEF Resting, EntriesIn
<1>12. Lesser(t.qty, w.qty) = n /\ w.qty > n
  BY <1>1, <1>5, <1>11 DEF Lesser, r, o
<1> HIDE DEF t, w, n
<1>13. /\ t.qty > 0
       /\ IsFirst(w, Eligible(Resting, t.side, t.price))
       /\ Taker' = {[t EXCEPT !.qty = @ - Lesser(t.qty, w.qty)]}
       /\ Resting' = (Resting \ {w}) \cup
                     (IF w.qty > Lesser(t.qty, w.qty)
                      THEN {[w EXCEPT !.qty = @ - Lesser(t.qty, w.qty)]} ELSE {})
       /\ UNCHANGED <<next_order_id, now>>
  <2>1. Taker' = {[t EXCEPT !.qty = @ - Lesser(t.qty, w.qty)]}
    BY <1>7, <1>9, <1>11, <1>12
  <2>2. {EntryIn(pool', r)} = {[w EXCEPT !.qty = @ - Lesser(t.qty, w.qty)]}
    BY <1>8, <1>11, <1>12
  <2> QED
    BY <1>2, <1>3, <1>4, <1>10, <1>11, <1>12, <2>1, <2>2
<1> QED
  BY <1>9, <1>11, <1>13, MappedState, SameWords, Zenon DEF PT!Trade
(* A fill that consumes the resting order is a trade that takes it out of  *)
(* the book.                                                               *)
LEMMA FillRestingTrades ==
  ASSUME IInv, NEW p \in Prices, FillResting(p)
  PROVE  PT!Trade
<1> DEFINE o == Opp(pool[agg].side)
           r == Head(book.fifo[o][p])
           n == pool[r].qty_remain
           t == EntryIn(pool, agg)
           w == EntryIn(pool, r)
           P == [pool EXCEPT ![agg].qty_remain = @ - n]
<1>1. Matching(p) /\ pool[agg].qty_remain >= n
  BY DEF FillResting
<1>2. ~Idle /\ r \in lookup /\ pool[agg].qty_remain > 0
  BY <1>1, HeadRests DEF Matching
<1>3. IsFirst(w, Eligible(Resting, pool[agg].side, pool[agg].price))
  BY <1>1, HeadIsFirst
<1>4. /\ pool' = Drop(P, r) /\ lookup' = lookup \ {r}
      /\ UNCHANGED <<next_order_id, now, agg>>
  BY DEF FillResting
<1> HIDE DEF o, r
<1>5. /\ pool \in [DOMAIN pool -> Order] /\ agg \in DOMAIN pool /\ r \in DOMAIN pool /\ r # agg
      /\ pool[agg] \in Order /\ n \in Nat /\ pool[agg].qty_remain \in Nat /\ agg \notin lookup
  BY <1>2, Aggressor, RestingOrder DEF IInv, TypeOK
<1> HIDE DEF n
<1>6. /\ DOMAIN pool' = DOMAIN pool \ {r}
      /\ pool'[agg] = [pool[agg] EXCEPT !.qty_remain = @ - n]
      /\ \A j \in DOMAIN pool : j # agg /\ j # r => pool'[j] = pool[j]
  BY <1>4, <1>5 DEF Drop
<1>7. EntryIn(pool', agg) = [t EXCEPT !.qty = pool[agg].qty_remain - n]
  BY <1>5, <1>6 DEF EntryIn, Order
<1>8. Taker = {t} /\ Taker' = {EntryIn(pool', agg)}
  BY <1>2, <1>4, <1>5, <1>6, TakerIs DEF Taker, EntriesIn
<1>9. Resting' = Resting \ {w}
  <2>1. \A j \in lookup \ {r} : pool'[j] = pool[j]
    BY <1>5, <1>6 DEF IInv
  <2>2. EntriesIn(pool', lookup \ {r}) = Resting \ {w}
    BY <1>2, <2>1, EntriesWithout DEF Resting
  <2> QED
    BY <1>4, <2>2 DEF Resting
<1>10. t.qty = pool[agg].qty_remain /\ w.qty = n /\ w \in Resting
       /\ t.side = pool[agg].side /\ t.price = pool[agg].price
  BY <1>2, EntryFields DEF Resting, EntriesIn, n
<1>11. Lesser(t.qty, w.qty) = n /\ ~(w.qty > n)
  BY <1>1, <1>5, <1>10 DEF Lesser, r, o, n
<1> HIDE DEF t, w
<1>12. /\ t.qty > 0
       /\ IsFirst(w, Eligible(Resting, t.side, t.price))
       /\ Taker' = {[t EXCEPT !.qty = @ - Lesser(t.qty, w.qty)]}
       /\ Resting' = (Resting \ {w}) \cup
                     (IF w.qty > Lesser(t.qty, w.qty)
                      THEN {[w EXCEPT !.qty = @ - Lesser(t.qty, w.qty)]} ELSE {})
       /\ UNCHANGED <<next_order_id, now>>
  <2>1. Taker' = {[t EXCEPT !.qty = @ - Lesser(t.qty, w.qty)]}
    BY <1>7, <1>8, <1>10, <1>11
  <2> QED
    BY <1>2, <1>3, <1>4, <1>9, <1>10, <1>11, <2>1
<1> QED
  BY <1>8, <1>10, <1>12, MappedState, SameWords, Zenon DEF PT!Trade

(* The aggressor's slot is freed: the taker is gone, the resting orders    *)
(* are not touched.                                                        *)
LEMMA ReleaseSlotEnds ==
  ASSUME IInv, ~Idle, NEW status, ReleaseSlot(status)
  PROVE  /\ Taker = {EntryIn(pool, agg)} /\ Taker' = {}
         /\ Resting' = Resting
         /\ next_order_id' = next_order_id /\ now' = now
<1>1. /\ pool' = Drop(pool, agg) /\ agg' = 0
      /\ UNCHANGED <<lookup, next_order_id, now>>
  BY DEF ReleaseSlot
<1>2. agg \in DOMAIN pool /\ DOMAIN pool \subseteq Ids /\ 0 \notin Ids
      /\ lookup = DOMAIN pool \ {agg}
  BY Aggressor DEF IInv, TypeOK, Ids
<1>3. DOMAIN pool' = DOMAIN pool \ {agg} /\ \A j \in lookup : pool'[j] = pool[j]
  BY <1>1, <1>2 DEF Drop
<1>4. Taker' = {}
  BY <1>1, <1>2, <1>3 DEF Taker, EntriesIn
<1>5. Resting' = Resting
  BY <1>1, <1>3 DEF Resting, EntriesIn, EntryIn
<1> QED
  BY <1>1, <1>4, <1>5, TakerIs

(* A call that returns FILLED ends a taker with nothing left. *)
LEMMA AddFilledIsFilled ==
  ASSUME IInv, AddFilled
  PROVE  PT!Filled
<1>1. ~Idle /\ pool[agg].qty_remain = 0 /\ ReleaseSlot("FILLED")
  BY DEF AddFilled
<1>2. EntryIn(pool, agg).qty = 0
  BY <1>1, EntryFields
<1>3. EntryIn(pool, agg) \in Taker /\ Taker' = {} /\ Resting' = Resting
      /\ next_order_id' = next_order_id /\ now' = now
  BY <1>1, ReleaseSlotEnds
<1> QED
  BY <1>2, <1>3, MappedState, Zenon DEF PT!Filled

(* A remainder is dropped where its side has no room for its price: when   *)
(* the level pool is exhausted the side is at its limit as well.           *)
LEMMA AddDroppedIsDropped ==
  ASSUME IInv, AddDropped
  PROVE  PT!RestOrDrop
<1> DEFINE t == EntryIn(pool, agg)
           s == pool[agg].side
           p == pool[agg].price
<1>1. /\ LoopOver /\ ~Idle /\ pool[agg].qty_remain > 0 /\ ReleaseSlot("REJECTED")
      /\ NeedsLevel(book, s, p)
      /\ book.level_count[s] >= OB_MAX_LEVELS \/ book.level_free_top = 0
  BY DEF AddDropped, LoopOver
<1>2. t.qty = pool[agg].qty_remain /\ t.side = s /\ t.price = p
  BY EntryFields
<1>3. s \in Side
  BY <1>1, Aggressor
<1>4. /\ book \in Book /\ Sound(pool, lookup, book)
      /\ \A j \in lookup : pool[j].side \in Side /\ pool[j].price \in Prices
  BY RestingOrder DEF IInv, TypeOK
<1>5. ~(book.level_count[s] < OB_MAX_LEVELS)
  <2>1. book.level_count[s] \in Int /\ OB_MAX_LEVELS \in Int /\ book.level_free_top \in Int
    BY <1>3, <1>4, BookAssumption DEF Book, BookAssumption
  <2>2. book.level_count[s] < OB_MAX_LEVELS => book.level_free_top > 0
    BY <1>3, LevelsLeft DEF LevelAllocSafe
  <2> QED
    BY <1>1, <2>1, <2>2
<1>6. ~HasRoom(Resting, s, p, OB_MAX_LEVELS)
  BY <1>1, <1>3, <1>4, <1>5, RoomIsLevel DEF Resting
<1>7. Eligible(Resting, s, p) = {}
  BY <1>1, NoneEligible
<1>8. t \in Taker /\ Taker' = {} /\ Resting' = Resting
      /\ next_order_id' = next_order_id /\ now' = now
  BY <1>1, ReleaseSlotEnds
<1> HIDE DEF t
<1>9. t.qty > 0 /\ Eligible(Resting, t.side, t.price) = {}
      /\ ~HasRoom(Resting, t.side, t.price, OB_MAX_LEVELS)
  BY <1>1, <1>2, <1>6, <1>7
<1> QED
  BY <1>8, <1>9, MappedState, SameWords, Zenon DEF PT!RestOrDrop

(* Otherwise the remainder rests with the price and the time it came with. *)
LEMMA AddRestsRests ==
  ASSUME IInv, AddRests
  PROVE  PT!RestOrDrop
<1> DEFINE t == EntryIn(pool, agg)
           s == pool[agg].side
           p == pool[agg].price
<1>1. /\ LoopOver /\ ~Idle /\ pool[agg].qty_remain > 0
      /\ NeedsLevel(book, s, p) => book.level_count[s] < OB_MAX_LEVELS
      /\ lookup' = lookup \cup {agg} /\ agg' = 0
      /\ UNCHANGED <<pool, next_order_id, now>>
  BY DEF AddRests, LoopOver
<1>2. t.qty = pool[agg].qty_remain /\ t.side = s /\ t.price = p
  BY EntryFields
<1>3. s \in Side
  BY <1>1, Aggressor
<1>4. /\ book \in Book /\ Sound(pool, lookup, book)
      /\ \A j \in lookup : pool[j].side \in Side /\ pool[j].price \in Prices
  BY RestingOrder DEF IInv, TypeOK
<1>5. HasRoom(Resting, s, p, OB_MAX_LEVELS)
  BY <1>1, <1>3, <1>4, RoomIsLevel DEF Resting
<1>6. Eligible(Resting, s, p) = {}
  BY <1>1, NoneEligible
<1>7. Taker = {t} /\ Taker' = {}
  <2>1. DOMAIN pool \subseteq Ids /\ 0 \notin Ids
    BY DEF IInv, TypeOK, Ids
  <2> QED
    BY <1>1, <2>1, TakerIs DEF Taker, EntriesIn
<1>8. Resting' = Resting \cup {t}
  BY <1>1 DEF Resting, EntriesIn
<1> HIDE DEF t
<1>9. t.qty > 0 /\ Eligible(Resting, t.side, t.price) = {}
      /\ HasRoom(Resting, t.side, t.price, OB_MAX_LEVELS)
  BY <1>1, <1>2, <1>5, <1>6
<1> QED
  BY <1>1, <1>7, <1>8, <1>9, MappedState, SameWords, Zenon DEF PT!RestOrDrop
(* An order leaves pool and lookup between calls: its entry leaves the     *)
(* resting orders and no other does.                                       *)
LEMMA OrderLeaves ==
  ASSUME IInv, Idle, NEW id \in lookup,
         pool' = Drop(pool, id), lookup' = lookup \ {id}, agg' = agg
  PROVE  /\ EntryIn(pool, id) \in Resting
         /\ Resting' = Resting \ {EntryIn(pool, id)}
         /\ Taker = {} /\ Taker' = {}
<1>1. DOMAIN pool \subseteq Ids /\ 0 \notin Ids /\ lookup = DOMAIN pool \ {agg}
  BY DEF IInv, TypeOK, Ids
<1>2. DOMAIN pool' \subseteq DOMAIN pool /\ \A j \in lookup \ {id} : pool'[j] = pool[j]
  BY <1>1 DEF Drop
<1>3. Taker = {} /\ Taker' = {}
  BY <1>1, <1>2 DEF Taker, EntriesIn, Idle
<1>4. EntriesIn(pool', lookup \ {id}) = Resting \ {EntryIn(pool, id)}
  BY <1>2, EntriesWithout DEF Resting
<1> QED
  BY <1>3, <1>4 DEF Resting, EntriesIn

(* A cancelled order leaves the resting orders. *)
LEMMA CancelOrderCancels ==
  ASSUME IInv, NEW id \in Ids, CancelOrder(id)
  PROVE  EntryIn(pool, id) \in Resting /\ PT!Cancel(EntryIn(pool, id))
<1>1. /\ Idle /\ id \in lookup /\ pool' = Drop(pool, id) /\ lookup' = lookup \ {id}
      /\ UNCHANGED <<next_order_id, now, agg>>
  BY DEF CancelOrder
<1>2. /\ EntryIn(pool, id) \in Resting
      /\ Resting' = Resting \ {EntryIn(pool, id)}
      /\ Taker = {} /\ Taker' = {}
  BY <1>1, OrderLeaves
<1> QED
  BY <1>1, <1>2, MappedState, Zenon DEF PT!Cancel

(* The side of an order that is off its level has room for the new price   *)
(* where the other resting orders leave room for it.                       *)
LEMMA RoomWithout ==
  ASSUME IInv, NEW id \in lookup, NEW p, NEW b,
         b = Detach(book, pool[id].side, pool[id].price, id, pool[id].qty_remain)
  PROVE  HasRoom(Resting \ {EntryIn(pool, id)}, pool[id].side, p, OB_MAX_LEVELS)
           <=> (NeedsLevel(b, pool[id].side, p) => b.level_count[pool[id].side] < OB_MAX_LEVELS)
<1> DEFINE L == lookup \ {id}
<1>1. pool[id].qty_remain \in Int /\ pool[id].side \in Side
  BY RestingOrder
<1>2. b \in Book /\ Sound(pool, L, b)
  BY <1>1, LeavesLevel
<1>3. \A j \in L : pool[j].side \in Side /\ pool[j].price \in Prices
  BY RestingOrder
<1>4. EntriesIn(pool, L) = Resting \ {EntryIn(pool, id)}
  BY EntriesWithout DEF Resting
<1> HIDE DEF L
<1> QED
  BY <1>1, <1>2, <1>3, <1>4, RoomIsLevel

(* A modification that needs a level the side may not have loses the order. *)
LEMMA ModifyLosesModifies ==
  ASSUME IInv, NEW id \in Ids, NEW p \in Prices, NEW q \in Qtys, ModifyLoses(id, p, q)
  PROVE  EntryIn(pool, id) \in Resting /\ PT!Modify(EntryIn(pool, id), p, q)
<1> DEFINE e == EntryIn(pool, id)
           s == pool[id].side
           b == Detach(book, s, pool[id].price, id, pool[id].qty_remain)
<1>1. /\ Idle /\ id \in lookup /\ now < MAX_TS
      /\ pool' = Drop(pool, id) /\ lookup' = lookup \ {id}
      /\ NeedsLevel(b, s, p) /\ b.level_count[s] >= OB_MAX_LEVELS
      /\ now' = now + 1 /\ UNCHANGED <<next_order_id, agg>>
  BY DEF ModifyLoses
<1>2. /\ e \in Resting /\ Resting' = Resting \ {e}
      /\ Taker = {} /\ Taker' = {}
  BY <1>1, OrderLeaves
<1>3. ~(b.level_count[s] < OB_MAX_LEVELS)
  <2>1. b \in Book
    <3>1. id \in lookup /\ pool[id].qty_remain \in Int
      BY <1>1, RestingOrder
    <3> HIDE DEF b
    <3>2. b = Detach(book, pool[id].side, pool[id].price, id, pool[id].qty_remain)
      BY DEF b
    <3> QED
      BY <3>1, <3>2, LeavesLevel
  <2>2. b.level_count[s] \in Int /\ OB_MAX_LEVELS \in Int
    BY <1>1, <2>1, RestingOrder, BookAssumption DEF Book, BookAssumption
  <2> QED
    BY <1>1, <2>2
<1>4. ~HasRoom(Resting \ {e}, s, p, OB_MAX_LEVELS)
  BY <1>1, <1>3, RoomWithout
<1>5. e.side = s
  BY EntryFields
<1> HIDE DEF e
<1>6. ~HasRoom(Resting \ {e}, e.side, p, OB_MAX_LEVELS)
  BY <1>4, <1>5
<1>7. EntryIn(pool, id) = e
  BY DEF e
<1> QED
  BY <1>1, <1>2, <1>6, <1>7, MappedState, SameWords, Zenon DEF PT!Modify

(* Otherwise it re-enters with the new price, quantity and time. *)
LEMMA ModifyMovesModifies ==
  ASSUME IInv, NEW id \in Ids, NEW p \in Prices, NEW q \in Qtys, ModifyMoves(id, p, q)
  PROVE  EntryIn(pool, id) \in Resting /\ PT!Modify(EntryIn(pool, id), p, q)
<1> DEFINE e == EntryIn(pool, id)
           s == pool[id].side
           b == Detach(book, s, pool[id].price, id, pool[id].qty_remain)
           f == [e EXCEPT !.price = p, !.qty = q, !.ts = now + 1]
<1>1. /\ Idle /\ id \in lookup /\ now < MAX_TS
      /\ pool' = [pool EXCEPT ![id].price = p, ![id].qty_remain = q, ![id].ts_update = now + 1]
      /\ NeedsLevel(b, s, p) => b.level_count[s] < OB_MAX_LEVELS
      /\ now' = now + 1 /\ UNCHANGED <<lookup, next_order_id, agg>>
  BY DEF ModifyMoves
<1>2. /\ DOMAIN pool \subseteq Ids /\ 0 \notin Ids /\ lookup = DOMAIN pool \ {agg}
      /\ pool \in [DOMAIN pool -> Order]
  BY DEF IInv, TypeOK, Ids
<1>3. /\ DOMAIN pool' = DOMAIN pool
      /\ \A j \in lookup \ {id} : pool'[j] = pool[j]
      /\ pool'[id] = [pool[id] EXCEPT !.price = p, !.qty_remain = q, !.ts_update = now + 1]
  BY <1>1, <1>2
<1>4. Taker = {} /\ Taker' = {}
  BY <1>1, <1>2, <1>3 DEF Taker, EntriesIn, Idle
<1>5. EntryIn(pool', id) = f
  <2>1. pool[id] \in Order
    BY <1>1, RestingOrder
  <2>2. /\ pool'[id].side = pool[id].side /\ pool'[id].price = p
        /\ pool'[id].qty_remain = q /\ pool'[id].ts_update = now + 1
    BY <1>3, <2>1 DEF Order
  <2> DEFINE e1 == [e EXCEPT !.price = p]
             e2 == [e1 EXCEPT !.qty = q]
             e3 == [e2 EXCEPT !.ts = now + 1]
  <2>3. e1 = [id |-> id, side |-> pool[id].side, price |-> p, qty |-> pool[id].qty_remain,
              ts |-> pool[id].ts_update]
    BY DEF EntryIn
  <2>4. e3 = f
    OBVIOUS
  <2> HIDE DEF e, e1, f
  <2>5. e2 = [id |-> id, side |-> pool[id].side, price |-> p, qty |-> q,
              ts |-> pool[id].ts_update]
    BY <2>3
  <2> HIDE DEF e2
  <2>6. e3 = [id |-> id, side |-> pool[id].side, price |-> p, qty |-> q, ts |-> now + 1]
    BY <2>5
  <2> HIDE DEF e3
  <2> QED
    BY <2>2, <2>4, <2>6 DEF EntryIn
<1>6. Resting' = (Resting \ {e}) \cup {f}
  <2>0. id \in lookup
    BY <1>1
  <2>1. EntriesIn(pool', lookup \ {id}) = Resting \ {e}
    BY <1>3, <2>0, EntriesWithout DEF Resting
  <2> HIDE DEF e, f
  <2>2. Resting' = EntriesIn(pool', lookup \ {id}) \cup {EntryIn(pool', id)}
    BY <1>1 DEF Resting, EntriesIn
  <2> QED
    BY <1>5, <2>1, <2>2
<1>7. e \in Resting
  BY <1>1 DEF Resting, EntriesIn
<1>8. HasRoom(Resting \ {e}, s, p, OB_MAX_LEVELS)
  BY <1>1, RoomWithout
<1>9. e.side = s
  BY EntryFields
<1>10. EntryIn(pool, id) = e /\ f = [e EXCEPT !.price = p, !.qty = q, !.ts = now + 1]
  OBVIOUS
<1> HIDE DEF e, f
<1>11. HasRoom(Resting \ {e}, e.side, p, OB_MAX_LEVELS)
  BY <1>8, <1>9
<1> QED
  BY <1>1, <1>4, <1>6, <1>7, <1>10, <1>11, MappedState, SameWords, Zenon DEF PT!Modify

-----------------------------------------------------------------------------
(* The calls that change nothing of pool, lookup and aggressor change      *)
(* nothing of the abstract book.                                           *)
LEMMA NothingChanges ==
  ASSUME UNCHANGED <<pool, lookup, next_order_id, now, agg>>
  PROVE  UNCHANGED PT!vars
<1>1. Resting' = Resting /\ Taker' = Taker
  BY DEF Resting, Taker, EntriesIn, EntryIn
<1> QED
  BY <1>1, MappedState, Zenon DEF PT!vars

(* An empty book is an empty abstract book. *)
LEMMA InitMaps == Init => PT!Init
  BY DEF Init, PT!Init

(* Every step of the detailed book is a step of the abstract one or        *)
(* changes nothing of it.                                                  *)
LEMMA StepMaps == IInv /\ [Next]_vars => [PT!Next]_PT!vars
<1> SUFFICES ASSUME IInv, [Next]_vars PROVE PT!Next \/ UNCHANGED PT!vars
  BY Zenon
<1>1. ASSUME NEW s \in Side, NEW p \in Prices, NEW q \in Qtys, AddEnter(s, p, q) PROVE PT!Next
  BY <1>1, AddEnterArrives, SameWords, Zenon DEF PT!Next
<1>2. ASSUME NEW valid \in BOOLEAN, AddRefused(valid) PROVE UNCHANGED PT!vars
  BY <1>2, NothingChanges DEF AddRefused
<1>3. ASSUME NEW p \in Prices, FillAggressor(p) \/ FillResting(p) PROVE PT!Next
  BY <1>3, FillAggressorTrades, FillRestingTrades, Zenon DEF PT!Next
<1>4. CASE Return
  BY <1>4, AddFilledIsFilled, AddDroppedIsDropped, AddRestsRests, Zenon DEF Return, PT!Next
<1>5. ASSUME NEW id \in Ids, CancelOrder(id) PROVE PT!Next
  <2>1. \E o \in Resting : PT!Cancel(o)
    BY <1>5, CancelOrderCancels
  <2> QED
    BY <2>1, MappedState, Zenon DEF PT!Next
<1>6. ASSUME NEW id \in Ids, CancelUnknown(id) PROVE UNCHANGED PT!vars
  BY <1>6, NothingChanges DEF CancelUnknown
<1>7. ASSUME NEW id \in Ids, NEW p \in Prices, NEW q \in Qtys,
             ModifyMoves(id, p, q) \/ ModifyLoses(id, p, q)
      PROVE  PT!Next
  <2>1. \E o \in Resting : PT!Modify(o, p, q)
    BY <1>7, ModifyMovesModifies, ModifyLosesModifies
  <2> QED
    BY <2>1, MappedState, Zenon DEF PT!Next
<1>8. ASSUME NEW id \in Ids, NEW valid \in BOOLEAN, ModifyRefused(id, valid)
      PROVE  UNCHANGED PT!vars
  BY <1>8, NothingChanges DEF ModifyRefused
<1>9. CASE UNCHANGED vars
  BY <1>9, NothingChanges DEF vars
<1> QED
  BY <1>1, <1>2, <1>3, <1>4, <1>5, <1>6, <1>7, <1>8, <1>9, Zenon
     DEF Next, Enter, MatchStep, CancelStep, ModifyStep

(* OrderBook implements the price-time book: whatever its trees, queues,   *)
(* pools and cached values do, which order trades when, what is left of it *)
(* and which orders rest is what price-time priority says.                 *)
THEOREM BookImplementsPriceTime == Spec => AbstractBook
<1>1. Init => PT!Init
  BY InitMaps
<1>2. IInv /\ [Next]_vars => [PT!Next]_PT!vars
  BY StepMaps
<1> QED
  BY <1>1, <1>2, IInvAlways, PTL DEF Spec, AbstractBook, PT!Spec
==============================================================================
