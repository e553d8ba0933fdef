-------------------------- MODULE PipelineProofs ---------------------------
(***************************************************************************)
(* Theorems about Pipeline, for any accounts, orders, limits and sizes:    *)
(* what the gateway's cache admits, that the id map brings every fill to   *)
(* the account that submitted the order, and that realised profit and      *)
(* position account for the cash.  And, from "The loops of the bridge" on, *)
(* about Bridge around it: that the portfolios of the adapter are the      *)
(* pipeline's, that clients are shown the engine's orders, and that rings, *)
(* registry and prices stay within their bounds.                           *)
(***************************************************************************)
EXTENDS PipelineInvariants

-----------------------------------------------------------------------------
(* The gateway. *)

(* The cache and the id after the rate limit. *)
LEMMA AdmittedIs ==
  ASSUME NEW g, DOMAIN g = GatewayFields, NEW m, stage_a_ingress(m)
  PROVE  LET r == Admitted(g, m) IN NotServed(r, g, m) \/ Throttled(r, g, m) \/ Accepted(r, g, m)
<1> DEFINE id == g.next_server_order_id + 1
           f == [g EXCEPT !.next_server_order_id = id]
           x == [k \in DOMAIN g.idem \cup {Key(m)} |-> IF k = Key(m) THEN id ELSE g.idem[k]]
           known == idem_insert(f, m, id)
           pushed == gw_ring_push(known, m)
           dup == Answer(g, "DUPLICATE", g.idem[Key(m)])
           late == Answer(known, "THROTTLED", 0)
           ok == Answer(pushed, "ACCEPTED", id)
           r == Admitted(g, m)
<1>1. r = IF idem_find(g, m) THEN dup ELSE IF RingFull(g) THEN late ELSE ok
  BY Zenon DEF Admitted
<1>2. DOMAIN f = GatewayFields /\ f.next_server_order_id = id /\ f.idem = g.idem /\ f.out_ring = g.out_ring
  BY DEF GatewayFields
<1>3. Caching(known, g, m) /\ known.out_ring = g.out_ring
  <2> DEFINE y == [k \in DOMAIN f.idem \cup {Key(m)} |-> IF k = Key(m) THEN id ELSE f.idem[k]]
             h == [f EXCEPT !.idem = y]
             full == m.client_order_id = 0 \/ Cardinality(DOMAIN f.idem) >= GW_IDEM_CAP
  <2>1. known = IF full THEN f ELSE h
    <3>1. known = IF full THEN f
                  ELSE [f EXCEPT !.idem = [k \in DOMAIN @ \cup {Key(m)} |-> IF k = Key(m) THEN id ELSE @[k]]]
      <4> HIDE DEF f, id
      <4> QED
        BY Zenon DEF idem_insert
    <3> QED
      BY <3>1
  <2>2. y = x
    <3> HIDE DEF f, id
    <3> QED
      BY <1>2
  <2> HIDE DEF y, f, known
  <2>3. DOMAIN h = GatewayFields /\ h.next_server_order_id = id /\ h.idem = y /\ h.out_ring = g.out_ring
    BY <1>2 DEF GatewayFields
  <2> HIDE DEF h, x
  <2>4. CASE full
    <3>1. known = f
      BY <2>1, <2>4
    <3>2. known.idem = g.idem /\ (m.client_order_id = 0 \/ Cardinality(DOMAIN g.idem) >= GW_IDEM_CAP)
      BY <1>2, <2>4, <3>1
    <3> QED
      BY <1>2, <3>1, <3>2 DEF Caching
  <2>5. CASE ~full
    <3>1. known = h
      BY <2>1, <2>5
    <3>2. known.idem = x /\ ~(m.client_order_id = 0 \/ Cardinality(DOMAIN g.idem) >= GW_IDEM_CAP)
      BY <1>2, <2>2, <2>3, <2>5, <3>1
    <3> QED
      BY <2>3, <3>1, <3>2 DEF Caching, x
  <2> QED
    BY <2>4, <2>5
<1> HIDE DEF known, f
<1>4. Caching(pushed, g, m) /\ pushed.out_ring = Append(g.out_ring, m)
  <2>1. DOMAIN known = GatewayFields
    BY <1>3 DEF Caching
  <2>2. pushed = [known EXCEPT !.out_ring = Append(known.out_ring, m)]
    BY DEF gw_ring_push
  <2>3. /\ DOMAIN pushed = GatewayFields /\ pushed.out_ring = Append(known.out_ring, m)
        /\ pushed.next_server_order_id = known.next_server_order_id /\ pushed.idem = known.idem
    BY <2>1, <2>2 DEF GatewayFields
  <2> HIDE DEF pushed
  <2> QED
    BY <1>3, <2>3 DEF Caching
<1> HIDE DEF pushed
<1>5. /\ dup.g = g /\ dup.ack.status = "DUPLICATE" /\ dup.ack.server_order_id = g.idem[Key(m)]
      /\ late.g = known /\ late.ack.status = "THROTTLED"
      /\ ok.g = pushed /\ ok.ack.status = "ACCEPTED" /\ ok.ack.server_order_id = id
  BY DEF Answer
<1> HIDE DEF dup, late, ok, r
<1>6. CASE idem_find(g, m)
  <2>1. r = dup
    BY <1>1, <1>6
  <2> QED
    BY <1>5, <1>6, <2>1 DEF NotServed, SameCache, r
<1>7. CASE ~idem_find(g, m) /\ RingFull(g)
  <2>1. r = late
    BY <1>1, <1>7
  <2> QED
    BY <1>3, <1>5, <1>7, <2>1 DEF Throttled, r
<1>8. CASE ~idem_find(g, m) /\ ~RingFull(g)
  <2>1. r = ok
    BY <1>1, <1>8
  <2> QED
    BY <1>4, <1>5, <1>8, <2>1 DEF Accepted, r
<1> QED
  BY <1>6, <1>7, <1>8

(* gateway_submit as a whole. *)
LEMMA GatewayIs ==
  ASSUME NEW g, DOMAIN g = GatewayFields, NEW m, NEW add
  PROVE  LET r == gateway_submit(g, m, add) IN NotServed(r, g, m) \/ Throttled(r, g, m) \/ Accepted(r, g, m)
<1> DEFINE r == gateway_submit(g, m, add)
           f == rl_refill(g, add)
           t == [f EXCEPT !.tokens = @ - 1]
           bad == Answer(g, "REJECTED", 0)
           killed == Answer(g, "KILLED", 0)
           late == Answer(f, "THROTTLED", 0)
           s == Admitted(t, m)
<1>1. r = IF ~stage_a_ingress(m) THEN bad ELSE IF g.kill_switch /\ m.action = "NEW" THEN killed
          ELSE IF f.tokens = 0 THEN late ELSE s
  BY Zenon DEF gateway_submit
<1>2. SameCache(f, g) /\ f.out_ring = g.out_ring
  <2> DEFINE n == IF g.tokens + add > max_tokens THEN max_tokens ELSE g.tokens + add
  <2>1. f = [g EXCEPT !.tokens = n]
    BY DEF rl_refill
  <2> HIDE DEF n
  <2> QED
    BY <2>1 DEF SameCache, GatewayFields
<1> HIDE DEF f
<1>3. SameCache(t, g) /\ t.out_ring = g.out_ring
  <2> DEFINE n == f.tokens - 1
  <2>1. t = [f EXCEPT !.tokens = n]
    OBVIOUS
  <2> HIDE DEF n
  <2> QED
    BY <1>2, <2>1 DEF SameCache, GatewayFields
<1> HIDE DEF t
<1>4. /\ bad.g = g /\ bad.ack.status = "REJECTED" /\ killed.g = g /\ killed.ack.status = "KILLED"
      /\ late.g = f /\ late.ack.status = "THROTTLED"
  BY DEF Answer
<1> HIDE DEF bad, killed, late, r
<1>5. NotServed(bad, g, m) /\ NotServed(killed, g, m) /\ NotServed(late, g, m)
  BY <1>2, <1>4 DEF NotServed, SameCache
<1>6. ASSUME stage_a_ingress(m) PROVE NotServed(s, g, m) \/ Throttled(s, g, m) \/ Accepted(s, g, m)
  <2>1. DOMAIN t = GatewayFields
    BY <1>3 DEF SameCache
  <2>2. NotServed(s, t, m) \/ Throttled(s, t, m) \/ Accepted(s, t, m)
    BY <1>6, <2>1, AdmittedIs
  <2> HIDE DEF s
  <2>3. t.idem = g.idem /\ t.next_server_order_id = g.next_server_order_id /\ t.out_ring = g.out_ring
    BY <1>3 DEF SameCache
  <2>4. idem_find(t, m) <=> idem_find(g, m)
    BY <2>3 DEF idem_find
  <2> QED
    BY <2>2, <2>3, <2>4 DEF NotServed, Throttled, Accepted, SameCache, Caching
<1> HIDE DEF s
<1> QED
  BY <1>1, <1>5, <1>6 DEF r

(* Giving m an id, and serving it or not. *)
LEMMA CachingKeeps ==
  ASSUME NEW g, NEW served, Cached(g, served), NEW m, ~idem_find(g, m), NEW p, Caching(p, g, m),
         NEW after, \/ after = served
                    \/ /\ after = served \cup {<<g.next_server_order_id + 1, Key(m)>>}
                       /\ m.client_order_id # 0
  PROVE  Cached(p, after)
<1> DEFINE id == g.next_server_order_id + 1
           C == Cardinality(DOMAIN g.idem)
           D == Cardinality(DOMAIN p.idem)
           new == <<id, Key(m)>>
<1>0. /\ g.next_server_order_id \in Nat /\ IsFiniteSet(DOMAIN g.idem) /\ DOMAIN p = GatewayFields
      /\ p.next_server_order_id = id /\ GW_IDEM_CAP \in Nat
  BY GatewayAssumption DEF Cached, Caching
<1>1. id \in Nat /\ \A n \in 1..g.next_server_order_id : n \in 1..id /\ n # id
  BY <1>0
<1>2. id \in 1..id
  BY <1>0
<1>3. C \in Nat
  BY <1>0, FS_CardinalityType
<1>4. /\ DOMAIN p.idem \subseteq DOMAIN g.idem \cup {Key(m)}
      /\ DOMAIN g.idem \subseteq DOMAIN p.idem /\ IsFiniteSet(DOMAIN p.idem)
      /\ \A k \in DOMAIN p.idem : \/ k \in DOMAIN g.idem /\ p.idem[k] = g.idem[k]
                                  \/ k = Key(m) /\ p.idem[k] = id
  <2>1. CASE m.client_order_id = 0 \/ C >= GW_IDEM_CAP
    <3>1. p.idem = g.idem
      BY <2>1 DEF Caching
    <3> QED
      BY <1>0, <3>1
  <2>2. CASE ~(m.client_order_id = 0 \/ C >= GW_IDEM_CAP)
    <3>1. p.idem = [k \in DOMAIN g.idem \cup {Key(m)} |-> IF k = Key(m) THEN id ELSE g.idem[k]]
      BY <2>2 DEF Caching
    <3>2. DOMAIN p.idem = DOMAIN g.idem \cup {Key(m)}
      BY <3>1
    <3>3. IsFiniteSet(DOMAIN g.idem \cup {Key(m)})
      BY <1>0, FS_AddElement
    <3> QED
      BY <3>1, <3>2, <3>3
  <2> QED
    BY <2>1, <2>2
<1>5. \A v \in after : v \in served \/ (v = new /\ m.client_order_id # 0)
  OBVIOUS
<1>6. new[1] = id /\ new[2] = Key(m)
  OBVIOUS
<1> HIDE DEF new, id
<1>7. \A k \in DOMAIN p.idem : p.idem[k] \in 1..id
  BY <1>1, <1>2, <1>4 DEF Cached
<1>8. \A v \in served : v = <<v[1], v[2]>> /\ v[1] \in 1..id /\ v[1] # id
  BY <1>1 DEF Cached
<1>9. \A v \in after : v = <<v[1], v[2]>> /\ v[1] \in 1..id
  <2>1. new = <<new[1], new[2]>>
    BY <1>6 DEF new
  <2> QED
    BY <1>2, <1>5, <1>6, <1>8, <2>1
<1>10. \A v, w \in after : v[1] = w[1] => v = w
  BY <1>5, <1>6, <1>8 DEF Cached
<1>11. \A v \in after : \A k \in DOMAIN p.idem : v[1] = p.idem[k] => v[2] = k
  <2> SUFFICES ASSUME NEW v \in after, NEW k \in DOMAIN p.idem, v[1] = p.idem[k] PROVE v[2] = k
    OBVIOUS
  <2>1. CASE v \in served /\ k \in DOMAIN g.idem /\ p.idem[k] = g.idem[k]
    BY <2>1 DEF Cached
  <2>2. CASE v \in served /\ p.idem[k] = id
    BY <1>8, <2>2
  <2>3. CASE v = new /\ k = Key(m)
    BY <1>6, <2>3
  <2>4. CASE v = new /\ k \in DOMAIN g.idem /\ p.idem[k] = g.idem[k]
    <3>1. g.idem[k] # id
      BY <1>1, <2>4 DEF Cached
    <3> QED
      BY <1>6, <2>4, <3>1
  <2> QED
    BY <1>4, <1>5, <2>1, <2>2, <2>3, <2>4
<1>12. ASSUME D < GW_IDEM_CAP
       PROVE  /\ \A v \in after : v[2] \in DOMAIN p.idem
              /\ \A v, w \in after : v[2] = w[2] => v = w
  <2>1. C <= D
    BY <1>4, FS_Subset
  <2>2. D \in Nat /\ C < GW_IDEM_CAP
    <3>1. D \in Nat
      BY <1>4, FS_CardinalityType
    <3> HIDE DEF C, D
    <3> QED
      BY <1>0, <1>3, <1>12, <2>1, <3>1
  <2>3. /\ \A v \in served : v[2] \in DOMAIN g.idem
        /\ \A v, w \in served : v[2] = w[2] => v = w
    BY <2>2 DEF Cached
  <2>4. m.client_order_id # 0 => Key(m) \notin DOMAIN g.idem /\ Key(m) \in DOMAIN p.idem
    <3> SUFFICES ASSUME m.client_order_id # 0 PROVE Key(m) \notin DOMAIN g.idem /\ Key(m) \in DOMAIN p.idem
      OBVIOUS
    <3>1. Key(m) \notin DOMAIN g.idem
      BY DEF idem_find
    <3>2. ~(C >= GW_IDEM_CAP)
      <4> HIDE DEF C
      <4> QED
        BY <1>0, <1>3, <2>2
    <3>3. p.idem = [k \in DOMAIN g.idem \cup {Key(m)} |-> IF k = Key(m) THEN id ELSE g.idem[k]]
      BY <3>2 DEF Caching, id
    <3> QED
      BY <3>1, <3>3
  <2> QED
    BY <1>4, <1>5, <1>6, <2>3, <2>4
<1> QED
  BY <1>0, <1>1, <1>4, <1>7, <1>9, <1>10, <1>11, <1>12 DEF Cached, id
-----------------------------------------------------------------------------
(* The id map. *)

(* The first place of an id in a map. *)
LEMMA LookupIs ==
  ASSUME NEW map, NEW id, NEW i \in Places(map, id), \A j \in Places(map, id) : i <= j
  PROVE  id_map_lookup_account(map, id) = map[i][2]
<1> DEFINE at == Places(map, id)
           k == CHOOSE k \in at : \A j \in at : k <= j
<1>1. id_map_lookup_account(map, id) = IF at = {} THEN 0 ELSE map[k][2]
  BY Zenon DEF id_map_lookup_account, Places
<1>2. k \in at /\ \A j \in at : k <= j
  <2> HIDE DEF at
  <2>1. \E n \in at : \A j \in at : n <= j
    BY DEF at
  <2> QED
    BY <2>1, Zenon
<1>3. k \in Int /\ i \in Int /\ k <= i /\ i <= k
  <2> HIDE DEF k
  <2> QED
    BY <1>2 DEF Places
<1>4. k = i
  <2> HIDE DEF k
  <2> QED
    BY <1>3
<1> HIDE DEF k, at
<1>5. at # {}
  BY DEF at
<1> QED
  BY <1>1, <1>4, <1>5

(* What the map says of an id is what is known of it, or nothing. *)
LEMMA RecordedLookup ==
  ASSUME NEW map, NEW owner, Recorded(map, owner), NEW id
  PROVE  /\ id_map_lookup_account(map, id) \in {0, id_map_lookup_account(owner, id)}
         /\ Len(owner) <= PIPELINE_MAX_ID_MAP =>
              id_map_lookup_account(map, id) = id_map_lookup_account(owner, id)
<1> DEFINE M == Places(map, id)
           N == Places(owner, id)
<1>0. PIPELINE_MAX_ID_MAP \in Nat
  BY PipelineAssumption
<1>1. /\ Len(map) \in Nat /\ Len(owner) \in Nat /\ Len(map) <= Len(owner)
      /\ \A i \in 1..Len(map) : map[i] = owner[i]
      /\ Len(owner) <= PIPELINE_MAX_ID_MAP => Len(map) = Len(owner)
  BY <1>0 DEF Recorded, Lesser
<1>2. M \subseteq N /\ M \subseteq Nat /\ N \subseteq Nat
  BY <1>1 DEF Places
<1>3. \A i \in N : i \notin M => i > Len(map)
  BY <1>1 DEF Places
<1>4. \A i \in M : i <= Len(map) /\ map[i] = owner[i]
  BY <1>1 DEF Places
<1>5. CASE M # {}
  <2>1. PICK i \in M : \A j \in M : i <= j
    BY <1>2, <1>5, LeastOf
  <2>2. \A j \in N : i <= j
    <3> SUFFICES ASSUME NEW j \in N PROVE i <= j
      OBVIOUS
    <3>1. i \in Nat /\ j \in Nat /\ i <= Len(map) /\ Len(map) \in Nat
      BY <1>1, <1>2, <1>4
    <3>2. j \in M \/ j > Len(map)
      BY <1>3
    <3> HIDE DEF M, N
    <3> QED
      BY <2>1, <3>1, <3>2
  <2>3. id_map_lookup_account(map, id) = map[i][2] /\ id_map_lookup_account(owner, id) = owner[i][2]
    BY <1>2, <2>1, <2>2, LookupIs
  <2> QED
    BY <1>4, <2>3
<1>6. CASE M = {}
  <2>1. \A x : Places(x, id) = {} => id_map_lookup_account(x, id) = 0
    BY Zenon DEF id_map_lookup_account, Places
  <2>2. id_map_lookup_account(map, id) = 0
    BY <1>6, <2>1
  <2>3. Len(owner) <= PIPELINE_MAX_ID_MAP => id_map_lookup_account(owner, id) = 0
    <3>1. Len(owner) <= PIPELINE_MAX_ID_MAP => N = {}
      BY <1>1, <1>6 DEF Places
    <3> QED
      BY <2>1, <3>1
  <2> QED
    BY <2>2, <2>3
<1> QED
  BY <1>5, <1>6

(* Recording the order that has just been given an id. *)
LEMMA RecordedMore ==
  ASSUME NEW map, NEW owner, Recorded(map, owner), NEW x
  PROVE  Recorded(IF Len(map) >= PIPELINE_MAX_ID_MAP THEN map ELSE Append(map, x), Append(owner, x))
<1> DEFINE C == PIPELINE_MAX_ID_MAP
           more == Append(owner, x)
           longer == Append(map, x)
<1>0. C \in Nat
  BY PipelineAssumption
<1>1. /\ IsSeq(map) /\ IsSeq(owner) /\ Len(map) \in Nat /\ Len(owner) \in Nat
      /\ Len(map) = Lesser(Len(owner), C) /\ \A i \in 1..Len(map) : map[i] = owner[i]
  BY DEF Recorded
<1>2. /\ IsSeq(more) /\ Len(more) = Len(owner) + 1 /\ more[Len(owner) + 1] = x
      /\ \A k \in 1..Len(owner) : more[k] = owner[k]
  BY <1>1, AppendIs
<1>3. /\ IsSeq(longer) /\ Len(longer) = Len(map) + 1 /\ longer[Len(map) + 1] = x
      /\ \A k \in 1..Len(map) : longer[k] = map[k]
  BY <1>1, AppendIs
<1> HIDE DEF C, more, longer
<1>4. CASE Len(map) >= C
  <2>1. Len(map) = C /\ Len(map) = Lesser(Len(more), C) /\ Len(map) <= Len(owner)
    BY <1>0, <1>1, <1>2, <1>4 DEF Lesser
  <2>2. \A i \in 1..Len(map) : map[i] = more[i]
    BY <1>1, <1>2, <2>1
  <2>3. Recorded(map, more)
    BY <1>1, <1>2, <2>1, <2>2 DEF Recorded, C
  <2> QED
    BY <1>4, <2>3 DEF C, more
<1>5. CASE ~(Len(map) >= C)
  <2>1. Len(map) = Len(owner) /\ Len(longer) = Lesser(Len(more), C)
    BY <1>0, <1>1, <1>2, <1>3, <1>5 DEF Lesser
  <2>2. \A i \in 1..Len(longer) : longer[i] = more[i]
    BY <1>1, <1>2, <1>3, <2>1
  <2>3. Recorded(longer, more)
    BY <1>1, <1>2, <1>3, <2>1, <2>2 DEF Recorded, C
  <2> QED
    BY <1>5, <2>3 DEF C, more, longer
<1> QED
  BY <1>4, <1>5
-----------------------------------------------------------------------------
(* Applying the trades. *)

(* The history of one leg. *)
LEMMA LegIs ==
  ASSUME NEW acc, NEW h, Books(acc, h), NEW id, NEW side, NEW ev, ev.qty \in Nat \ {0},
         id_map_lookup_account(h.owner, id) \in Accounts
  PROVE  LET a == id_map_lookup_account(h.owner, id)
         IN  LegTaken(LegDone(h, acc, id, side, ev), h, a,
                      h.net[a] + Signed(side, ev.qty), h.cash[a] - Signed(side, ev.price * ev.qty),
                      h.slack[a] + Loss(acc[a], side, ev.qty))
<1> DEFINE a == id_map_lookup_account(h.owner, id)
           net == h.net[a] + Signed(side, ev.qty)
           cash == h.cash[a] - Signed(side, ev.price * ev.qty)
           slack == IF acc[a].net_qty # 0 /\ Extends(acc[a], side)
                    THEN h.slack[a] + Abs(acc[a].net_qty) + ev.qty - 1 ELSE h.slack[a]
           k == LegDone(h, acc, id, side, ev)
           n == [h.net EXCEPT ![a] = net]
           c == [h.cash EXCEPT ![a] = cash]
           s == [h.slack EXCEPT ![a] = slack]
           x == [h EXCEPT !.net = n]
           y == [x EXCEPT !.cash = c]
           z == [y EXCEPT !.slack = s]
<1>1. DOMAIN h = HistFields
  BY DEF Books
<1>2. k = [h EXCEPT !.net[a] = @ + Signed(side, ev.qty),
                    !.cash[a] = @ - Signed(side, ev.price * ev.qty),
                    !.slack[a] = IF acc[a].net_qty # 0 /\ Extends(acc[a], side)
                                 THEN @ + Abs(acc[a].net_qty) + ev.qty - 1 ELSE @]
  BY Zenon DEF LegDone
<1>3. k = z
  BY <1>1, <1>2 DEF HistFields
<1>4. slack = h.slack[a] + Loss(acc[a], side, ev.qty)
  <2>1. Abs(acc[a].net_qty) \in Nat /\ h.slack[a] \in Nat
    BY DEF Books, PortfolioTyped, Within, Abs
  <2> QED
    BY <2>1 DEF Loss
<1> HIDE DEF a, n, c, s, k, net, cash, slack
<1>5. DOMAIN x = HistFields /\ x.net = n /\ x.owner = h.owner /\ x.served = h.served
  BY <1>1 DEF HistFields
<1> HIDE DEF x
<1>6. DOMAIN y = HistFields /\ y.net = n /\ y.cash = c /\ y.owner = h.owner /\ y.served = h.served
  BY <1>5 DEF HistFields
<1> HIDE DEF y
<1>7. /\ DOMAIN z = HistFields /\ z.net = n /\ z.cash = c /\ z.slack = s
      /\ z.owner = h.owner /\ z.served = h.served
  BY <1>6 DEF HistFields
<1> HIDE DEF z
<1>8. LegTaken(k, h, a, net, cash, slack)
  BY <1>3, <1>7 DEF LegTaken, SameOwners, n, c, s
<1> QED
  BY <1>4, <1>8 DEF a, net, cash, k

(* One leg keeps the books, whether the map knows the order or not. *)
LEMMA LegKeeps ==
  ASSUME NEW acc, NEW h, Books(acc, h), NEW id, NEW side \in Side, NEW ev, ev.price \in Nat,
         ev.qty \in Nat \ {0}, NEW x \in {0, id_map_lookup_account(h.owner, id)},
         Len(h.owner) <= PIPELINE_MAX_ID_MAP => x = id_map_lookup_account(h.owner, id)
  PROVE  /\ Books(Fill(acc, x, side, ev), LegDone(h, acc, id, side, ev))
         /\ SameOwners(LegDone(h, acc, id, side, ev), h)
<1> DEFINE a == id_map_lookup_account(h.owner, id)
           k == LegDone(h, acc, id, side, ev)
           t == Fill(acc, x, side, ev)
           q == portfolio_on_fill(acc[a], side, ev.price, ev.qty)
           l == Loss(acc[a], side, ev.qty)
<1>1. 0 \notin Accounts
  BY PipelineAssumption
<1>2. t = IF x \in Accounts THEN [acc EXCEPT ![x] = portfolio_on_fill(acc[x], side, ev.price, ev.qty)]
          ELSE acc
  BY Zenon DEF Fill
<1>3. CASE a \notin Accounts
  <2>1. k = h
    BY <1>3, Zenon DEF LegDone
  <2>2. t = acc
    BY <1>1, <1>2, <1>3
  <2>3. SameOwners(h, h)
    BY DEF Books, SameOwners
  <2> QED
    BY <2>1, <2>2, <2>3
<1>4. CASE a \in Accounts
  <2>1. LegTaken(k, h, a, h.net[a] + Signed(side, ev.qty), h.cash[a] - Signed(side, ev.price * ev.qty),
                 h.slack[a] + l)
    BY <1>4, LegIs
  <2>2. PortfolioTyped(acc[a]) /\ Within(Unexplained(acc[a]), h.slack[a])
    BY <1>4 DEF Books
  <2>3. /\ PortfolioTyped(q) /\ Within(Unexplained(q), h.slack[a] + l)
        /\ q.net_qty = acc[a].net_qty + Signed(side, ev.qty)
        /\ q.cash = acc[a].cash - Signed(side, ev.price * ev.qty)
    <3> DEFINE p == acc[a]
               s == h.slack[a]
               price == ev.price
               qty == ev.qty
    <3>1. PortfolioTyped(p) /\ Within(Unexplained(p), s) /\ price \in Nat /\ qty \in Nat \ {0}
      BY <2>2
    <3> HIDE DEF p, s, price, qty, a
    <3>2. /\ PortfolioTyped(portfolio_on_fill(p, side, price, qty))
          /\ Within(Unexplained(portfolio_on_fill(p, side, price, qty)), s + Loss(p, side, qty))
          /\ portfolio_on_fill(p, side, price, qty).net_qty = p.net_qty + Signed(side, qty)
          /\ portfolio_on_fill(p, side, price, qty).cash = p.cash - Signed(side, price * qty)
      BY <3>1, FillKeeps
    <3> QED
      BY <3>2 DEF p, s, price, qty, a
  <2>4. l \in Nat
    BY <2>2, LossType
  <2>5. x = a \/ (x \notin Accounts /\ ~(Len(h.owner) <= PIPELINE_MAX_ID_MAP))
    BY <1>1
  <2> HIDE DEF a, k, t, q, l
  <2> DEFINE net == h.net[a] + Signed(side, ev.qty)
             cash == h.cash[a] - Signed(side, ev.price * ev.qty)
             slack == h.slack[a] + l
  <2>6. /\ DOMAIN acc = Accounts /\ DOMAIN h = HistFields
        /\ DOMAIN h.net = Accounts /\ DOMAIN h.cash = Accounts /\ DOMAIN h.slack = Accounts
        /\ \A b \in Accounts : PortfolioTyped(acc[b]) /\ Within(Unexplained(acc[b]), h.slack[b])
        /\ Len(h.owner) <= PIPELINE_MAX_ID_MAP =>
             \A b \in Accounts : acc[b].net_qty = h.net[b] /\ acc[b].cash = h.cash[b]
    BY DEF Books
  <2>7. Within(Unexplained(acc[a]), slack)
    <3> DEFINE u == Unexplained(acc[a])
               s == h.slack[a]
    <3>1. Within(u, s)
      BY <2>2
    <3> HIDE DEF u, s
    <3>2. Within(u, s + l)
      BY <2>4, <3>1 DEF Within
    <3> QED
      BY <3>2 DEF u, s
  <2>8. LegTaken(k, h, a, net, cash, slack)
    BY <2>1
  <2>9. Len(h.owner) <= PIPELINE_MAX_ID_MAP =>
          q.net_qty = net /\ q.cash = cash
    BY <1>4, <2>3, <2>6
  <2>10. Within(Unexplained(q), slack)
    BY <2>3
  <2> HIDE DEF net, cash, slack
  <2>11. /\ DOMAIN k = HistFields /\ k.owner = h.owner /\ SameOwners(k, h)
         /\ DOMAIN k.net = Accounts /\ DOMAIN k.cash = Accounts /\ DOMAIN k.slack = Accounts
         /\ \A b \in Accounts : b # a => k.net[b] = h.net[b] /\ k.cash[b] = h.cash[b]
                                         /\ k.slack[b] = h.slack[b]
         /\ k.net[a] = net /\ k.cash[a] = cash /\ k.slack[a] = slack
    BY <1>4, <2>6, <2>8 DEF LegTaken, SameOwners
  <2>12. CASE x = a
    <3>1. t = [acc EXCEPT ![a] = q]
      BY <1>2, <1>4, <2>12 DEF q
    <3>2. DOMAIN t = Accounts /\ t[a] = q /\ \A b \in Accounts : b # a => t[b] = acc[b]
      BY <1>4, <2>6, <3>1
    <3> HIDE DEF Books
    <3>3. \A b \in Accounts : PortfolioTyped(t[b]) /\ Within(Unexplained(t[b]), k.slack[b])
      BY <2>3, <2>6, <2>10, <2>11, <3>2
    <3>4. Len(k.owner) <= PIPELINE_MAX_ID_MAP =>
            \A b \in Accounts : t[b].net_qty = k.net[b] /\ t[b].cash = k.cash[b]
      BY <2>6, <2>9, <2>11, <3>2
    <3>5. Books(t, k)
      BY <2>11, <3>2, <3>3, <3>4 DEF Books
    <3> QED
      BY <2>11, <3>5 DEF t, k
  <2>13. CASE x \notin Accounts /\ ~(Len(h.owner) <= PIPELINE_MAX_ID_MAP)
    <3>1. t = acc
      BY <1>2, <2>13
    <3>2. \A b \in Accounts : PortfolioTyped(acc[b]) /\ Within(Unexplained(acc[b]), k.slack[b])
      BY <2>6, <2>7, <2>11
    <3>3. ~(Len(k.owner) <= PIPELINE_MAX_ID_MAP)
      BY <2>11, <2>13
    <3>4. Books(t, k)
      BY <2>6, <2>11, <3>1, <3>2, <3>3 DEF Books
    <3> QED
      BY <2>11, <3>4 DEF t, k
  <2> QED
    BY <2>5, <2>12, <2>13
<1> QED
  BY <1>3, <1>4

(* Both legs of a trade. *)
LEMMA TradeKeeps ==
  ASSUME NEW acc, NEW h, Books(acc, h), NEW map, Recorded(map, h.owner), NEW ev,
         ev.side \in Side, ev.price \in Nat, ev.qty \in Nat \ {0}
  PROVE  /\ Books(apply_trade(map, acc, ev), TradeDone(h, map, acc, ev))
         /\ SameOwners(TradeDone(h, map, acc, ev), h)
<1> DEFINE x == id_map_lookup_account(map, ev.id)
           y == id_map_lookup_account(map, ev.resting_id)
           t == Fill(acc, x, ev.side, ev)
           k == LegDone(h, acc, ev.id, ev.side, ev)
           u == Fill(t, y, Opp(ev.side), ev)
           j == LegDone(k, t, ev.resting_id, Opp(ev.side), ev)
<1>1. apply_trade(map, acc, ev) = u /\ TradeDone(h, map, acc, ev) = j
  BY Zenon DEF apply_trade, TradeDone
<1>2. /\ x \in {0, id_map_lookup_account(h.owner, ev.id)}
      /\ Len(h.owner) <= PIPELINE_MAX_ID_MAP => x = id_map_lookup_account(h.owner, ev.id)
  BY RecordedLookup
<1>3. /\ y \in {0, id_map_lookup_account(h.owner, ev.resting_id)}
      /\ Len(h.owner) <= PIPELINE_MAX_ID_MAP => y = id_map_lookup_account(h.owner, ev.resting_id)
  BY RecordedLookup
<1>4. Opp(ev.side) \in Side
  BY DEF Opp, Side
<1> HIDE DEF x, y
<1>5. Books(t, k) /\ SameOwners(k, h)
  BY <1>2, LegKeeps
<1> HIDE DEF t, k
<1>6. k.owner = h.owner
  BY <1>5 DEF SameOwners
<1>7. Books(u, j) /\ SameOwners(j, k)
  <2> DEFINE s == Opp(ev.side)
  <2>1. s \in Side
    BY <1>4
  <2>2. /\ y \in {0, id_map_lookup_account(k.owner, ev.resting_id)}
        /\ Len(k.owner) <= PIPELINE_MAX_ID_MAP => y = id_map_lookup_account(k.owner, ev.resting_id)
    BY <1>3, <1>6
  <2> HIDE DEF s
  <2>3. /\ Books(Fill(t, y, s, ev), LegDone(k, t, ev.resting_id, s, ev))
        /\ SameOwners(LegDone(k, t, ev.resting_id, s, ev), k)
    BY <1>5, <2>1, <2>2, LegKeeps
  <2> QED
    BY <2>3 DEF s
<1> HIDE DEF u, j
<1> QED
  BY <1>1, <1>5, <1>7 DEF SameOwners

(* One event. *)
LEMMA EventAppliedKeeps ==
  ASSUME NEW d, NEW h, Draining(d, h), NEW map, Recorded(map, h.owner), NEW ev, TradeSound(ev)
  PROVE  Draining(EventApplied(d, map, ev), h)
<1> DEFINE acc == d.accounts
           g == d.hist
           t == apply_trade(map, acc, ev)
           k == TradeDone(g, map, acc, ev)
           x == [accounts |-> t, last |-> ev.price, hist |-> k]
<1>1. EventApplied(d, map, ev) = IF ev.type # "TRADE" THEN d ELSE x
  BY Zenon DEF EventApplied
<1>2. Books(acc, g) /\ SameOwners(g, h) /\ g.owner = h.owner
  BY DEF Draining, SameOwners
<1>3. ASSUME ev.type = "TRADE" PROVE Draining(x, h)
  <2>1. Recorded(map, g.owner)
    BY <1>2
  <2>2. ev.side \in Side /\ ev.price \in Nat /\ ev.qty \in Nat \ {0}
    BY <1>3 DEF TradeSound
  <2> HIDE DEF acc, g
  <2>3. Books(t, k) /\ SameOwners(k, g)
    BY <1>2, <2>1, <2>2, TradeKeeps
  <2>4. x.accounts = t /\ x.hist = k
    OBVIOUS
  <2> HIDE DEF t, k, x
  <2>5. SameOwners(k, h)
    BY <1>2, <2>3 DEF SameOwners
  <2> QED
    BY <2>3, <2>4, <2>5 DEF Draining
<1> HIDE DEF x
<1> QED
  BY <1>1, <1>3

(* The recursive function of Drained. *)
LEMMA DrainLoopExists ==
  ASSUME NEW base, NEW map, NEW evs, NEW N \in Nat
  PROVE  \E g : DrainLoop(g, N, base, map, evs)
<1> DEFINE step(n, x) == EventApplied(x, map, evs[n])
           G == {n \in Nat : \E g : DrainLoop(g, n, base, map, evs)}
<1>1. 0 \in G
  <2> DEFINE g == [n \in 0..0 |-> base]
  <2>1. g = [n \in 0..0 |-> IF n = 0 THEN base ELSE step(n, g[n - 1])]
    <3> HIDE DEF step
    <3> QED
      OBVIOUS
  <2> QED
    BY <2>1, Zenon DEF DrainLoop
<1>2. ASSUME NEW n \in Nat, n \in G PROVE n + 1 \in G
  <2>1. PICK g : DrainLoop(g, n, base, map, evs)
    BY <1>2
  <2>2. g = [m \in 0..n |-> IF m = 0 THEN base ELSE step(m, g[m - 1])]
    BY <2>1, Zenon DEF DrainLoop
  <2> HIDE DEF step
  <2> DEFINE h == [m \in 0..(n + 1) |-> IF m = 0 THEN base ELSE step(m, g[m - 1])]
  <2>3. \A m \in 0..n : h[m] = g[m]
    <3>1. \A m \in 0..n : g[m] = IF m = 0 THEN base ELSE step(m, g[m - 1])
      BY <2>2, Zenon
    <3>2. \A m \in 0..n : m \in 0..(n + 1)
      OBVIOUS
    <3> QED
      BY <3>1, <3>2, Zenon
  <2>4. \A m \in 0..(n + 1) : m # 0 => h[m - 1] = g[m - 1]
    <3>1. \A m \in 0..(n + 1) : m # 0 => m - 1 \in 0..n
      OBVIOUS
    <3> HIDE DEF h
    <3> QED
      BY <2>3, <3>1
  <2>5. h = [m \in 0..(n + 1) |-> IF m = 0 THEN base ELSE step(m, h[m - 1])]
    <3>1. \A m \in 0..(n + 1) : (IF m = 0 THEN base ELSE step(m, g[m - 1]))
                               = IF m = 0 THEN base ELSE step(m, h[m - 1])
      <4> HIDE DEF h
      <4> QED
        BY <2>4, Zenon
    <3> QED
      BY <3>1, Zenon
  <2>6. DrainLoop(h, n + 1, base, map, evs)
    <3> HIDE DEF h
    <3> QED
      BY <2>5, Zenon DEF DrainLoop, step
  <2> HIDE DEF h
  <2> QED
    BY <2>6
<1>3. Nat \subseteq G
  <2> HIDE DEF G
  <2> QED
    BY <1>1, <1>2, SetOfNats
<1> QED
  BY <1>3

(* The loop of Drained, its accounts and history in step.                   *)
LEMMA DrainedSteps ==
  ASSUME NEW map, Recorded(map, hist.owner), Books(accounts, hist), Len(me.eq) \in Nat,
         \A n \in 1..Len(me.eq) : TradeSound(me.eq[n])
  PROVE  \E g : /\ g[0].accounts = accounts
                /\ \A n \in 1..Len(me.eq) : g[n] = EventApplied(g[n - 1], map, me.eq[n])
                /\ \A n \in 0..Len(me.eq) : Draining(g[n], hist)
                /\ Drained(map) = g[Len(me.eq)]
<1> DEFINE N == Len(me.eq)
           base == [accounts |-> accounts, last |-> last_trade_price, hist |-> hist]
           g == CHOOSE g : DrainLoop(g, N, base, map, me.eq)
<1>1. Drained(map) = g[N]
  BY Zenon DEF Drained, DrainLoop
<1>2. DrainLoop(g, N, base, map, me.eq)
  <2> HIDE DEF base
  <2> QED
    BY DrainLoopExists, Zenon
<1>3. \A n \in 0..N : g[n] = IF n = 0 THEN base ELSE EventApplied(g[n - 1], map, me.eq[n])
  <2> HIDE DEF g, base
  <2> QED
    BY <1>2, Zenon DEF DrainLoop
<1>4. base.accounts = accounts /\ base.hist = hist
  OBVIOUS
<1> HIDE DEF g, base
<1>5. Draining(base, hist)
  BY <1>4 DEF Draining, SameOwners, Books
<1> DEFINE G == {n \in Nat : n <= N => Draining(g[n], hist)}
<1>6. 0 \in G
  <2>1. 0 \in 0..N
    OBVIOUS
  <2>2. g[0] = base
    BY <1>3, <2>1, Zenon
  <2> QED
    BY <1>5, <2>2
<1>7. ASSUME NEW n \in Nat, n \in G PROVE n + 1 \in G
  <2> SUFFICES ASSUME n + 1 <= N PROVE Draining(g[n + 1], hist)
    OBVIOUS
  <2>1. n <= N /\ n + 1 \in 0..N /\ n + 1 \in 1..N /\ n + 1 # 0 /\ (n + 1) - 1 = n
    OBVIOUS
  <2>2. g[n + 1] = EventApplied(g[(n + 1) - 1], map, me.eq[n + 1])
    BY <1>3, <2>1, Zenon
  <2>3. Draining(g[n], hist) /\ TradeSound(me.eq[n + 1])
    BY <1>7, <2>1
  <2>4. Draining(EventApplied(g[n], map, me.eq[n + 1]), hist)
    BY <2>3, EventAppliedKeeps
  <2> QED
    BY <2>1, <2>2, <2>4
<1>8. Nat \subseteq G
  <2> HIDE DEF G
  <2> QED
    BY <1>6, <1>7, SetOfNats
<1>9. \A n \in 0..N : Draining(g[n], hist)
  <2>1. SUFFICES ASSUME NEW n \in 0..N PROVE Draining(g[n], hist)
    OBVIOUS
  <2>2. n \in Nat /\ n <= N
    OBVIOUS
  <2>3. n \in G
    <3> HIDE DEF G
    <3> QED
      BY <1>8, <2>2
  <2> QED
    BY <2>2, <2>3
<1>10. \A n \in 1..N : g[n] = EventApplied(g[n - 1], map, me.eq[n])
  <2>1. \A n \in 1..N : n \in 0..N /\ n # 0
    OBVIOUS
  <2> QED
    BY <1>3, <2>1, Zenon
<1>11. g[0].accounts = accounts
  <2>1. 0 \in 0..N
    OBVIOUS
  <2>2. g[0] = base
    BY <1>3, <2>1, Zenon
  <2> QED
    BY <1>4, <2>2
<1> HIDE DEF N
<1>12. Drained(map) = g[N]
  BY <1>1
<1> QED
  BY <1>9, <1>10, <1>11, <1>12, Zenon DEF N

(* Draining keeps the books. *)
LEMMA DrainedKeeps ==
  ASSUME NEW map, Recorded(map, hist.owner), Books(accounts, hist), Len(me.eq) \in Nat,
         \A n \in 1..Len(me.eq) : TradeSound(me.eq[n])
  PROVE  Draining(Drained(map), hist)
<1>1. PICK g : /\ \A n \in 0..Len(me.eq) : Draining(g[n], hist)
               /\ Drained(map) = g[Len(me.eq)]
  BY DrainedSteps, Zenon
<1>2. Len(me.eq) \in 0..Len(me.eq)
  OBVIOUS
<1> QED
  BY <1>1, <1>2, Zenon

(* The cache depends on nothing else of the gateway. *)
LEMMA CachedSame ==
  ASSUME NEW g, NEW served, Cached(g, served), NEW p, SameCache(p, g)
  PROVE  Cached(p, served)
BY DEF Cached, SameCache

(* No message has the id 0. *)
LEMMA NothingTold ==
  ASSUME NEW g, NEW served, Cached(g, served)
  PROVE  AckTold(served, NoAck)
<1>1. \A v \in served : v[1] \in 1..g.next_server_order_id /\ g.next_server_order_id \in Nat
  BY DEF Cached
<1>2. NoAck.server_order_id = 0
  BY DEF NoAck
<1> QED
  BY <1>1, <1>2 DEF AckTold

(* gateway_submit keeps the cache, tells no duplicate the id of another     *)
(* key, and puts nothing malformed into the ring.                           *)
LEMMA GatewayKeeps ==
  ASSUME NEW g, NEW served, Cached(g, served), NEW m, NEW add
  PROVE  LET r == gateway_submit(g, m, add)
             after == ServedAfter(served, m, r.ack)
         IN  /\ Cached(r.g, after) /\ AckTold(after, AckAfter(m, r.ack))
             /\ \/ r.g.out_ring = g.out_ring
                \/ r.g.out_ring = Append(g.out_ring, m) /\ stage_a_ingress(m)
<1> DEFINE r == gateway_submit(g, m, add)
           after == ServedAfter(served, m, r.ack)
           told == AckAfter(m, r.ack)
<1>0. DOMAIN g = GatewayFields
  BY DEF Cached
<1>1. NotServed(r, g, m) \/ Throttled(r, g, m) \/ Accepted(r, g, m)
  BY <1>0, GatewayIs
<1>2. Sender(m) = Key(m)
  BY DEF Sender, Key
<1> HIDE DEF r
<1>3. ASSUME NotServed(r, g, m)
      PROVE  Cached(r.g, after) /\ AckTold(after, told) /\ r.g.out_ring = g.out_ring
  <2>1. after = served
    BY <1>3 DEF NotServed, ServedAfter
  <2>2. Cached(r.g, served) /\ r.g.out_ring = g.out_ring
    BY <1>3, CachedSame DEF NotServed
  <2>3. CASE r.ack.status # "DUPLICATE"
    <3>1. told = NoAck
      BY <2>3 DEF AckAfter
    <3> QED
      BY <2>1, <2>2, <3>1, NothingTold
  <2>4. CASE r.ack.status = "DUPLICATE"
    <3>1. Key(m) \in DOMAIN g.idem /\ r.ack.server_order_id = g.idem[Key(m)]
      BY <1>3, <2>4 DEF NotServed, idem_find
    <3>2. told.key = Key(m) /\ told.server_order_id = g.idem[Key(m)]
      BY <1>2, <2>4, <3>1 DEF AckAfter
    <3>3. \A v \in served : v[1] = g.idem[Key(m)] => v[2] = Key(m)
      BY <3>1 DEF Cached
    <3> QED
      BY <2>1, <2>2, <3>2, <3>3 DEF AckTold
  <2> QED
    BY <2>3, <2>4
<1>4. ASSUME Throttled(r, g, m)
      PROVE  Cached(r.g, after) /\ AckTold(after, told) /\ r.g.out_ring = g.out_ring
  <2>1. after = served /\ told = NoAck
    BY <1>4 DEF Throttled, ServedAfter, AckAfter
  <2> DEFINE p == r.g
  <2>2. Caching(p, g, m) /\ ~idem_find(g, m) /\ p.out_ring = g.out_ring
    BY <1>4 DEF Throttled
  <2> HIDE DEF p, after, told
  <2>3. Cached(p, after)
    BY <2>1, <2>2, CachingKeeps
  <2> QED
    BY <2>1, <2>2, <2>3, NothingTold DEF p
<1>5. ASSUME Accepted(r, g, m)
      PROVE  /\ Cached(r.g, after) /\ AckTold(after, told)
             /\ r.g.out_ring = Append(g.out_ring, m) /\ stage_a_ingress(m)
  <2> DEFINE p == r.g
             id == g.next_server_order_id + 1
  <2>1. /\ Caching(p, g, m) /\ ~idem_find(g, m) /\ p.out_ring = Append(g.out_ring, m)
        /\ stage_a_ingress(m)
    BY <1>5 DEF Accepted
  <2>2. r.ack.status = "ACCEPTED" /\ r.ack.server_order_id = id
    BY <1>5 DEF Accepted
  <2>3. told = NoAck
    BY <2>2 DEF AckAfter
  <2>4. \/ after = served
        \/ after = served \cup {<<id, Key(m)>>} /\ m.client_order_id # 0
    BY <1>2, <2>2 DEF ServedAfter
  <2> HIDE DEF p, after, told
  <2>5. Cached(p, after)
    BY <2>1, <2>4, CachingKeeps DEF id
  <2> QED
    BY <2>1, <2>3, <2>5, NothingTold DEF p
<1> QED
  BY <1>1, <1>3, <1>4, <1>5 DEF r
-----------------------------------------------------------------------------
(* The invariant. *)

(* pipeline_init establishes the invariant, wherever the gateway's ids start. *)
LEMMA PInvInit ==
  ASSUME NEW base \in Nat, InitFrom(base)
  PROVE  PInv
<1>1. EngineSound
  BY EngineStarts DEF InitFrom, EngineSound
<1>2. /\ gateway = [gateway_init EXCEPT !.next_server_order_id = base] /\ id_map = <<>>
      /\ accounts = [a \in Accounts |-> portfolio_init(max_position, max_order_notional)]
      /\ cur = NoEvent /\ ack = NoAck
      /\ hist = [owner |-> <<>>, net |-> [a \in Accounts |-> 0], cash |-> [a \in Accounts |-> 0],
                 slack |-> [a \in Accounts |-> 0], served |-> {}]
  BY DEF InitFrom
<1>3. /\ DOMAIN gateway = GatewayFields /\ gateway.out_ring = <<>>
      /\ gateway.next_server_order_id = base /\ gateway.idem = [key \in {} |-> 0]
  BY <1>2 DEF gateway_init, GatewayFields
<1>4. /\ DOMAIN hist = HistFields /\ hist.owner = <<>> /\ hist.served = {}
      /\ hist.net = [a \in Accounts |-> 0] /\ hist.cash = [a \in Accounts |-> 0]
      /\ hist.slack = [a \in Accounts |-> 0]
  BY <1>2 DEF HistFields
<1>5. Cached(gateway, hist.served)
  <2>1. DOMAIN gateway.idem = {}
    BY <1>3
  <2> QED
    BY <1>3, <1>4, <2>1, FS_EmptySet DEF Cached
<1>6. AckTold(hist.served, ack)
  BY <1>4 DEF AckTold
<1>7. gateway.out_ring \in Seq(Posted)
  BY <1>3
<1>8. Books(accounts, hist)
  <2> DEFINE p == portfolio_init(max_position, max_order_notional)
  <2>1. /\ DOMAIN p = PortfolioFields /\ p.cash = 0 /\ p.net_qty = 0 /\ p.avg_price = 0
        /\ p.realised_pnl = 0
    BY DEF portfolio_init, PortfolioFields
  <2>2. PortfolioTyped(p) /\ Within(Unexplained(p), 0)
    BY <2>1 DEF PortfolioTyped, Within, Unexplained
  <2>3. accounts = [a \in Accounts |-> p]
    BY <1>2
  <2> HIDE DEF p
  <2>4. DOMAIN accounts = Accounts /\ \A a \in Accounts : accounts[a] = p
    BY <2>3
  <2> QED
    BY <1>4, <2>1, <2>2, <2>4 DEF Books
<1>9. Recorded(Expected, hist.owner)
  <2>1. Expected = <<>>
    BY <1>2 DEF Expected, NoEvent
  <2>2. IsSeq(<<>>) /\ Len(<<>>) = 0
    BY DEF IsSeq
  <2>3. PIPELINE_MAX_ID_MAP \in Nat
    BY PipelineAssumption
  <2> QED
    BY <1>4, <2>1, <2>2, <2>3 DEF Recorded, Lesser
<1> QED
  BY <1>1, <1>5, <1>6, <1>7, <1>8, <1>9 DEF PInv

(* Books look at the owners and the numbers. *)
LEMMA BooksSame ==
  ASSUME NEW acc, NEW h, Books(acc, h), NEW k, DOMAIN k = HistFields, k.owner = h.owner,
         k.net = h.net, k.cash = h.cash, k.slack = h.slack
  PROVE  Books(acc, k)
BY DEF Books

(* What a client may send is well typed enough for the ring. *)
LEMMA SentIsPosted ==
  ASSUME NEW m, m \in NewOrders \cup Changes, me.next_order_id \in Nat, stage_a_ingress(m)
  PROVE  m \in Posted
<1>1. \A id \in 1..(me.next_order_id - 1) : id \in Nat
  OBVIOUS
<1>2. CASE m \in NewOrders
  BY <1>2 DEF Posted
<1>3. CASE m \in Changes
  BY <1>1, <1>3 DEF Changes, Posted
<1> QED
  BY <1>2, <1>3

(* A submission of anything that may be in the ring, or is malformed. *)
LEMMA SubmissionKeeps ==
  ASSUME PInv, NEW m, stage_a_ingress(m) => m \in Posted, NEW add, Submit(m, add)
  PROVE  PInv' /\ hist'.owner = hist.owner
<1> DEFINE r == gateway_submit(gateway, m, add)
           after == ServedAfter(hist.served, m, r.ack)
<1>1. /\ gateway' = r.g /\ ack' = AckAfter(m, r.ack)
      /\ hist' = IF r.ack.status # "ACCEPTED" \/ m.client_order_id = 0 THEN hist
                 ELSE [hist EXCEPT !.served = hist.served \cup {<<r.ack.server_order_id, Sender(m)>>}]
      /\ me' = me /\ accounts' = accounts /\ id_map' = id_map /\ cur' = cur
  BY Zenon DEF Submit, AckAfter
<1>2. /\ Cached(r.g, after) /\ AckTold(after, AckAfter(m, r.ack))
      /\ \/ r.g.out_ring = gateway.out_ring
         \/ r.g.out_ring = Append(gateway.out_ring, m) /\ stage_a_ingress(m)
  BY GatewayKeeps DEF PInv
<1> HIDE DEF r
<1>3. DOMAIN hist = HistFields
  BY DEF PInv, Books
<1>4. /\ DOMAIN hist' = HistFields /\ hist'.served = after /\ hist'.owner = hist.owner
      /\ hist'.net = hist.net /\ hist'.cash = hist.cash /\ hist'.slack = hist.slack
  <2> DEFINE new == hist.served \cup {<<r.ack.server_order_id, Sender(m)>>}
  <2>1. CASE r.ack.status # "ACCEPTED" \/ m.client_order_id = 0
    BY <1>1, <1>3, <2>1 DEF ServedAfter
  <2>2. CASE ~(r.ack.status # "ACCEPTED" \/ m.client_order_id = 0)
    <3>1. hist' = [hist EXCEPT !.served = new] /\ after = new
      BY <1>1, <2>2 DEF ServedAfter
    <3> HIDE DEF new, after
    <3> QED
      BY <1>3, <3>1 DEF HistFields
  <2> QED
    BY <2>1, <2>2
<1> HIDE DEF after
<1>5. EngineSound'
  BY <1>1 DEF PInv, EngineSound
<1>6. Cached(gateway', hist'.served) /\ AckTold(hist'.served, ack')
  BY <1>1, <1>2, <1>4
<1>7. gateway'.out_ring \in Seq(Posted)
  <2>1. gateway.out_ring \in Seq(Posted)
    BY DEF PInv
  <2>2. \/ gateway'.out_ring = gateway.out_ring
        \/ gateway'.out_ring = Append(gateway.out_ring, m) /\ m \in Posted
    BY <1>1, <1>2
  <2> QED
    BY <2>1, <2>2
<1>8. Books(accounts', hist')
  BY <1>1, <1>4, BooksSame DEF PInv
<1>9. Expected' = Expected
  BY <1>1 DEF Expected
<1>10. Recorded(Expected', hist'.owner)
  BY <1>4, <1>9 DEF PInv
<1> QED
  BY <1>4, <1>5, <1>6, <1>7, <1>8, <1>10 DEF PInv

(* The clients' step. *)
LEMMA SubmitKeepsPInv ==
  ASSUME PInv, NEW m \in NewOrders \cup Changes, NEW add, Submit(m, add)
  PROVE  PInv'
<1>1. me.next_order_id \in Nat
  BY DEF PInv, EngineSound, EInv, EngineTyped
<1>2. stage_a_ingress(m) => m \in Posted
  BY <1>1, SentIsPosted
<1>3. PInv' /\ hist'.owner = hist.owner
  BY <1>2, SubmissionKeeps
<1> QED
  BY <1>3

(* The kill switch. *)
LEMMA SetKillSwitchKeeps ==
  ASSUME PInv, SetKillSwitch
  PROVE  PInv'
<1> DEFINE k == ~gateway.kill_switch
<1>1. gateway' = [gateway EXCEPT !.kill_switch = k] /\ ack' = NoAck /\ hist' = hist
      /\ me' = me /\ accounts' = accounts /\ id_map' = id_map /\ cur' = cur
  BY Zenon DEF SetKillSwitch
<1> HIDE DEF k
<1>2. DOMAIN gateway = GatewayFields
  BY DEF PInv, Cached
<1>3. SameCache(gateway', gateway) /\ gateway'.out_ring = gateway.out_ring
  BY <1>1, <1>2 DEF SameCache, GatewayFields
<1>4. Cached(gateway', hist.served) /\ AckTold(hist.served, NoAck)
  BY <1>3, CachedSame, NothingTold DEF PInv
<1>5. Expected' = Expected /\ EngineSound'
  BY <1>1 DEF Expected, PInv, EngineSound
<1> QED
  BY <1>1, <1>3, <1>4, <1>5 DEF PInv

(* Taking an event from the ring. *)
LEMMA TakesKeeps ==
  ASSUME PInv, NEW ev, Takes(ev)
  PROVE  /\ Cached(gateway', hist.served) /\ AckTold(hist.served, ack')
         /\ gateway'.out_ring \in Seq(Posted) /\ ev \in Posted
         /\ cur = NoEvent /\ Expected = id_map
<1> DEFINE t == Tail(gateway.out_ring)
<1>1. /\ gateway' = [gateway EXCEPT !.out_ring = t] /\ ack' = NoAck /\ cur = NoEvent
      /\ ev = Head(gateway.out_ring) /\ gateway.out_ring # <<>>
  BY Zenon DEF Takes, gw_ring_pop
<1>2. t \in Seq(Posted) /\ ev \in Posted
  BY <1>1 DEF PInv
<1> HIDE DEF t
<1>3. DOMAIN gateway = GatewayFields
  BY DEF PInv, Cached
<1>4. SameCache(gateway', gateway) /\ gateway'.out_ring = t
  BY <1>1, <1>3 DEF SameCache, GatewayFields
<1>5. Cached(gateway', hist.served) /\ AckTold(hist.served, NoAck)
  BY <1>4, CachedSame, NothingTold DEF PInv
<1>6. Expected = id_map
  BY <1>1 DEF Expected, NoEvent
<1> QED
  BY <1>1, <1>2, <1>4, <1>5, <1>6

(* An event that is refused. *)
LEMMA DropKeeps ==
  ASSUME PInv, NEW ev, Drop(ev)
  PROVE  PInv'
<1>1. /\ Takes(ev) /\ me' = me /\ accounts' = accounts /\ id_map' = id_map
      /\ cur' = cur /\ hist' = hist
  BY DEF Drop
<1>2. /\ Cached(gateway', hist.served) /\ AckTold(hist.served, ack')
      /\ gateway'.out_ring \in Seq(Posted)
  BY <1>1, TakesKeeps
<1>3. Expected' = Expected /\ EngineSound'
  BY <1>1 DEF Expected, PInv, EngineSound
<1> QED
  BY <1>1, <1>2, <1>3 DEF PInv

(* The types of what is in the ring. *)
LEMMA PostedTypes ==
  ASSUME NEW ev \in Posted
  PROVE  /\ ev.action = "NEW" =>
              /\ ev.type \in {"LIMIT", "MARKET", "IOC", "FOK", "STOP", "STOP_LIMIT"}
              /\ ev.side \in Side /\ ev.price \in Nat /\ ev.trigger_price \in Nat
              /\ ev.qty \in Nat \ {0}
         /\ ev.action = "MODIFY" => ev.price \in Nat /\ ev.qty \in Nat \ {0}
<1>1. CASE ev \in {m \in NewOrders : stage_a_ingress(m)}
  <2>1. /\ ev.action = "NEW" /\ ev.side \in Side
        /\ ev.type \in {"LIMIT", "MARKET", "IOC", "FOK", "STOP", "STOP_LIMIT"}
        /\ ev.price \in Nat /\ ev.trigger_price \in Nat /\ ev.qty \in Nat
    BY <1>1, PipelineAssumption
  <2>2. ev.qty # 0
    BY <1>1, <2>1 DEF stage_a_ingress
  <2> QED
    BY <2>1, <2>2
<1>2. CASE ev \in {Message("CANCEL", 1, 0, "LIMIT", "BID", 0, 0, 0, id) : id \in Nat}
  BY <1>2 DEF Message
<1>3. CASE ev \in {Message("MODIFY", 1, 0, "LIMIT", "BID", a[1], 0, a[2], id) :
                      a \in Amendments, id \in Nat}
  <2>1. PICK a \in Amendments : ev.action = "MODIFY" /\ ev.price = a[1] /\ ev.qty = a[2]
    BY <1>3 DEF Message
  <2>2. a \in (1..MAX_PRICE) \X (Nat \ {0})
    BY PipelineAssumption
  <2>3. a[1] \in 1..MAX_PRICE /\ a[2] \in Nat \ {0}
    BY <2>2
  <2> QED
    BY <2>1, <2>3
<1> QED
  BY <1>1, <1>2, <1>3 DEF Posted

(* A new order in the engine. *)
LEMMA MatchNewKeeps ==
  ASSUME NEW v, EInv(v, me), NEW ev \in Posted, ev.action = "NEW", match_new(ev)
  PROVE  EInv(v, me') /\ GivenId(me', me)
<1> DEFINE type == ev.type
           side == ev.side
           price == ev.price
           trigger == ev.trigger_price
           qty == ev.qty
<1>1. /\ type \in {"LIMIT", "MARKET", "IOC", "FOK", "STOP", "STOP_LIMIT"}
      /\ side \in Side /\ price \in Nat /\ trigger \in Nat /\ qty \in Nat \ {0}
  BY PostedTypes
<1>2. CASE type \in {"STOP", "STOP_LIMIT"}
  <2> DEFINE ttl == FALSE
             p == me_submit_stop(me, type, side, trigger, price, qty, ttl)
  <2>1. me' = p
    BY <1>2, Zenon DEF match_new
  <2>a. ttl \in BOOLEAN
    OBVIOUS
  <2> HIDE DEF type, side, price, trigger, qty, ttl
  <2>2. EInv(v, p)
    BY <1>1, <1>2, <2>a, SubmitStopKeeps
  <2>3. GivenId(p, me)
    <3>1. DOMAIN me = EngineFields
      BY DEF EInv, EngineTyped
    <3> QED
      BY <3>1, SubmitStopTakesId
  <2> HIDE DEF p
  <2> QED
    BY <2>1, <2>2, <2>3
<1>3. CASE type \notin {"STOP", "STOP_LIMIT"}
  <2> DEFINE r == me_submit_order(me, type, side, price, qty)
             s == [r EXCEPT !.e.out = r.out]
             x == [r.e EXCEPT !.out = r.out]
  <2>1. me' = s.e
    BY <1>3, Zenon DEF match_new, GoOn
  <2>2. type \in {"LIMIT", "MARKET", "IOC", "FOK"}
    BY <1>1, <1>3
  <2> HIDE DEF type, side, price, trigger, qty
  <2>3. Submitted(v, r, me) /\ TakesId(r, me)
    BY <1>1, <2>2, SubmitKeeps, SubmitTakesId
  <2> HIDE DEF r
  <2>4. DOMAIN r = {"e", "scan", "out"} /\ EInv(v, r.e)
    BY <2>3 DEF Submitted
  <2>5. s = [r EXCEPT !.e = x]
    BY Zenon
  <2>6. s.e = x
    <3> HIDE DEF x, s
    <3> QED
      BY <2>4, <2>5
  <2> HIDE DEF s
  <2>7. EInv(v, x) /\ SameBook(x, r.e) /\ x.out = r.out
    <3>1. ResultSet(x, r.e, r.out)
      BY DEF ResultSet
    <3> HIDE DEF x
    <3> QED
      BY <2>4, <3>1, ResultSetKeeps
  <2> HIDE DEF x
  <2>8. GivenId(x, me)
    BY <2>3, <2>7 DEF TakesId, GivenId, SameBook
  <2> QED
    BY <2>1, <2>6, <2>7, <2>8
<1> QED
  BY <1>2, <1>3

(* A cancel. *)
LEMMA MatchCancelKeeps ==
  ASSUME NEW v, EInv(v, me), NEW ev, match_cancel(ev)
  PROVE  EInv(v, me')
<1> DEFINE at == Target(ev)
           o == CHOOSE o \in at : TRUE
<1>1. me' = IF at = {} THEN me_cancel_stop(me, ev.target_order_id) ELSE me_cancel_order(me, o)
  BY Zenon DEF match_cancel
<1>2. at \subseteq me.resting
  BY DEF Target
<1> HIDE DEF at
<1>3. at # {} => o \in me.resting
  BY <1>2
<1>4. EInv(v, me_cancel_stop(me, ev.target_order_id))
  BY CancelStopKeeps
<1>5. ASSUME at # {} PROVE EInv(v, me_cancel_order(me, o))
  <2>1. o \in me.resting
    BY <1>3, <1>5
  <2> HIDE DEF o
  <2> QED
    BY <2>1, CancelOrderKeeps
<1> QED
  BY <1>1, <1>4, <1>5

(* A modification. *)
LEMMA MatchModifyKeeps ==
  ASSUME NEW v, EInv(v, me), NEW ev \in Posted, ev.action = "MODIFY", match_modify(ev)
  PROVE  EInv(v, me')
<1> DEFINE at == Target(ev)
           o == CHOOSE o \in at : TRUE
           price == ev.price
           qty == ev.qty
<1>1. me' = IF at = {} \/ price <= 0 \/ qty = 0 THEN me ELSE me_modify_order(me, o, price, qty)
  BY Zenon DEF match_modify
<1>2. at \subseteq me.resting
  BY DEF Target
<1>3. price \in Nat /\ qty \in Nat \ {0}
  BY PostedTypes
<1> HIDE DEF at, price, qty
<1>4. at # {} => o \in me.resting
  BY <1>2
<1>5. ASSUME at # {} PROVE EInv(v, me_modify_order(me, o, price, qty))
  <2>1. o \in me.resting
    BY <1>4, <1>5
  <2> HIDE DEF o
  <2> QED
    BY <1>3, <2>1, ModifyOrderKeeps
<1> QED
  BY <1>1, <1>5

(* Reserving touches nothing that a fill looks at. *)
LEMMA ReservedKeeps ==
  ASSUME NEW h, Books(accounts, h), NEW ev
  PROVE  Books(Reserved(ev), h)
<1> DEFINE side == ev.side
           px == reserve_px(ev)
           qty == ev.qty
           R == Reserved(ev)
<1>1. ASSUME NEW p, PortfolioTyped(p)
      PROVE  LET q == portfolio_reserve(p, side, px, qty)
             IN  PortfolioTyped(q) /\ Unexplained(q) = Unexplained(p)
                 /\ q.net_qty = p.net_qty /\ q.cash = p.cash
  <2> DEFINE q == portfolio_reserve(p, side, px, qty)
             x == p.open_buy_notional + px * qty
             y == p.open_sell_qty + qty
  <2>1. q = IF side = "BID" THEN [p EXCEPT !.open_buy_notional = x] ELSE [p EXCEPT !.open_sell_qty = y]
    BY DEF portfolio_reserve
  <2>2. DOMAIN p = PortfolioFields
    BY <1>1 DEF PortfolioTyped
  <2> HIDE DEF q, x, y
  <2>3. /\ DOMAIN q = PortfolioFields /\ q.cash = p.cash /\ q.net_qty = p.net_qty
        /\ q.avg_price = p.avg_price /\ q.realised_pnl = p.realised_pnl
    BY <2>1, <2>2 DEF PortfolioFields
  <2> QED
    BY <1>1, <2>3 DEF PortfolioTyped, Unexplained, q
<1>2. R = [a \in Accounts |-> IF ev.action = "NEW" /\ a = ev.account_id
                              THEN portfolio_reserve(accounts[a], side, px, qty) ELSE accounts[a]]
  BY DEF Reserved
<1> HIDE DEF R, px
<1>3. DOMAIN R = Accounts
  BY <1>2
<1>4. ASSUME NEW a \in Accounts
      PROVE  /\ PortfolioTyped(R[a]) /\ Unexplained(R[a]) = Unexplained(accounts[a])
             /\ R[a].net_qty = accounts[a].net_qty /\ R[a].cash = accounts[a].cash
  <2>1. PortfolioTyped(accounts[a])
    BY DEF Books
  <2>2. R[a] = accounts[a] \/ R[a] = portfolio_reserve(accounts[a], side, px, qty)
    BY <1>2
  <2> QED
    BY <1>1, <2>1, <2>2
<1>5. Books(R, h)
  BY <1>3, <1>4 DEF Books
<1> QED
  BY <1>5 DEF R

(* The books with one order more. *)
LEMMA BooksOwned ==
  ASSUME NEW acc, NEW h, Books(acc, h), IsSeq(h.owner), NEW x, NEW k,
         Owned(k, h, x)
  PROVE  Books(acc, k) /\ k.owner = Append(h.owner, x) /\ k.served = h.served
<1> DEFINE more == Append(h.owner, x)
<1>1. Len(h.owner) \in Nat /\ Len(more) = Len(h.owner) + 1
  BY AppendIs
<1>2. k = [h EXCEPT !.owner = more]
  BY DEF Owned
<1> HIDE DEF more
<1>3. DOMAIN h = HistFields
  BY DEF Books
<1>4. /\ DOMAIN k = HistFields /\ k.owner = more /\ k.served = h.served
      /\ k.net = h.net /\ k.cash = h.cash /\ k.slack = h.slack
  BY <1>2, <1>3 DEF HistFields
<1>5. Len(k.owner) <= PIPELINE_MAX_ID_MAP => Len(h.owner) <= PIPELINE_MAX_ID_MAP
  BY <1>1, <1>4, PipelineAssumption
<1>6. Books(acc, k)
  BY <1>4, <1>5 DEF Books
<1> QED
  BY <1>4, <1>6 DEF more

(* An event that reaches the engine. *)
LEMMA DispatchKeeps ==
  ASSUME PInv, NEW ev, Dispatch(ev)
  PROVE  PInv'
<1> DEFINE x == <<me.next_order_id, ev.account_id>>
           given == ev.action = "NEW" /\ me'.next_order_id > me.next_order_id
<1>1. /\ Takes(ev) /\ accounts' = Reserved(ev) /\ id_map' = id_map /\ cur' = ev
      /\ hist' = IF given THEN [hist EXCEPT !.owner = Append(hist.owner, x)] ELSE hist
      /\ \/ ev.action = "NEW" /\ match_new(ev)
         \/ ev.action = "CANCEL" /\ match_cancel(ev)
         \/ ev.action = "MODIFY" /\ match_modify(ev)
  BY Zenon DEF Dispatch
<1>2. /\ Cached(gateway', hist.served) /\ AckTold(hist.served, ack')
      /\ gateway'.out_ring \in Seq(Posted) /\ ev \in Posted /\ Expected = id_map
  BY <1>1, TakesKeeps
<1>3. PICK v : EInv(v, me)
  BY DEF PInv, EngineSound
<1>4. EInv(v, me') /\ (ev.action = "NEW" => GivenId(me', me))
  <2>1. CASE ev.action = "NEW" /\ match_new(ev)
    BY <1>2, <1>3, <2>1, MatchNewKeeps
  <2>2. CASE ev.action = "CANCEL" /\ match_cancel(ev)
    BY <1>3, <2>2, MatchCancelKeeps
  <2>3. CASE ev.action = "MODIFY" /\ match_modify(ev)
    BY <1>2, <1>3, <2>3, MatchModifyKeeps
  <2> QED
    BY <1>1, <2>1, <2>2, <2>3
<1>5. EngineSound'
  BY <1>4 DEF EngineSound
<1>6. Recorded(id_map, hist.owner) /\ IsSeq(hist.owner)
  BY <1>2 DEF PInv, Recorded
<1>7. Books(accounts', hist)
  BY <1>1, ReservedKeeps DEF PInv
<1>8. me.next_order_id \in Nat \ {0}
  BY <1>3 DEF EInv, EngineTyped
<1>9. Expected' = IF ev.action = "NEW" THEN id_map_remember(id_map, me'.out, ev.account_id) ELSE id_map
  BY <1>1 DEF Expected
<1>10. CASE given
  <2>1. me'.out.id = me.next_order_id /\ me'.out.id # 0
    BY <1>4, <1>8, <1>10 DEF GivenId
  <2>2. Expected' = IF Len(id_map) >= PIPELINE_MAX_ID_MAP THEN id_map ELSE Append(id_map, x)
    BY <1>9, <1>10, <2>1 DEF id_map_remember
  <2>3. hist' = [hist EXCEPT !.owner = Append(hist.owner, x)]
    BY <1>1, <1>10
  <2> HIDE DEF x
  <2>4. Books(accounts', hist') /\ hist'.owner = Append(hist.owner, x) /\ hist'.served = hist.served
    <3>1. Owned(hist', hist, x)
      BY <2>3 DEF Owned
    <3> QED
      BY <1>6, <1>7, <3>1, BooksOwned
  <2>5. Recorded(Expected', hist'.owner)
    BY <1>6, <2>2, <2>4, RecordedMore
  <2> QED
    BY <1>2, <1>5, <2>4, <2>5 DEF PInv
<1>11. CASE ~given
  <2>1. hist' = hist
    BY <1>1, <1>11
  <2>2. Expected' = id_map
    <3>1. CASE ev.action = "NEW"
      <4>1. me'.out.id = 0
        BY <1>4, <1>8, <1>11, <3>1 DEF GivenId
      <4> QED
        BY <1>9, <3>1, <4>1 DEF id_map_remember
    <3>2. CASE ev.action # "NEW"
      BY <1>9, <3>2
    <3> QED
      BY <3>1, <3>2
  <2> QED
    BY <1>2, <1>5, <1>6, <1>7, <2>1, <2>2 DEF PInv
<1> QED
  BY <1>10, <1>11

(* A stop fires: the result of the client's call stays. *)
LEMMA FireKeeps ==
  ASSUME NEW v, EInv(v, me), FireStop
  PROVE  EInv(v, me') /\ me'.out = me.out
<1> DEFINE scan == Last(stack)
<1>1. PICK i \in Hits(scan) : Fire(i, scan)
  BY DEF FireStop
<1>2. i \in ActiveStops(me) /\ i \in Slots
  BY DEF Hits, ActiveStops
<1> HIDE DEF scan
<1> DEFINE s == me.stops[i]
           d == Disarm(me, i)
           armed == emit_order_event(d, "STOP_TRIGGERED", s.id, s.orig_type, s.qty, s.qty, 0)
           type == IF s.orig_type = "STOP" THEN "MARKET" ELSE "LIMIT"
           r == me_submit_order(armed, type, s.side, s.limit, s.qty)
<1>3. me' = r.e
  BY <1>1, Zenon DEF Fire, GoOn
<1>4. EInv(v, armed)
  BY <1>2, ArmedKeeps
<1>5. armed.out = me.out
  <2>1. d = [me EXCEPT !.stops = [me.stops EXCEPT ![i] = NoStop]]
    BY DEF Disarm, Deactivate
  <2>2. DOMAIN me = EngineFields
    BY DEF EInv, EngineTyped
  <2> DEFINE st == [me.stops EXCEPT ![i] = NoStop]
  <2>3. d = [me EXCEPT !.stops = st]
    BY <2>1
  <2> HIDE DEF d, st
  <2>4. DOMAIN d = EngineFields /\ d.out = me.out
    BY <2>2, <2>3 DEF EngineFields
  <2>5. SameIds(armed, d)
    BY <2>4, EmitSameIds
  <2> QED
    BY <2>4, <2>5 DEF SameIds
<1>6. s \in Stop
  BY <1>2, StopFields DEF EInv
<1>7. /\ type \in {"LIMIT", "MARKET", "IOC", "FOK"} /\ s.side \in Side /\ s.limit \in Nat
      /\ s.qty \in Nat \ {0}
  BY <1>6 DEF Stop
<1> HIDE DEF armed, type, s, d
<1>8. Submitted(v, r, armed) /\ TakesId(r, armed)
  BY <1>4, <1>7, SubmitKeeps, SubmitTakesId
<1> HIDE DEF r
<1> QED
  BY <1>3, <1>5, <1>8 DEF Submitted, TakesId

(* The cascade. *)
LEMMA CascadeKeeps ==
  ASSUME PInv, Cascade,
         UNCHANGED <<gateway, accounts, last_trade_price, id_map, cur, stepping, ack, hist>>
  PROVE  PInv'
<1>1. PICK v : EInv(v, me)
  BY DEF PInv, EngineSound
<1>2. EInv(v, me') /\ me'.out = me.out
  <2>1. CASE FireStop
    BY <1>1, <2>1, FireKeeps
  <2>2. CASE ScanDone
    BY <1>1, <2>2 DEF ScanDone
  <2> QED
    BY <2>1, <2>2 DEF Cascade
<1>3. EngineSound' /\ Expected' = Expected
  BY <1>2 DEF EngineSound, Expected
<1> QED
  BY <1>3 DEF PInv

(* The engine has returned: the order is recorded and the trades applied. *)
LEMMA SettledIs ==
  ASSUME Settled
  PROVE  LET d == Drained(Expected)
         IN  /\ id_map' = Expected /\ accounts' = d.accounts /\ hist' = d.hist
             /\ HandedOver(me', me, NoResult) /\ cur' = NoEvent
             /\ stack' = stack /\ gateway' = gateway /\ ack' = ack
<1> DEFINE d == Drained(Expected)
<1>1. id_map' = Expected
  BY Zenon DEF Settled, Expected
<1>2. /\ Applied(Drained(id_map')) /\ cur' = NoEvent
      /\ stack' = stack /\ gateway' = gateway /\ ack' = ack
      /\ me' = [me EXCEPT !.eq = <<>>, !.out = NoResult]
  BY Zenon DEF Settled
<1>3. Applied(d)
  BY <1>1, <1>2
<1> HIDE DEF d
<1>4. /\ accounts' = d.accounts /\ hist' = d.hist
      /\ HandedOver(me', me, NoResult)
  BY <1>2, <1>3 DEF Applied, HandedOver
<1> QED
  BY <1>1, <1>2, <1>4 DEF d

(* What the engine has told is sound. *)
LEMMA EventsSound ==
  ASSUME PInv
  PROVE  /\ DOMAIN me = EngineFields /\ IsSeq(me.eq) /\ Len(me.eq) \in Nat
         /\ \A n \in 1..Len(me.eq) : TradeSound(me.eq[n])
<1>1. PICK v : EInv(v, me)
  BY DEF PInv, EngineSound
<1>2. DOMAIN me = EngineFields /\ IsSeq(me.eq) /\ AllSound(me)
  BY <1>1 DEF EInv, EngineTyped
<1>3. Len(me.eq) \in Nat
  BY <1>2 DEF IsSeq
<1> QED
  BY <1>2, <1>3 DEF AllSound, Sound, TradeSound

(* Returning keeps the invariant. *)
LEMMA SettledKeeps ==
  ASSUME PInv, Settled
  PROVE  PInv'
<1> DEFINE d == Drained(Expected)
<1>1. /\ id_map' = Expected /\ accounts' = d.accounts /\ hist' = d.hist
      /\ HandedOver(me', me, NoResult) /\ cur' = NoEvent
      /\ gateway' = gateway /\ ack' = ack
  BY SettledIs, Zenon
<1>2. PICK v : EInv(v, me)
  BY DEF PInv, EngineSound
<1>3. EngineSound'
  <2>1. EInv(Learnt(v, me.eq), me')
    BY <1>1, <1>2, HandedOverKeeps
  <2> QED
    BY <2>1 DEF EngineSound
<1>4. Recorded(Expected, hist.owner) /\ Books(accounts, hist)
  BY DEF PInv
<1>5. Len(me.eq) \in Nat /\ \A n \in 1..Len(me.eq) : TradeSound(me.eq[n])
  BY EventsSound
<1>6. Draining(d, hist)
  <2> DEFINE map == Expected
  <2>1. Recorded(map, hist.owner)
    BY <1>4
  <2> HIDE DEF map
  <2>2. Draining(Drained(map), hist)
    BY <1>4, <1>5, <2>1, DrainedKeeps
  <2> QED
    BY <2>2 DEF map
<1> HIDE DEF d
<1>7. Books(accounts', hist') /\ hist'.owner = hist.owner /\ hist'.served = hist.served
  BY <1>1, <1>6 DEF Draining, SameOwners
<1>8. Expected' = Expected
  <2>1. Expected' = id_map'
    BY <1>1 DEF Expected, NoEvent
  <2> QED
    BY <1>1, <2>1
<1>9. /\ Cached(gateway', hist'.served) /\ AckTold(hist'.served, ack')
      /\ gateway'.out_ring \in Seq(Posted) /\ Recorded(Expected', hist'.owner)
  BY <1>1, <1>4, <1>7, <1>8 DEF PInv
<1> QED
  BY <1>3, <1>7, <1>9 DEF PInv

(* Every step of the pipeline and of its clients keeps the invariant. *)
LEMMA PInvStep ==
  ASSUME PInv, [Next]_vars
  PROVE  PInv'
<1>1. CASE UNCHANGED vars
  BY <1>1 DEF vars, PInv, EngineSound, Expected
<1>2. ASSUME NEW m \in NewOrders \cup Changes, NEW add \in 0..1, Submit(m, add) PROVE PInv'
  BY <1>2, SubmitKeepsPInv
<1>3. CASE SetKillSwitch
  BY <1>3, SetKillSwitchKeeps
<1>4. ASSUME NEW ev \in ToSet(gateway.out_ring), Drop(ev) \/ Dispatch(ev) PROVE PInv'
  BY <1>4, DropKeeps, DispatchKeeps
<1>5. CASE Cascade /\ UNCHANGED <<gateway, accounts, last_trade_price, id_map, cur, stepping, ack, hist>>
  BY <1>5, CascadeKeeps
<1>6. CASE Settled
  BY <1>6, SettledKeeps
<1> QED
  BY <1>1, <1>2, <1>3, <1>4, <1>5, <1>6, Zenon DEF Next
-----------------------------------------------------------------------------
(* The theorems. *)

(* The invariant: a sound engine, a cache that tells keys and ids apart, a  *)
(* ring of well-formed messages, books that explain every account's cash,   *)
(* and an id map that holds the first orders that were given an id.         *)
THEOREM PipelineInvariant == Spec => []PInv
<1>1. Init => PInv
  <2>1. 0 \in Nat
    OBVIOUS
  <2> QED
    BY <2>1, PInvInit DEF Init
<1>2. PInv /\ [Next]_vars => PInv'
  BY PInvStep
<1> QED
  BY <1>1, <1>2, PTL DEF Spec

(* While the id map has room, an account's position and cash are those of   *)
(* the fills of its orders, on arrival and while they rested, whatever the  *)
(* order of orders, cancels, modifications and cascades.                    *)
THEOREM FillsReachAlways == Spec => []FillsReachTheirAccount
<1>1. PInv => FillsReachTheirAccount
  BY DEF PInv, Books, FillsReachTheirAccount
<1> QED
  BY <1>1, PipelineInvariant, PTL

(* Realised profit and the position at its average price explain an         *)
(* account's cash up to what the average's rounding can have cost, however  *)
(* the account opens, extends, reduces, closes and flips its position, and  *)
(* also when the id map is full.                                            *)
THEOREM ProfitExplainsAlways == Spec => []ProfitExplainsCash
<1>1. PInv => ProfitExplainsCash
  <2> SUFFICES ASSUME PInv, NEW a \in Accounts
               PROVE  Abs(accounts[a].cash + accounts[a].avg_price * accounts[a].net_qty
                            - accounts[a].realised_pnl) <= hist.slack[a]
    BY Zenon DEF ProfitExplainsCash
  <2>1. Within(Unexplained(accounts[a]), hist.slack[a])
    BY DEF PInv, Books
  <2> DEFINE u == Unexplained(accounts[a])
             s == hist.slack[a]
  <2>2. Within(u, s)
    BY <2>1
  <2>3. u = accounts[a].cash + accounts[a].avg_price * accounts[a].net_qty - accounts[a].realised_pnl
    BY DEF Unexplained
  <2> HIDE DEF u, s
  <2>4. Abs(u) <= s
    BY <2>2 DEF Within, Abs
  <2> QED
    BY <2>3, <2>4 DEF s
<1> QED
  BY <1>1, PipelineInvariant, PTL

(* While the cache has room no account gets two messages with one client    *)
(* order id admitted, and a duplicate is answered with the id of a message  *)
(* of its own account and client order id, however submissions, throttling  *)
(* and the kill switch interleave.                                          *)
THEOREM AdmittedOnceAlways == Spec => []AdmittedOnce
<1>1. PInv => AdmittedOnce
  BY DEF PInv, Cached, AckTold, AdmittedOnce
<1> QED
  BY <1>1, PipelineInvariant, PTL
-----------------------------------------------------------------------------
(* The loops of the bridge and of the adapter. *)

(* The recursive function of process_staged_events. *)
LEMMA StageLoopExists ==
  ASSUME NEW v, NEW evs, NEW N \in Nat
  PROVE  \E g : StageLoop(g, N, v, evs)
<1> DEFINE base == v
           step(n, x) == StagedEvent(x, evs[n])
           G == {n \in Nat : \E g : StageLoop(g, n, v, evs)}
<1>1. 0 \in G
  <2> DEFINE g == [n \in 0..0 |-> base]
  <2>1. g = [n \in 0..0 |-> IF n = 0 THEN base ELSE step(n, g[n - 1])]
    <3> HIDE DEF base, step
    <3> QED
      OBVIOUS
  <2> QED
    BY <2>1, Zenon DEF StageLoop
<1>2. ASSUME NEW n \in Nat, n \in G PROVE n + 1 \in G
  <2>1. PICK g : StageLoop(g, n, v, evs)
    BY <1>2
  <2>2. g = [m \in 0..n |-> IF m = 0 THEN base ELSE step(m, g[m - 1])]
    BY <2>1, Zenon DEF StageLoop
  <2> HIDE DEF base, step
  <2> DEFINE h == [m \in 0..(n + 1) |-> IF m = 0 THEN base ELSE step(m, g[m - 1])]
  <2>3. \A m \in 0..n : h[m] = g[m]
    <3>1. \A m \in 0..n : g[m] = IF m = 0 THEN base ELSE step(m, g[m - 1])
      BY <2>2, Zenon
    <3>2. \A m \in 0..n : m \in 0..(n + 1)
      OBVIOUS
    <3> QED
      BY <3>1, <3>2, Zenon
  <2>4. \A m \in 0..(n + 1) : m # 0 => h[m - 1] = g[m - 1]
    <3>1. \A m \in 0..(n + 1) : m # 0 => m - 1 \in 0..n
      OBVIOUS
    <3> HIDE DEF h
    <3> QED
      BY <2>3, <3>1
  <2>5. h = [m \in 0..(n + 1) |-> IF m = 0 THEN base ELSE step(m, h[m - 1])]
    <3>1. \A m \in 0..(n + 1) : (IF m = 0 THEN base ELSE step(m, g[m - 1]))
                               = IF m = 0 THEN base ELSE step(m, h[m - 1])
      <4> HIDE DEF h
      <4> QED
        BY <2>4, Zenon
    <3> QED
      BY <3>1, Zenon
  <2>6. StageLoop(h, n + 1, v, evs)
    <3> HIDE DEF h
    <3> QED
      BY <2>5, Zenon DEF StageLoop, base, step
  <2> HIDE DEF h
  <2> QED
    BY <2>6
<1>3. Nat \subseteq G
  <2> HIDE DEF G
  <2> QED
    BY <1>1, <1>2, SetOfNats
<1> QED
  BY <1>3

(* process_staged_events translates one event after the other. *)
LEMMA ProcessedIs ==
  ASSUME NEW v, NEW evs, Len(evs) \in Nat
  PROVE  \E g : /\ g[0] = v
                /\ \A n \in 1..Len(evs) : g[n] = StagedEvent(g[n - 1], evs[n])
                /\ process_staged_events(v, evs) = g[Len(evs)]
<1> DEFINE N == Len(evs)
           g == CHOOSE g : StageLoop(g, N, v, evs)
<1>1. process_staged_events(v, evs) = g[Len(evs)]
  BY Zenon DEF process_staged_events, StagedEvent, StageLoop
<1>2. StageLoop(g, N, v, evs)
  BY StageLoopExists, Zenon
<1>3. \A n \in 0..N : g[n] = IF n = 0 THEN v
                            ELSE StagedEvent(g[n - 1], evs[n])
  <2> HIDE DEF g
  <2> QED
    BY <1>2, Zenon DEF StageLoop
<1> HIDE DEF g
<1>4. 0 \in 0..N /\ \A n \in 1..N : n \in 0..N /\ n # 0
  OBVIOUS
<1>5. g[0] = v
  BY <1>3, <1>4, Zenon
<1>6. \A n \in 1..N : g[n] = StagedEvent(g[n - 1], evs[n])
  BY <1>3, <1>4, Zenon
<1> QED
  BY <1>1, <1>5, <1>6, Zenon

(* The recursive function of AllPolled. *)
LEMMA PollLoopExists ==
  ASSUME NEW v, NEW evs, NEW N \in Nat
  PROVE  \E g : PollLoop(g, N, v, evs)
<1> DEFINE base == v
           step(n, x) == Polled(x, evs[n])
           G == {n \in Nat : \E g : PollLoop(g, n, v, evs)}
<1>1. 0 \in G
  <2> DEFINE g == [n \in 0..0 |-> base]
  <2>1. g = [n \in 0..0 |-> IF n = 0 THEN base ELSE step(n, g[n - 1])]
    <3> HIDE DEF base, step
    <3> QED
      OBVIOUS
  <2> QED
    BY <2>1, Zenon DEF PollLoop
<1>2. ASSUME NEW n \in Nat, n \in G PROVE n + 1 \in G
  <2>1. PICK g : PollLoop(g, n, v, evs)
    BY <1>2
  <2>2. g = [m \in 0..n |-> IF m = 0 THEN base ELSE step(m, g[m - 1])]
    BY <2>1, Zenon DEF PollLoop
  <2> HIDE DEF base, step
  <2> DEFINE h == [m \in 0..(n + 1) |-> IF m = 0 THEN base ELSE step(m, g[m - 1])]
  <2>3. \A m \in 0..n : h[m] = g[m]
    <3>1. \A m \in 0..n : g[m] = IF m = 0 THEN base ELSE step(m, g[m - 1])
      BY <2>2, Zenon
    <3>2. \A m \in 0..n : m \in 0..(n + 1)
      OBVIOUS
    <3> QED
      BY <3>1, <3>2, Zenon
  <2>4. \A m \in 0..(n + 1) : m # 0 => h[m - 1] = g[m - 1]
    <3>1. \A m \in 0..(n + 1) : m # 0 => m - 1 \in 0..n
      OBVIOUS
    <3> HIDE DEF h
    <3> QED
      BY <2>3, <3>1
  <2>5. h = [m \in 0..(n + 1) |-> IF m = 0 THEN base ELSE step(m, h[m - 1])]
    <3>1. \A m \in 0..(n + 1) : (IF m = 0 THEN base ELSE step(m, g[m - 1]))
                               = IF m = 0 THEN base ELSE step(m, h[m - 1])
      <4> HIDE DEF h
      <4> QED
        BY <2>4, Zenon
    <3> QED
      BY <3>1, Zenon
  <2>6. PollLoop(h, n + 1, v, evs)
    <3> HIDE DEF h
    <3> QED
      BY <2>5, Zenon DEF PollLoop, base, step
  <2> HIDE DEF h
  <2> QED
    BY <2>6
<1>3. Nat \subseteq G
  <2> HIDE DEF G
  <2> QED
    BY <1>1, <1>2, SetOfNats
<1> QED
  BY <1>3

(* AllPolled polls one event after the other. *)
LEMMA AllPolledIs ==
  ASSUME NEW v, NEW evs, Len(evs) \in Nat
  PROVE  \E g : /\ g[0] = v
                /\ \A n \in 1..Len(evs) : g[n] = Polled(g[n - 1], evs[n])
                /\ AllPolled(v, evs) = g[Len(evs)]
<1> DEFINE N == Len(evs)
           g == CHOOSE g : PollLoop(g, N, v, evs)
<1>1. AllPolled(v, evs) = g[Len(evs)]
  BY Zenon DEF AllPolled, PollLoop
<1>2. PollLoop(g, N, v, evs)
  BY PollLoopExists, Zenon
<1>3. \A n \in 0..N : g[n] = IF n = 0 THEN v
                            ELSE Polled(g[n - 1], evs[n])
  <2> HIDE DEF g
  <2> QED
    BY <1>2, Zenon DEF PollLoop
<1> HIDE DEF g
<1>4. 0 \in 0..N /\ \A n \in 1..N : n \in 0..N /\ n # 0
  OBVIOUS
<1>5. g[0] = v
  BY <1>3, <1>4, Zenon
<1>6. \A n \in 1..N : g[n] = Polled(g[n - 1], evs[n])
  BY <1>3, <1>4, Zenon
<1> QED
  BY <1>1, <1>5, <1>6, Zenon

(* Polling one event more. *)
LEMMA AllPolledAppend ==
  ASSUME NEW v, NEW s, IsSeq(s), NEW ev
  PROVE  AllPolled(v, Append(s, ev)) = Polled(AllPolled(v, s), ev)
<1> DEFINE N == Len(s)
           t == Append(s, ev)
<1>1. /\ N \in Nat /\ Len(t) = N + 1 /\ t[N + 1] = ev
      /\ \A k \in 1..N : t[k] = s[k]
  BY AppendIs
<1> HIDE DEF t
<1>2. PICK g : /\ g[0] = v /\ AllPolled(v, s) = g[N]
               /\ \A n \in 1..N : g[n] = Polled(g[n - 1], s[n])
  BY <1>1, AllPolledIs
<1>3. PICK h : /\ h[0] = v /\ AllPolled(v, t) = h[N + 1]
               /\ \A n \in 1..(N + 1) : h[n] = Polled(h[n - 1], t[n])
  <2> DEFINE M == Len(t)
  <2>1. M \in Nat
    BY <1>1
  <2>2. \E h : /\ h[0] = v
               /\ \A n \in 1..M : h[n] = Polled(h[n - 1], t[n])
               /\ AllPolled(v, t) = h[M]
    BY <2>1, AllPolledIs
  <2> QED
    BY <1>1, <2>2
<1> DEFINE G == {n \in Nat : n <= N => h[n] = g[n]}
<1>4. 0 \in G
  BY <1>2, <1>3
<1>5. ASSUME NEW n \in Nat, n \in G PROVE n + 1 \in G
  <2> SUFFICES ASSUME n + 1 <= N PROVE h[n + 1] = g[n + 1]
    OBVIOUS
  <2>1. n <= N /\ n + 1 \in 1..N /\ n + 1 \in 1..(N + 1) /\ (n + 1) - 1 = n
    BY <1>1
  <2>2. h[n] = g[n]
    BY <1>5, <2>1
  <2>3. h[n + 1] = Polled(h[n], t[n + 1]) /\ g[n + 1] = Polled(g[n], s[n + 1])
    <3>1. h[n + 1] = Polled(h[(n + 1) - 1], t[n + 1])
      BY <1>3, <2>1, Zenon
    <3>2. g[n + 1] = Polled(g[(n + 1) - 1], s[n + 1])
      BY <1>2, <2>1, Zenon
    <3> QED
      BY <2>1, <3>1, <3>2
  <2> QED
    BY <1>1, <2>1, <2>2, <2>3
<1>6. Nat \subseteq G
  <2> HIDE DEF G
  <2> QED
    BY <1>4, <1>5, SetOfNats
<1>7. h[N] = g[N]
  BY <1>1, <1>6
<1>8. N + 1 \in 1..(N + 1) /\ (N + 1) - 1 = N
  BY <1>1
<1>9. h[N + 1] = Polled(h[(N + 1) - 1], t[N + 1])
  BY <1>3, <1>8, Zenon
<1> QED
  BY <1>1, <1>2, <1>3, <1>7, <1>8, <1>9 DEF t

(* No event, nothing polled. *)
LEMMA AllPolledNothing == ASSUME NEW v PROVE AllPolled(v, <<>>) = v
<1> DEFINE s == <<>>
<1>1. Len(s) = 0 /\ Len(s) \in Nat
  OBVIOUS
<1> HIDE DEF s
<1>2. PICK g : g[0] = v /\ AllPolled(v, s) = g[Len(s)]
  BY <1>1, AllPolledIs
<1> QED
  BY <1>1, <1>2 DEF s
-----------------------------------------------------------------------------
(* The adapter's portfolios. *)

(* apply_fill from the fields of a position. *)
LEMMA AppliedIs ==
  ASSUME NEW p, NEW price, NEW n
  PROVE  LET q == apply_fill(p, price, n)
             net == p.net_qty + n
             reduces == p.net_qty # 0 /\ (p.net_qty > 0) # (n > 0)
             closed == Lesser(Abs(p.net_qty), Abs(n))
         IN  /\ q.cash = p.cash - price * n /\ q.net_qty = net
             /\ q.avg_price = Averaged(p, net, price, Abs(n))
             /\ q.realised_pnl = p.realised_pnl +
                  IF ~reduces THEN 0
                  ELSE (IF p.net_qty > 0 THEN price - p.avg_price ELSE p.avg_price - price) * closed
<1> DEFINE net == p.net_qty + n
           avg == Averaged(p, net, price, Abs(n))
           cash == p.cash - price * n
           reduces == p.net_qty # 0 /\ (p.net_qty > 0) # (n > 0)
           closed == Lesser(Abs(p.net_qty), Abs(n))
           pnl == p.realised_pnl +
                  IF ~reduces THEN 0
                  ELSE (IF p.net_qty > 0 THEN price - p.avg_price ELSE p.avg_price - price) * closed
           q == apply_fill(p, price, n)
<1>1. q = [cash |-> cash, net_qty |-> net, avg_price |-> avg, realised_pnl |-> pnl]
  BY Zenon DEF apply_fill
<1> HIDE DEF q, net, avg, cash, pnl
<1>2. q.cash = cash /\ q.net_qty = net /\ q.avg_price = avg /\ q.realised_pnl = pnl
  BY <1>1
<1> QED
  BY <1>2, Zenon DEF q, net, avg, cash, pnl

(* The pipeline's numbers after a fill. *)
LEMMA FilledIs ==
  ASSUME NEW p, PortfolioTyped(p), NEW side, NEW price, NEW qty
  PROVE  LET q == portfolio_on_fill(p, side, price, qty)
             closed == IF qty < Abs(p.net_qty) THEN qty ELSE Abs(p.net_qty)
         IN  /\ q.cash = p.cash - Signed(side, price * qty) /\ q.net_qty = p.net_qty + Signed(side, qty)
             /\ Extends(p, side) =>
                  /\ q.avg_price = (p.avg_price * Abs(p.net_qty) + price * qty) \div (Abs(p.net_qty) + qty)
                  /\ q.realised_pnl = p.realised_pnl
             /\ ~Extends(p, side) =>
                  /\ q.avg_price = IF qty = Abs(p.net_qty) THEN 0
                                   ELSE IF qty > Abs(p.net_qty) THEN price ELSE p.avg_price
                  /\ q.realised_pnl = p.realised_pnl
                       + Signed(IF p.net_qty > 0 THEN "BID" ELSE "ASK", price - p.avg_price) * closed
<1> DEFINE q == portfolio_on_fill(p, side, price, qty)
           closed == IF qty < Abs(p.net_qty) THEN qty ELSE Abs(p.net_qty)
           avg == (p.avg_price * Abs(p.net_qty) + price * qty) \div (Abs(p.net_qty) + qty)
           left == IF qty = Abs(p.net_qty) THEN 0 ELSE IF qty > Abs(p.net_qty) THEN price ELSE p.avg_price
           pnl == p.realised_pnl
                    + Signed(IF p.net_qty > 0 THEN "BID" ELSE "ASK", price - p.avg_price) * closed
           cash == p.cash - Signed(side, price * qty)
           net == p.net_qty + Signed(side, qty)
<1>1. CASE Extends(p, side)
  <2>1. FilledAs(q, p, cash, net, avg, p.realised_pnl)
    BY <1>1, ExtendedIs
  <2> HIDE DEF q, avg, cash, net
  <2>2. q.cash = cash /\ q.net_qty = net /\ q.avg_price = avg /\ q.realised_pnl = p.realised_pnl
    BY <2>1, Zenon DEF FilledAs
  <2> QED
    BY <1>1, <2>2, Zenon DEF q, avg, cash, net
<1>2. CASE ~Extends(p, side)
  <2>1. FilledAs(q, p, cash, net, left, pnl)
    BY <1>2, ClosedIs, Zenon
  <2> HIDE DEF q, left, cash, net, pnl, closed
  <2>2. q.cash = cash /\ q.net_qty = net /\ q.avg_price = left /\ q.realised_pnl = pnl
    BY <2>1, Zenon DEF FilledAs
  <2> QED
    BY <1>2, <2>2, Zenon DEF q, left, cash, net, pnl, closed
<1> QED
  BY <1>1, <1>2

(* One leg brings the adapter's position to where the pipeline's is. *)
LEMMA LegAgrees ==
  ASSUME NEW p, PortfolioTyped(p), NEW side \in Side, NEW price \in Nat, NEW qty \in Nat \ {0},
         NEW q, SameMoney(q, p)
  PROVE  LET x == apply_fill(q, price, Signed(side, qty))
             y == portfolio_on_fill(p, side, price, qty)
         IN  SameMoney(x, y) /\ (SamePosition(q, p) => SamePosition(x, y))
<1> DEFINE n == Signed(side, qty)
           x == apply_fill(q, price, n)
           y == portfolio_on_fill(p, side, price, qty)
           avg == p.avg_price
           has == p.net_qty
           pnl == p.realised_pnl
           old == p.cash
<1>0. has \in Int /\ avg \in Nat /\ pnl \in Int /\ old \in Int
  BY DEF PortfolioTyped
<1>1. n \in Int /\ n # 0 /\ Abs(n) = qty /\ (n > 0 <=> side = "BID")
  BY DEF Signed, Abs, Side
<1>2. /\ q.cash = old /\ q.net_qty = has
  BY DEF SameMoney
<1>3. Signed(side, price * qty) = price * n
  BY DEF Signed, Side
<1>4. /\ y.cash = old - Signed(side, price * qty) /\ y.net_qty = has + n
      /\ Extends(p, side) => /\ y.avg_price = (avg * Abs(has) + price * qty) \div (Abs(has) + qty)
                             /\ y.realised_pnl = pnl
      /\ ~Extends(p, side) =>
           /\ y.avg_price = IF qty = Abs(has) THEN 0 ELSE IF qty > Abs(has) THEN price ELSE avg
           /\ y.realised_pnl = pnl + Signed(IF has > 0 THEN "BID" ELSE "ASK", price - avg)
                                       * (IF qty < Abs(has) THEN qty ELSE Abs(has))
  BY FilledIs
<1>5. /\ x.cash = q.cash - price * n /\ x.net_qty = q.net_qty + n
      /\ x.avg_price = Averaged(q, q.net_qty + n, price, Abs(n))
      /\ x.realised_pnl = q.realised_pnl +
           IF ~(q.net_qty # 0 /\ (q.net_qty > 0) # (n > 0)) THEN 0
           ELSE (IF q.net_qty > 0 THEN price - q.avg_price ELSE q.avg_price - price)
                  * Lesser(Abs(q.net_qty), Abs(n))
  <2> HIDE DEF n, x
  <2> DEFINE z == apply_fill(q, price, n)
  <2>1. /\ z.cash = q.cash - price * n /\ z.net_qty = q.net_qty + n
        /\ z.avg_price = Averaged(q, q.net_qty + n, price, Abs(n))
        /\ z.realised_pnl = q.realised_pnl +
             IF ~(q.net_qty # 0 /\ (q.net_qty > 0) # (n > 0)) THEN 0
             ELSE (IF q.net_qty > 0 THEN price - q.avg_price ELSE q.avg_price - price)
                    * Lesser(Abs(q.net_qty), Abs(n))
    BY AppliedIs
  <2>2. x = z
    BY DEF x
  <2> HIDE DEF z
  <2> QED
    BY <2>1, <2>2, Zenon
<1>6. Extends(p, side) <=> (has = 0 \/ ((has > 0) <=> (n > 0)))
  BY <1>0, <1>1 DEF Extends
<1> HIDE DEF x, y, n, avg, has, pnl, old
<1>7. SameMoney(x, y)
  BY <1>2, <1>3, <1>4, <1>5 DEF SameMoney
<1>8. ASSUME SamePosition(q, p) PROVE SamePosition(x, y)
  <2>1. q.avg_price = avg /\ q.realised_pnl = pnl
    BY <1>8 DEF SamePosition, avg, pnl
  <2>2. x.avg_price = y.avg_price
    <3>1. x.avg_price =
            IF has = 0 \/ (has > 0) = (has + n > has)
            THEN (avg * Abs(has) + price * qty) \div (Abs(has) + qty)
            ELSE IF has + n = 0 THEN 0
            ELSE IF (has > 0) # (has + n > 0) THEN price ELSE avg
      BY <1>1, <1>2, <1>5, <2>1 DEF Averaged
    <3>2. (has + n > has) <=> (n > 0)
      BY <1>0, <1>1
    <3>3. CASE Extends(p, side)
      <4>1. has = 0 \/ (has > 0) = (has + n > has)
        BY <1>6, <3>2, <3>3
      <4> QED
        BY <1>4, <3>1, <3>3, <4>1
    <3>4. CASE ~Extends(p, side)
      <4>1. has # 0 /\ ~((has > 0) <=> (n > 0)) /\ ~((has > 0) = (has + n > has))
        BY <1>6, <3>2, <3>4
      <4>2. /\ has + n = 0 <=> qty = Abs(has)
            /\ has + n # 0 => (((has > 0) # (has + n > 0)) <=> qty > Abs(has))
        BY <1>0, <1>1, <4>1 DEF Abs
      <4>3. x.avg_price = IF has + n = 0 THEN 0 ELSE IF (has > 0) # (has + n > 0) THEN price ELSE avg
        BY <3>1, <4>1
      <4>4. y.avg_price = IF qty = Abs(has) THEN 0 ELSE IF qty > Abs(has) THEN price ELSE avg
        BY <1>4, <3>4
      <4>5. CASE qty = Abs(has)
        BY <4>2, <4>3, <4>4, <4>5
      <4>6. CASE qty # Abs(has)
        <5>1. has + n # 0 /\ y.avg_price = IF qty > Abs(has) THEN price ELSE avg
          BY <4>2, <4>4, <4>6
        <5>2. x.avg_price = IF (has > 0) # (has + n > 0) THEN price ELSE avg
          BY <4>3, <5>1
        <5>3. (has > 0) # (has + n > 0) <=> qty > Abs(has)
          BY <4>2, <5>1
        <5> QED
          BY <5>1, <5>2, <5>3
      <4> QED
        BY <4>5, <4>6
    <3> QED
      BY <3>3, <3>4
  <2>3. x.realised_pnl = y.realised_pnl
    <3>1. x.realised_pnl = pnl +
             IF ~(has # 0 /\ (has > 0) # (n > 0)) THEN 0
             ELSE (IF has > 0 THEN price - avg ELSE avg - price) * Lesser(Abs(has), qty)
      BY <1>1, <1>2, <1>5, <2>1
    <3>2. CASE Extends(p, side)
      <4>1. ~(has # 0 /\ (has > 0) # (n > 0))
        BY <1>6, <3>2
      <4> QED
        BY <1>0, <1>4, <3>1, <3>2, <4>1
    <3>3. CASE ~Extends(p, side)
      <4> DEFINE closed == IF qty < Abs(has) THEN qty ELSE Abs(has)
                 gain == IF has > 0 THEN price - avg ELSE avg - price
      <4>1. has # 0 /\ (has > 0) # (n > 0)
        BY <1>6, <3>3
      <4>2. Lesser(Abs(has), qty) = closed
        BY <1>0, <1>1 DEF Lesser, Abs
      <4>3. Signed(IF has > 0 THEN "BID" ELSE "ASK", price - avg) = gain
        BY <1>0 DEF Signed
      <4>4. y.realised_pnl = pnl + Signed(IF has > 0 THEN "BID" ELSE "ASK", price - avg) * closed
        BY <1>4, <3>3
      <4>5. x.realised_pnl = pnl + gain * Lesser(Abs(has), qty)
        BY <3>1, <4>1
      <4> QED
        BY <4>2, <4>3, <4>4, <4>5
    <3> QED
      BY <3>2, <3>3
  <2> QED
    BY <1>7, <2>2, <2>3 DEF SamePosition
<1> QED
  BY <1>7, <1>8 DEF x, y, n

(* One leg's position. *)
LEMMA CreditIs ==
  ASSUME NEW c, DOMAIN c = ClientFields, DOMAIN c.positions = Accounts, NEW a, NEW price, NEW n
  PROVE  LET d == Credit(c, a, price, n)
         IN  /\ SameButPositions(d, c) /\ d.selfish = c.selfish
             /\ \A b \in Accounts : d.positions[b] = IF b = a THEN apply_fill(c.positions[a], price, n)
                                                     ELSE c.positions[b]
<1> DEFINE d == Credit(c, a, price, n)
           q == apply_fill(c.positions[a], price, n)
           P == [c.positions EXCEPT ![a] = q]
           e == [c EXCEPT !.positions = P]
<1>1. d = IF a \in Accounts THEN e ELSE c
  BY DEF Credit
<1>2. DOMAIN P = Accounts /\ \A b \in Accounts : P[b] = IF b = a THEN q ELSE c.positions[b]
  <2> HIDE DEF q
  <2> QED
    OBVIOUS
<1> HIDE DEF P, d, q
<1>3. /\ DOMAIN e = ClientFields /\ e.positions = P /\ e.selfish = c.selfish
      /\ e.seq = c.seq /\ e.gap = c.gap /\ e.orders = c.orders /\ e.ladder = c.ladder
  BY DEF ClientFields
<1> HIDE DEF e
<1>4. CASE a \in Accounts
  BY <1>1, <1>2, <1>3, <1>4, Zenon DEF SameButPositions, d, q
<1>5. CASE a \notin Accounts
  <2>1. d = c
    BY <1>1, <1>5
  <2>2. \A b \in Accounts : b # a
    BY <1>5
  <2> QED
    BY <2>1, <2>2, Zenon DEF SameButPositions, d
<1> QED
  BY <1>4, <1>5

(* One leg in the pipeline's accounts. *)
LEMMA FillIs ==
  ASSUME NEW acc, DOMAIN acc = Accounts, NEW a, NEW side, NEW ev
  PROVE  LET t == Fill(acc, a, side, ev)
         IN  /\ DOMAIN t = Accounts
             /\ \A b \in Accounts : t[b] = IF b = a THEN portfolio_on_fill(acc[a], side, ev.price, ev.qty)
                                           ELSE acc[b]
<1> DEFINE q == portfolio_on_fill(acc[a], side, ev.price, ev.qty)
           t == Fill(acc, a, side, ev)
<1>1. t = IF a \in Accounts THEN [acc EXCEPT ![a] = q] ELSE acc
  BY Zenon DEF Fill
<1> HIDE DEF q, t
<1> QED
  BY <1>1 DEF q, t

(* Both legs, whichever comes first: the accounts a and b of the buyer and  *)
(* the seller.                                                              *)
LEMMA LegsAgree ==
  ASSUME NEW c, NEW acc, Agree(c, acc), DOMAIN acc = Accounts, \A x \in Accounts : PortfolioTyped(acc[x]),
         NEW ev, ev.price \in Nat, ev.qty \in Nat \ {0}, NEW a, NEW b,
         NEW t, \/ t = Fill(Fill(acc, a, "BID", ev), b, "ASK", ev)
                \/ t = Fill(Fill(acc, b, "ASK", ev), a, "BID", ev)
  PROVE  LET d == Trade(c, ev, a, b)
         IN  Agree(d, t) /\ d.seq = c.seq /\ d.gap = c.gap /\ d.orders = c.orders /\ d.ladder = c.ladder
<1> DEFINE price == ev.price
           qty == ev.qty
           c1 == Credit(c, a, price, qty)
           c2 == Credit(c1, b, price, -qty)
           d == Trade(c, ev, a, b)
           pay(p) == apply_fill(p, price, qty)
           take(p) == apply_fill(p, price, -qty)
           buy(p) == portfolio_on_fill(p, "BID", price, qty)
           sell(p) == portfolio_on_fill(p, "ASK", price, qty)
           p == c.positions
<1>0. DOMAIN c = ClientFields /\ DOMAIN p = Accounts /\ price \in Nat /\ qty \in Nat \ {0}
  BY DEF Agree
<1>1. /\ SameButPositions(c1, c) /\ c1.selfish = c.selfish
      /\ \A x \in Accounts : c1.positions[x] = IF x = a THEN pay(p[a]) ELSE p[x]
  <2> HIDE DEF price, qty
  <2> QED
    BY <1>0, CreditIs
<1>2. /\ SameButPositions(c2, c1) /\ c2.selfish = c1.selfish
      /\ \A x \in Accounts : c2.positions[x] = IF x = b THEN take(c1.positions[b]) ELSE c1.positions[x]
  <2>1. DOMAIN c1 = ClientFields /\ DOMAIN c1.positions = Accounts
    BY <1>0, <1>1 DEF SameButPositions
  <2> HIDE DEF price, qty, c1
  <2> QED
    BY <2>1, CreditIs
<1>3. d = IF a = b THEN [c2 EXCEPT !.selfish = c2.selfish \cup {a}] ELSE c2
  BY DEF Trade
<1> HIDE DEF c1, c2, d
<1>4. /\ SameButPositions(d, c) /\ d.positions = c2.positions
      /\ d.selfish = IF a = b THEN c.selfish \cup {a} ELSE c.selfish
  <2> DEFINE s == c2.selfish \cup {a}
             e == [c2 EXCEPT !.selfish = s]
  <2>1. DOMAIN c2 = ClientFields
    BY <1>2 DEF SameButPositions
  <2>2. s = c.selfish \cup {a}
    BY <1>1, <1>2
  <2> HIDE DEF s
  <2>3. /\ DOMAIN e = ClientFields /\ e.positions = c2.positions /\ e.selfish = s
        /\ e.seq = c2.seq /\ e.gap = c2.gap /\ e.orders = c2.orders /\ e.ladder = c2.ladder
    BY <2>1 DEF ClientFields
  <2>4. d = IF a = b THEN e ELSE c2
    BY <1>3 DEF s
  <2> HIDE DEF e
  <2> QED
    BY <1>1, <1>2, <2>2, <2>3, <2>4 DEF SameButPositions
<1>5. \A x \in Accounts : d.positions[x] = IF x = a THEN IF x = b THEN take(pay(p[x])) ELSE pay(p[x])
                                           ELSE IF x = b THEN take(p[x]) ELSE p[x]
  <2> HIDE DEF pay, take, p
  <2> QED
    BY <1>1, <1>2, <1>4
<1>6. /\ DOMAIN t = Accounts
      /\ \A x \in Accounts :
           \/ x = a /\ x = b /\ t[x] \in {sell(buy(acc[x])), buy(sell(acc[x]))}
           \/ x = a /\ x # b /\ t[x] = buy(acc[x])
           \/ x # a /\ x = b /\ t[x] = sell(acc[x])
           \/ x # a /\ x # b /\ t[x] = acc[x]
  <2>1. CASE t = Fill(Fill(acc, a, "BID", ev), b, "ASK", ev)
    <3> DEFINE u == Fill(acc, a, "BID", ev)
    <3>1. DOMAIN u = Accounts /\ \A x \in Accounts : u[x] = IF x = a THEN buy(acc[a]) ELSE acc[x]
      BY FillIs
    <3> HIDE DEF u
    <3>2. DOMAIN t = Accounts /\ \A x \in Accounts : t[x] = IF x = b THEN sell(u[b]) ELSE u[x]
      BY <2>1, <3>1, FillIs DEF u
    <3> HIDE DEF buy, sell
    <3> QED
      BY <3>1, <3>2
  <2>2. CASE t = Fill(Fill(acc, b, "ASK", ev), a, "BID", ev)
    <3> DEFINE u == Fill(acc, b, "ASK", ev)
    <3>1. DOMAIN u = Accounts /\ \A x \in Accounts : u[x] = IF x = b THEN sell(acc[b]) ELSE acc[x]
      BY FillIs
    <3> HIDE DEF u
    <3>2. DOMAIN t = Accounts /\ \A x \in Accounts : t[x] = IF x = a THEN buy(u[a]) ELSE u[x]
      BY <2>2, <3>1, FillIs DEF u
    <3> HIDE DEF buy, sell
    <3> QED
      BY <3>1, <3>2
  <2> QED
    BY <2>1, <2>2
<1> HIDE DEF price, qty, p
<1>7. ASSUME NEW r, NEW o, PortfolioTyped(o), SameMoney(r, o)
      PROVE  /\ SameMoney(pay(r), buy(o)) /\ (SamePosition(r, o) => SamePosition(pay(r), buy(o)))
             /\ SameMoney(take(r), sell(o)) /\ (SamePosition(r, o) => SamePosition(take(r), sell(o)))
  <2>1. Signed("BID", qty) = qty /\ Signed("ASK", qty) = -qty /\ "BID" \in Side /\ "ASK" \in Side
    BY DEF Signed, Side
  <2>2. SameMoney(pay(r), buy(o)) /\ (SamePosition(r, o) => SamePosition(pay(r), buy(o)))
    BY <1>0, <1>7, <2>1, LegAgrees
  <2>3. SameMoney(take(r), sell(o)) /\ (SamePosition(r, o) => SamePosition(take(r), sell(o)))
    BY <1>0, <1>7, <2>1, LegAgrees
  <2> QED
    BY <2>2, <2>3
<1>8. ASSUME NEW r, NEW o, PortfolioTyped(o), SameMoney(r, o)
      PROVE  SameMoney(take(pay(r)), sell(buy(o))) /\ SameMoney(take(pay(r)), buy(sell(o)))
  <2>1. PortfolioTyped(buy(o)) /\ SameMoney(pay(r), buy(o))
    <3>1. Within(Unexplained(o), Abs(Unexplained(o)))
      BY <1>8 DEF PortfolioTyped, Unexplained, Within, Abs
    <3>2. "BID" \in Side
      BY DEF Side
    <3>3. PortfolioTyped(buy(o))
      BY <1>0, <1>8, <3>1, <3>2, FillKeeps
    <3> QED
      BY <1>7, <1>8, <3>3
  <2>2. SameMoney(take(pay(r)), sell(buy(o)))
    <3> HIDE DEF pay, buy, take, sell
    <3> DEFINE r1 == pay(r)
               o1 == buy(o)
    <3>1. PortfolioTyped(o1) /\ SameMoney(r1, o1)
      BY <2>1
    <3> HIDE DEF r1, o1
    <3>2. SameMoney(take(r1), sell(o1))
      BY <1>7, <3>1
    <3> QED
      BY <3>2 DEF r1, o1
  <2>3. sell(buy(o)).cash = buy(sell(o)).cash /\ sell(buy(o)).net_qty = buy(sell(o)).net_qty
    <3>1. PortfolioTyped(sell(o))
      <4>1. Within(Unexplained(o), Abs(Unexplained(o)))
        BY <1>8 DEF PortfolioTyped, Unexplained, Within, Abs
      <4>2. "ASK" \in Side
        BY DEF Side
      <4> QED
        BY <1>0, <1>8, <4>1, <4>2, FillKeeps
    <3> DEFINE z == price * qty
    <3>2. \A w : PortfolioTyped(w) =>
            /\ buy(w).cash = w.cash - z /\ buy(w).net_qty = w.net_qty + qty
            /\ sell(w).cash = w.cash + z /\ sell(w).net_qty = w.net_qty - qty
      <4> SUFFICES ASSUME NEW w, PortfolioTyped(w)
                   PROVE  /\ buy(w).cash = w.cash - z /\ buy(w).net_qty = w.net_qty + qty
                          /\ sell(w).cash = w.cash + z /\ sell(w).net_qty = w.net_qty - qty
        OBVIOUS
      <4>1. /\ buy(w).cash = w.cash - Signed("BID", z) /\ buy(w).net_qty = w.net_qty + Signed("BID", qty)
            /\ sell(w).cash = w.cash - Signed("ASK", z) /\ sell(w).net_qty = w.net_qty + Signed("ASK", qty)
        BY FilledIs
      <4>2. /\ Signed("BID", z) = z /\ Signed("BID", qty) = qty
            /\ Signed("ASK", z) = -z /\ Signed("ASK", qty) = -qty
        BY DEF Signed
      <4>3. w.cash \in Int /\ w.net_qty \in Int /\ z \in Int
        BY <1>0 DEF PortfolioTyped
      <4> HIDE DEF buy, sell, z
      <4> QED
        BY <1>0, <4>1, <4>2, <4>3
    <3>3. z \in Int /\ o.cash \in Int /\ o.net_qty \in Int
      BY <1>0, <1>8 DEF PortfolioTyped
    <3> HIDE DEF z, buy, sell
    <3> DEFINE u == buy(o)
               w == sell(o)
    <3>4. /\ u.cash = o.cash - z /\ u.net_qty = o.net_qty + qty
          /\ w.cash = o.cash + z /\ w.net_qty = o.net_qty - qty
          /\ PortfolioTyped(u) /\ PortfolioTyped(w)
      BY <1>8, <2>1, <3>1, <3>2
    <3> HIDE DEF u, w
    <3>5. /\ sell(u).cash = u.cash + z /\ sell(u).net_qty = u.net_qty - qty
          /\ buy(w).cash = w.cash - z /\ buy(w).net_qty = w.net_qty + qty
      BY <3>2, <3>4
    <3>6. sell(u).cash = buy(w).cash /\ sell(u).net_qty = buy(w).net_qty
      BY <1>0, <3>3, <3>4, <3>5
    <3> QED
      BY <3>6 DEF u, w
  <2> QED
    BY <2>2, <2>3 DEF SameMoney
<1> HIDE DEF pay, take, buy, sell
<1>9. ASSUME NEW x \in Accounts
      PROVE  /\ SameMoney(d.positions[x], t[x])
             /\ x \notin d.selfish => SamePosition(d.positions[x], t[x])
  <2> DEFINE r == p[x]
             o == acc[x]
  <2>1. /\ PortfolioTyped(o) /\ SameMoney(r, o) /\ (x \notin c.selfish => SamePosition(r, o))
    BY DEF Agree, p
  <2>2. d.positions[x] = IF x = a THEN IF x = b THEN take(pay(r)) ELSE pay(r)
                         ELSE IF x = b THEN take(r) ELSE r
    BY <1>5
  <2>3. \/ x = a /\ x = b /\ t[x] \in {sell(buy(o)), buy(sell(o))}
        \/ x = a /\ x # b /\ t[x] = buy(o)
        \/ x # a /\ x = b /\ t[x] = sell(o)
        \/ x # a /\ x # b /\ t[x] = o
    BY <1>6
  <2> HIDE DEF r, o
  <2>4. CASE x = a /\ x = b
    <3>1. x \in d.selfish
      BY <1>4, <2>4
    <3>2. SameMoney(take(pay(r)), sell(buy(o))) /\ SameMoney(take(pay(r)), buy(sell(o)))
      BY <1>8, <2>1
    <3>3. d.positions[x] = take(pay(r)) /\ t[x] \in {sell(buy(o)), buy(sell(o))}
      BY <2>2, <2>3, <2>4
    <3> QED
      BY <3>1, <3>2, <3>3
  <2>5. CASE x = a /\ x # b
    <3>1. x \notin d.selfish => x \notin c.selfish
      BY <1>4
    <3>2. d.positions[x] = pay(r) /\ t[x] = buy(o)
      BY <2>2, <2>3, <2>5
    <3> QED
      BY <1>7, <2>1, <3>1, <3>2
  <2>6. CASE x # a /\ x = b
    <3>1. x \notin d.selfish => x \notin c.selfish
      BY <1>4
    <3>2. d.positions[x] = take(r) /\ t[x] = sell(o)
      BY <2>2, <2>3, <2>6
    <3> QED
      BY <1>7, <2>1, <3>1, <3>2
  <2>7. CASE x # a /\ x # b
    <3>1. x \notin d.selfish => x \notin c.selfish
      BY <1>4
    <3>2. d.positions[x] = r /\ t[x] = o
      BY <2>2, <2>3, <2>7
    <3> QED
      BY <2>1, <3>1, <3>2
  <2> QED
    BY <2>4, <2>5, <2>6, <2>7
<1>10. Agree(d, t)
  BY <1>0, <1>4, <1>9 DEF Agree, SameButPositions
<1> QED
  BY <1>4, <1>10 DEF SameButPositions, d
-----------------------------------------------------------------------------
(* The queue of events. *)

(* Pushing an event: it is the last, and the first may be gone. *)
LEMMA PushEventIs ==
  ASSUME NEW b, Queue(b), NEW ev
  PROVE  LET p == push_event(b, ev)
             N == Len(p.evq)
         IN  /\ Queue(p) /\ SameOrders(p, b) /\ p.next_seq = b.next_seq + 1
             /\ N \in {Len(b.evq), Len(b.evq) + 1} /\ N > 0
             /\ N = Len(b.evq) + 1 => p.evq = Append(b.evq, <<b.next_seq + 1, ev>>)
             /\ p.evq[N] = <<b.next_seq + 1, ev>>
             /\ \A i \in 1..(N - 1) : p.evq[i] = b.evq[i + Len(b.evq) + 1 - N]
<1> DEFINE e == <<b.next_seq + 1, ev>>
           q == IF QueueFull(b) THEN Tail(b.evq) ELSE b.evq
           n == b.next_seq + 1
           s == Append(q, e)
           p == push_event(b, ev)
           N == Len(p.evq)
<1>1. p = [b EXCEPT !.evq = s, !.next_seq = n]
  BY DEF push_event
<1>2. /\ DOMAIN b = BridgeFields /\ IsSeq(b.evq) /\ Len(b.evq) \in Nat /\ b.next_seq \in Nat
      /\ Len(b.evq) <= b.next_seq /\ Len(b.evq) < BRIDGE_EVENT_QUEUE_CAP
      /\ \A i \in 1..Len(b.evq) : b.evq[i][1] = b.next_seq - Len(b.evq) + i
      /\ BRIDGE_EVENT_QUEUE_CAP \in Nat \ {0, 1}
  BY BridgeAssumption DEF Queue
<1> HIDE DEF s, n, p
<1>3. DOMAIN p = BridgeFields /\ p.evq = s /\ p.next_seq = n /\ SameOrders(p, b)
  BY <1>1, <1>2 DEF BridgeFields, SameOrders
<1> DEFINE K == Len(b.evq)
           M == Len(q)
           old == b.next_seq
<1>4. /\ IsSeq(q) /\ M \in Nat /\ (QueueFull(b) => M = K - 1) /\ (~QueueFull(b) => M = K)
      /\ \A i \in 1..M : q[i] = b.evq[i + K - M]
  <2>1. CASE QueueFull(b)
    <3>1. b.evq # <<>>
      BY <1>2, <2>1 DEF QueueFull
    <3>2. /\ IsSeq(Tail(b.evq)) /\ Len(Tail(b.evq)) = K - 1 /\ K > 0
          /\ \A i \in 1..(K - 1) : Tail(b.evq)[i] = b.evq[i + 1]
      BY <1>2, <3>1, TailIs
    <3>3. q = Tail(b.evq)
      BY <2>1
    <3> HIDE DEF q
    <3>4. M = K - 1 /\ K \in Nat /\ M \in Nat
      BY <1>2, <3>2, <3>3
    <3> HIDE DEF K
    <3>5. \A i \in 1..M : i \in 1..(K - 1) /\ i + K - M = i + 1
      BY <3>4
    <3>6. \A i \in 1..M : q[i] = b.evq[i + K - M]
      BY <3>2, <3>3, <3>5
    <3> QED
      BY <2>1, <3>2, <3>3, <3>4, <3>6
  <2>2. CASE ~QueueFull(b)
    <3>1. q = b.evq
      BY <2>2
    <3> HIDE DEF q
    <3>2. M = K /\ K \in Nat
      BY <1>2, <3>1
    <3> HIDE DEF K
    <3>3. \A i \in 1..M : i + K - M = i
      BY <3>2
    <3> QED
      BY <1>2, <2>2, <3>1, <3>2, <3>3
  <2> QED
    BY <2>1, <2>2
<1>5. ~QueueFull(b) => q = b.evq
  OBVIOUS
<1> HIDE DEF q, e
<1> DEFINE L == Len(s)
<1>6. /\ IsSeq(s) /\ L = M + 1 /\ s[M + 1] = e
      /\ \A i \in 1..M : s[i] = q[i]
  BY <1>4, AppendIs DEF s
<1>7. /\ K \in Nat /\ old \in Nat /\ K <= old /\ K < BRIDGE_EVENT_QUEUE_CAP /\ n = old + 1 /\ M \in {K - 1, K}
      /\ (QueueFull(b) <=> K = BRIDGE_EVENT_QUEUE_CAP - 1)
      /\ \A i \in 1..K : b.evq[i][1] = old - K + i
  BY <1>2, <1>4 DEF QueueFull, n
<1>8. e[1] = n
  BY DEF e, n
<1>9. QueueFull(b) \/ M = K
  BY <1>4
<1> HIDE DEF K, M, L, old, n
<1>10. L \in {K, K + 1} /\ L < BRIDGE_EVENT_QUEUE_CAP /\ L > 0 /\ L <= n /\ L \in Nat /\ n \in Nat
  <2>1. L \in {K, K + 1} /\ L > 0 /\ L <= n /\ L \in Nat /\ n \in Nat
    BY <1>4, <1>6, <1>7
  <2>2. CASE QueueFull(b)
    BY <1>2, <1>4, <1>6, <1>7, <2>1, <2>2
  <2>3. CASE ~QueueFull(b)
    BY <1>2, <1>4, <1>6, <1>7, <2>1, <2>3
  <2> QED
    BY <2>1, <2>2, <2>3
<1>11. \A i \in 1..L : s[i][1] = n - L + i
  <2> SUFFICES ASSUME NEW i \in 1..L PROVE s[i][1] = n - L + i
    OBVIOUS
  <2>1. CASE i = L
    BY <1>4, <1>6, <1>7, <1>8, <1>10, <2>1
  <2>2. CASE i # L
    <3>1. i \in 1..M /\ i + K - M \in 1..K /\ old - K + (i + K - M) = n - L + i
      BY <1>4, <1>6, <1>7, <1>10, <2>2
    <3>2. s[i] = q[i] /\ q[i] = b.evq[i + K - M]
      BY <1>4, <1>6, <3>1
    <3> QED
      BY <1>7, <3>1, <3>2
  <2> QED
    BY <2>1, <2>2
<1>12. Queue(p)
  BY <1>3, <1>6, <1>10, <1>11 DEF Queue, L
<1>14. L = K + 1 => s = Append(b.evq, e)
  <2>1. L = K + 1 => ~QueueFull(b)
    BY <1>4, <1>6, <1>7
  <2> QED
    BY <1>5, <2>1 DEF s
<1>15. \A i \in 1..(L - 1) : s[i] = b.evq[i + K + 1 - L]
  <2> SUFFICES ASSUME NEW i \in 1..(L - 1) PROVE s[i] = b.evq[i + K + 1 - L]
    OBVIOUS
  <2>1. i \in 1..M /\ i + K + 1 - L = i + K - M
    BY <1>4, <1>6, <1>7
  <2> QED
    BY <1>4, <1>6, <2>1
<1>16. s[L] = e
  BY <1>6
<1> QED
  BY <1>3, <1>7, <1>10, <1>12, <1>14, <1>15, <1>16 DEF e, n, p, L, K, old

(* A client that misses no event after a push misses none before it, and   *)
(* polls the event last.                                                   *)
LEMMA PushViewed ==
  ASSUME NEW b, Queue(b), NEW c, Behind(c, b), NEW ev
  PROVE  LET p == push_event(b, ev)
         IN  /\ Behind(c, p)
             /\ Complete(c, p) => /\ Complete(c, b)
                                  /\ View(c, p) = Polled(View(c, b), <<b.next_seq + 1, ev>>)
<1> DEFINE p == push_event(b, ev)
           e == <<b.next_seq + 1, ev>>
<1>1. /\ p.next_seq = b.next_seq + 1 /\ Len(p.evq) \in {Len(b.evq), Len(b.evq) + 1}
      /\ Len(p.evq) = Len(b.evq) + 1 => p.evq = Append(b.evq, e)
  BY PushEventIs
<1>2. IsSeq(b.evq) /\ Len(b.evq) \in Nat /\ b.next_seq \in Nat
  BY DEF Queue
<1> HIDE DEF p, e
<1> DEFINE K == Len(b.evq)
           L == Len(p.evq)
           old == b.next_seq
           new == p.next_seq
           at == c.seq
<1>5. K \in Nat /\ old \in Nat /\ new = old + 1 /\ L \in {K, K + 1} /\ at \in Nat /\ at + K <= old
  BY <1>1, <1>2 DEF Behind
<1>6. (Complete(c, p) <=> ~c.gap /\ at + L = new) /\ (Complete(c, b) <=> ~c.gap /\ at + K = old)
  BY DEF Complete
<1>7. (at + L = new => L = K + 1 /\ at + K = old) /\ at + L <= new
  <2> HIDE DEF K, L, old, new, at
  <2> QED
    BY <1>5
<1>3. Behind(c, p)
  BY <1>7 DEF Behind
<1>4. ASSUME Complete(c, p) PROVE Complete(c, b) /\ View(c, p) = Polled(View(c, b), e)
  <2>1. Len(p.evq) = Len(b.evq) + 1 /\ Complete(c, b)
    BY <1>4, <1>6, <1>7
  <2>2. View(c, p) = AllPolled(c, Append(b.evq, e))
    BY <1>1, <2>1 DEF View
  <2>3. AllPolled(c, Append(b.evq, e)) = Polled(AllPolled(c, b.evq), e)
    BY <1>2, AllPolledAppend
  <2> QED
    BY <2>1, <2>2, <2>3 DEF View
<1> QED
  BY <1>3, <1>4 DEF p, e
-----------------------------------------------------------------------------
(* The orders of the registry. *)

(* Changing one slot. *)
LEMMA SlotSet ==
  ASSUME NEW b, DOMAIN b = BridgeFields, NEW id, NEW s
  PROVE  OneSlot([b EXCEPT !.slots = [b.slots EXCEPT ![id] = s]], b, id, s)
<1> DEFINE T == [b.slots EXCEPT ![id] = s]
           p == [b EXCEPT !.slots = T]
<1>1. DOMAIN T = DOMAIN b.slots /\ \A x \in DOMAIN b.slots : T[x] = IF x = id THEN s ELSE b.slots[x]
  OBVIOUS
<1> HIDE DEF T
<1>2. DOMAIN p = BridgeFields /\ p.slots = T /\ p.me_to_gw = b.me_to_gw /\ p.evq = b.evq
      /\ p.next_seq = b.next_seq
  BY DEF BridgeFields
<1> HIDE DEF p
<1> QED
  BY <1>1, <1>2 DEF OneSlot, p, T

(* The other state is one of the same order. *)
LEMMA OneSlotKeeps ==
  ASSUME NEW b, Registry(b), Queue(b), NEW p, NEW id, NEW s, OneSlot(p, b, id, s),
         id \in DOMAIN b.slots => SameOrder(s, b.slots[id])
  PROVE  Registry(p) /\ Queue(p) /\ SameRegistry(p, b)
<1>1. SameRegistry(p, b)
  BY DEF Registry, OneSlot, SameRegistry, SameOrder
<1>2. Registry(p)
  BY <1>1 DEF Registry, OneSlot, SameRegistry, SameOrder
<1>3. Queue(p)
  BY DEF Queue, OneSlot
<1> QED
  BY <1>1, <1>2, <1>3

(* The state of an order after a fill. *)
LEMMA FilledSlot ==
  ASSUME NEW s, DOMAIN s = SlotFields, NEW qty
  PROVE  LET left == IF s.qty_remain >= qty THEN s.qty_remain - qty ELSE 0
             t == Filled(s, qty)
         IN  /\ SameOrder(t, s) /\ t.price = s.price /\ t.touched = TRUE
             /\ t.qty_filled = s.qty_filled + qty /\ t.qty_remain = left
             /\ t.status = IF left = 0 THEN "FILLED" ELSE "PARTIAL"
<1> DEFINE left == IF s.qty_remain >= qty THEN s.qty_remain - qty ELSE 0
           n == s.qty_filled + qty
           st == IF left = 0 THEN "FILLED" ELSE "PARTIAL"
           t == Filled(s, qty)
<1>1. t = [s EXCEPT !.qty_filled = n, !.qty_remain = left, !.touched = TRUE, !.status = st]
  BY DEF Filled
<1> HIDE DEF t, left, n, st
<1>2. /\ DOMAIN t = SlotFields /\ t.me_id = s.me_id /\ t.account_id = s.account_id /\ t.type = s.type
      /\ t.side = s.side /\ t.price = s.price /\ t.touched = TRUE
      /\ t.qty_filled = n /\ t.qty_remain = left /\ t.status = st
  BY <1>1 DEF SlotFields
<1> QED
  BY <1>2, Zenon DEF SameOrder, t, left, n, st

(* The state of an order after an event of its own. *)
LEMMA ToldSlot ==
  ASSUME NEW s, DOMAIN s = SlotFields, NEW ev
  PROVE  LET t == Told(Advanced(s, ev), ev)
         IN  /\ SameOrder(t, s) /\ t.touched = TRUE
             /\ ev.type = "CANCELLED" =>
                  /\ t.price = s.price /\ t.qty_remain = 0 /\ t.qty_filled = s.qty_filled
             /\ ev.type = "MODIFIED" =>
                  /\ t.price = ev.price /\ t.qty_remain = ev.qty_remain /\ t.qty_filled = s.qty_filled
             /\ ev.type \notin {"CANCELLED", "MODIFIED"} =>
                  /\ t.price = s.price /\ t.qty_remain = ev.qty_remain
                  /\ t.qty_filled = Greater(ev.qty_filled, s.qty_filled)
             /\ t.status = StatusOf(ev, t.qty_filled)
<1> DEFINE a == Advanced(s, ev)
           st == StatusOf(ev, a.qty_filled)
           t == Told(a, ev)
           more == Greater(ev.qty_filled, s.qty_filled)
<1>1. t = [a EXCEPT !.touched = TRUE, !.status = st]
  BY DEF Told
<1>2. /\ ev.type = "CANCELLED" => a = [s EXCEPT !.qty_remain = 0]
      /\ ev.type = "MODIFIED" => a = [s EXCEPT !.price = ev.price, !.qty_remain = ev.qty_remain]
      /\ ev.type \notin {"CANCELLED", "MODIFIED"} =>
           a = [s EXCEPT !.qty_remain = ev.qty_remain, !.qty_filled = more]
  BY DEF Advanced
<1> HIDE DEF a, t, st, more
<1>3. /\ SameOrder(a, s)
      /\ ev.type = "CANCELLED" => a.price = s.price /\ a.qty_remain = 0 /\ a.qty_filled = s.qty_filled
      /\ ev.type = "MODIFIED" =>
           a.price = ev.price /\ a.qty_remain = ev.qty_remain /\ a.qty_filled = s.qty_filled
      /\ ev.type \notin {"CANCELLED", "MODIFIED"} =>
           a.price = s.price /\ a.qty_remain = ev.qty_remain /\ a.qty_filled = more
  <2>1. CASE ev.type = "CANCELLED"
    BY <1>2, <2>1 DEF SameOrder, SlotFields
  <2>2. CASE ev.type = "MODIFIED"
    BY <1>2, <2>2 DEF SameOrder, SlotFields
  <2>3. CASE ev.type \notin {"CANCELLED", "MODIFIED"}
    BY <1>2, <2>3 DEF SameOrder, SlotFields
  <2> QED
    BY <2>1, <2>2, <2>3
<1>4. /\ SameOrder(t, a) /\ t.touched = TRUE /\ t.status = st /\ t.price = a.price
      /\ t.qty_remain = a.qty_remain /\ t.qty_filled = a.qty_filled
  BY <1>1, <1>3 DEF SameOrder, SlotFields
<1>5. SameOrder(t, s) /\ st = StatusOf(ev, t.qty_filled)
  BY <1>3, <1>4 DEF SameOrder, st
<1> HIDE DEF SameOrder
<1> QED
  BY <1>3, <1>4, <1>5 DEF t, a, more

(* slot_apply_fill *)
LEMMA ApplyFillIs ==
  ASSUME NEW b, Registry(b), Queue(b), NEW id, NEW qty
  PROVE  LET p == slot_apply_fill(b, id, qty)
         IN  /\ OneSlot(p, b, id, Filled(b.slots[id], qty))
             /\ Registry(p) /\ Queue(p) /\ SameRegistry(p, b)
<1> DEFINE s == Filled(b.slots[id], qty)
           p == slot_apply_fill(b, id, qty)
           T == [b.slots EXCEPT ![id] = s]
           x == [b EXCEPT !.slots = T]
<1>1. p = IF Known(b, id) THEN x ELSE b
  BY DEF slot_apply_fill
<1>2. DOMAIN b = BridgeFields
  BY DEF Registry
<1>3. OneSlot(x, b, id, s)
  <2> HIDE DEF s
  <2> QED
    BY <1>2, SlotSet
<1> HIDE DEF x, s, p
<1>4. OneSlot(p, b, id, s)
  <2>1. CASE Known(b, id)
    BY <1>1, <1>3, <2>1
  <2>2. CASE ~Known(b, id)
    <3>1. p = b /\ id \notin DOMAIN b.slots
      BY <1>1, <2>2 DEF Known
    <3> QED
      BY <1>2, <3>1 DEF OneSlot
  <2> QED
    BY <2>1, <2>2
<1>5. id \in DOMAIN b.slots => SameOrder(s, b.slots[id])
  <2> SUFFICES ASSUME id \in DOMAIN b.slots PROVE SameOrder(s, b.slots[id])
    OBVIOUS
  <2>1. DOMAIN b.slots[id] = SlotFields
    BY DEF Registry
  <2> QED
    BY <2>1, FilledSlot DEF s
<1>6. Registry(p) /\ Queue(p) /\ SameRegistry(p, b)
  BY <1>4, <1>5, OneSlotKeeps
<1> QED
  BY <1>4, <1>6 DEF p, s

(* emit_order_snapshot *)
LEMMA SnapshotIs ==
  ASSUME NEW b, NEW id
  PROVE  Pushed(emit_order_snapshot(b, id), b, Snapshot(id, b.slots[id]))
<1> QED
  BY Zenon DEF emit_order_snapshot, Snapshot, Pushed

(* A push keeps the registry. *)
LEMMA PushedKeeps ==
  ASSUME NEW b, Registry(b), Queue(b), NEW ev, NEW p, Pushed(p, b, ev)
  PROVE  Registry(p) /\ Queue(p) /\ SameOrders(p, b)
<1>1. Queue(p) /\ SameOrders(p, b)
  BY PushEventIs DEF Pushed
<1>2. Registry(p)
  BY <1>1 DEF Registry, SameOrders, Queue
<1> QED
  BY <1>1, <1>2

(* Traded goes through them. *)
LEMMA TradedSteps ==
  ASSUME NEW b, Registry(b), Queue(b), NEW agg, NEW rest, NEW ev
  PROVE  \E b1, b2, b3 : TradeSteps(Traded(b, agg, rest, ev), b, agg, rest, ev, b1, b2, b3)
<1> DEFINE b1 == slot_apply_fill(b, agg, ev.qty)
           b2 == slot_apply_fill(b1, rest, ev.qty)
           told == TradeTold(ev, AccountOf(b, agg), AccountOf(b, rest))
           b3 == push_event(b2, told)
           p == Traded(b, agg, rest, ev)
<1>1. p = Surfaced(b3, rest)
  BY Zenon DEF Traded, TradeTold
<1>2. /\ OneSlot(b1, b, agg, Filled(b.slots[agg], ev.qty)) /\ Registry(b1) /\ Queue(b1)
      /\ SameRegistry(b1, b)
  BY ApplyFillIs
<1> HIDE DEF b1
<1>3. /\ OneSlot(b2, b1, rest, Filled(b1.slots[rest], ev.qty)) /\ Registry(b2) /\ Queue(b2)
      /\ SameRegistry(b2, b1)
  BY <1>2, ApplyFillIs
<1>4. Pushed(b3, b2, told)
  BY DEF Pushed
<1> HIDE DEF b2, b3
<1>5. Registry(b3) /\ Queue(b3) /\ SameOrders(b3, b2)
  BY <1>3, <1>4, PushedKeeps
<1>6. DOMAIN b3.slots = DOMAIN b.slots
  BY <1>2, <1>3, <1>5 DEF SameRegistry, SameOrders
<1>7. p = IF rest \in DOMAIN b.slots THEN emit_order_snapshot(b3, rest) ELSE b3
  BY <1>1, <1>6 DEF Surfaced, Known
<1> HIDE DEF p
<1>8. IF rest \in DOMAIN b.slots THEN Pushed(p, b3, Snapshot(rest, b3.slots[rest])) ELSE p = b3
  BY <1>7, SnapshotIs
<1>9. Registry(p) /\ Queue(p) /\ SameOrders(p, b3)
  <2>1. CASE rest \in DOMAIN b.slots
    BY <1>5, <1>8, <2>1, PushedKeeps
  <2>2. CASE rest \notin DOMAIN b.slots
    BY <1>5, <1>8, <2>2 DEF SameOrders
  <2> QED
    BY <2>1, <2>2
<1>10. TradeSteps(p, b, agg, rest, ev, b1, b2, b3)
  BY <1>2, <1>3, <1>4, <1>5, <1>8, <1>9 DEF TradeSteps
<1> QED
  BY <1>10 DEF p

(* OrderEvent goes through them, or passes the event over. *)
LEMMA OrderEventSteps ==
  ASSUME NEW b, Registry(b), Queue(b), NEW id, id = 0 \/ id \in DOMAIN b.slots, NEW ev
  PROVE  LET p == OrderEvent(b, id, ev)
         IN  \/ p = b /\ (id = 0 \/ Dead(b.slots[id]))
             \/ /\ id \in DOMAIN b.slots /\ ~Dead(b.slots[id])
                /\ \E b1 : OrderSteps(p, b, id, ev, b1)
<1> DEFINE p == OrderEvent(b, id, ev)
           s == Told(Advanced(b.slots[id], ev), ev)
           T == [b.slots EXCEPT ![id] = s]
           b1 == [b EXCEPT !.slots = T]
<1>1. p = IF id = 0 \/ Dead(b.slots[id]) THEN b ELSE emit_order_snapshot(b1, id)
  BY DEF OrderEvent
<1>2. CASE id = 0 \/ Dead(b.slots[id])
  BY <1>1, <1>2
<1>3. CASE ~(id = 0 \/ Dead(b.slots[id]))
  <2>1. id \in DOMAIN b.slots /\ DOMAIN b.slots[id] = SlotFields /\ DOMAIN b = BridgeFields
    BY <1>3 DEF Registry
  <2>2. OneSlot(b1, b, id, s)
    <3> HIDE DEF s
    <3> QED
      BY <2>1, SlotSet
  <2>3. SameOrder(s, b.slots[id])
    BY <2>1, ToldSlot
  <2> HIDE DEF b1, s
  <2>4. Registry(b1) /\ Queue(b1) /\ SameRegistry(b1, b)
    BY <2>2, <2>3, OneSlotKeeps
  <2>5. p = emit_order_snapshot(b1, id)
    BY <1>1, <1>3
  <2> HIDE DEF p
  <2>6. Pushed(p, b1, Snapshot(id, b1.slots[id]))
    BY <2>5, SnapshotIs
  <2>7. Registry(p) /\ Queue(p) /\ SameOrders(p, b1)
    BY <2>4, <2>6, PushedKeeps
  <2>8. OrderSteps(p, b, id, ev, b1)
    BY <2>2, <2>4, <2>6, <2>7 DEF OrderSteps, s
  <2> QED
    BY <1>3, <2>1, <2>8 DEF p
<1> QED
  BY <1>2, <1>3

(* SameRegistry one after the other. *)
LEMMA SameRegistryChain ==
  ASSUME NEW b, NEW p, NEW q, SameRegistry(p, b), SameRegistry(q, p)
  PROVE  SameRegistry(q, b)
BY DEF SameRegistry, SameOrder

(* The registry does not change with the queue. *)
LEMMA SameOrdersRegistry ==
  ASSUME NEW b, Registry(b), NEW p, SameOrders(p, b)
  PROVE  SameRegistry(p, b)
BY DEF SameRegistry, SameOrder, SameOrders, Registry

(* An event changes neither the ids nor the owners of the registered orders. *)
LEMMA StagedKeeps ==
  ASSUME NEW b, Registry(b), Queue(b), NEW ev
  PROVE  LET p == StagedEvent(b, ev) IN Registry(p) /\ Queue(p) /\ SameRegistry(p, b)
<1> DEFINE p == StagedEvent(b, ev)
           agg == gw_from_me(b, ev.id)
           rest == gw_from_me(b, ev.resting_id)
<1>1. \/ p = b
      \/ p = Traded(b, agg, rest, ev)
      \/ p = OrderEvent(b, agg, ev)
  BY DEF StagedEvent, Translate
<1>2. agg = 0 \/ agg \in DOMAIN b.slots
  BY DEF gw_from_me, Registry
<1>3. SameRegistry(b, b)
  BY DEF Registry, SameRegistry, SameOrder
<1> HIDE DEF p, agg, rest
<1>4. CASE p = b
  BY <1>3, <1>4 DEF p
<1>5. CASE p = Traded(b, agg, rest, ev)
  <2>1. PICK b1, b2, b3 : TradeSteps(p, b, agg, rest, ev, b1, b2, b3)
    BY <1>5, TradedSteps
  <2>2. /\ SameRegistry(b1, b) /\ SameRegistry(b2, b1) /\ SameOrders(b3, b2) /\ SameOrders(p, b3)
        /\ Registry(b2) /\ Registry(b3) /\ Registry(p) /\ Queue(p)
    BY <2>1 DEF TradeSteps
  <2>3. SameRegistry(b3, b2) /\ SameRegistry(p, b3)
    BY <2>2, SameOrdersRegistry
  <2>4. SameRegistry(b2, b)
    BY <2>2, SameRegistryChain
  <2>5. SameRegistry(b3, b)
    BY <2>3, <2>4, SameRegistryChain
  <2>6. SameRegistry(p, b)
    BY <2>3, <2>5, SameRegistryChain
  <2> QED
    BY <2>2, <2>6 DEF p
<1>6. CASE p = OrderEvent(b, agg, ev)
  <2>1. p = b \/ \E b1 : OrderSteps(p, b, agg, ev, b1)
    BY <1>2, <1>6, OrderEventSteps
  <2>2. ASSUME NEW b1, OrderSteps(p, b, agg, ev, b1) PROVE Registry(p) /\ Queue(p) /\ SameRegistry(p, b)
    <3>1. Registry(p) /\ Queue(p) /\ SameOrders(p, b1) /\ Registry(b1) /\ SameRegistry(b1, b)
      BY <2>2 DEF OrderSteps
    <3>2. SameRegistry(p, b1)
      BY <3>1, SameOrdersRegistry
    <3> QED
      BY <3>1, <3>2, SameRegistryChain
  <2> QED
    BY <1>3, <2>1, <2>2 DEF p
<1> QED
  BY <1>1, <1>4, <1>5, <1>6
-----------------------------------------------------------------------------
(* What a client learns by polling. *)

(* An event of an order. *)
LEMMA PolledOrder ==
  ASSUME NEW c, NEW n \in Nat, UpTo(c, n), NEW ev, ev.kind = "ORDER"
  PROVE  LET d == Polled(c, <<n + 1, ev>>)
         IN  /\ UpTo(d, n + 1) /\ d.orders = Put(c.orders, ev.order_id, ev)
             /\ d.positions = c.positions /\ d.selfish = c.selfish /\ d.ladder = c.ladder
<1> DEFINE e == <<n + 1, ev>>
           f == Put(c.orders, ev.order_id, ev)
           d == Polled(c, e)
<1>1. ~c.gap /\ e[1] = c.seq + 1 /\ e[2] = ev /\ e[1] = n + 1 /\ DOMAIN c = ClientFields
  BY DEF UpTo
<1>2. d = [c EXCEPT !.seq = e[1], !.orders = f]
  <2>1. ~(c.gap \/ e[1] # c.seq + 1) /\ e[2].kind = "ORDER"
    BY <1>1
  <2> HIDE DEF e
  <2> QED
    BY <1>1, <2>1 DEF Polled
<1> HIDE DEF d, f, e
<1>3. /\ DOMAIN d = ClientFields /\ d.seq = n + 1 /\ d.orders = f /\ d.gap = c.gap
      /\ d.positions = c.positions /\ d.selfish = c.selfish /\ d.ladder = c.ladder
  BY <1>1, <1>2 DEF ClientFields
<1>4. UpTo(d, n + 1)
  BY <1>1, <1>3 DEF UpTo
<1> QED
  BY <1>3, <1>4 DEF d, f, e

(* An event of a trade: its legs, the buyer's first. *)
LEMMA PolledTrade ==
  ASSUME NEW c, NEW n \in Nat, UpTo(c, n), NEW ev, NEW a, NEW r, ev.side \in Side
  PROVE  \E x : /\ UpTo(x, n + 1) /\ x.orders = c.orders /\ x.positions = c.positions
                /\ x.selfish = c.selfish /\ x.ladder = c.ladder
                /\ Polled(c, <<n + 1, TradeTold(ev, a, r)>>) =
                     IF ev.side = "BID" THEN Trade(x, TradeTold(ev, a, r), a, r)
                     ELSE Trade(x, TradeTold(ev, a, r), r, a)
<1> DEFINE t == TradeTold(ev, a, r)
           e == <<n + 1, t>>
           d == Polled(c, e)
           x == [c EXCEPT !.seq = e[1]]
<1>1. ~c.gap /\ e[1] = c.seq + 1 /\ e[2] = t /\ e[1] = n + 1 /\ DOMAIN c = ClientFields
  BY DEF UpTo
<1>2. /\ t.kind = "TRADE" /\ t.aggressor_side = ev.side /\ t.aggressor_account = a
      /\ t.resting_account = r
  BY DEF TradeTold
<1> HIDE DEF t
<1>3. d = IF ev.side = "BID" THEN Trade(x, t, a, r) ELSE Trade(x, t, r, a)
  <2>1. ~(c.gap \/ e[1] # c.seq + 1) /\ e[2].kind # "ORDER"
    BY <1>1, <1>2
  <2> HIDE DEF e, x
  <2>2. d = LET v == e[2] IN IF v.aggressor_side = "BID"
            THEN Trade(x, v, v.aggressor_account, v.resting_account)
            ELSE Trade(x, v, v.resting_account, v.aggressor_account)
    BY <2>1, Zenon DEF Polled, x
  <2> QED
    BY <1>1, <1>2, <2>2
<1>4. /\ UpTo(x, n + 1) /\ x.orders = c.orders /\ x.positions = c.positions
      /\ x.selfish = c.selfish /\ x.ladder = c.ladder
  <2> HIDE DEF e
  <2> QED
    BY <1>1 DEF UpTo, ClientFields
<1> HIDE DEF d, x, e
<1> QED
  BY <1>3, <1>4 DEF d, e, t

(* Agreement is about positions. *)
LEMMA AgreeSame ==
  ASSUME NEW c, NEW d, NEW acc, Agree(c, acc), DOMAIN d = ClientFields, d.positions = c.positions,
         d.selfish = c.selfish
  PROVE  Agree(d, acc)
BY DEF Agree

(* Snapshots do not disturb it. *)
LEMMA SnapshotPolls ==
  ASSUME NEW b, Queue(b), NEW c, Behind(c, b), NEW acc, Complete(c, b) => Polls(c, b, acc),
         NEW id, NEW s, NEW p, Pushed(p, b, Snapshot(id, s))
  PROVE  Behind(c, p) /\ (Complete(c, p) => Polls(c, p, acc))
<1> DEFINE ev == Snapshot(id, s)
           v == View(c, b)
           n == b.next_seq
<1>1. p = push_event(b, ev) /\ ev.kind = "ORDER"
  BY DEF Pushed, Snapshot
<1> HIDE DEF ev
<1>2. /\ Behind(c, p)
      /\ Complete(c, p) => Complete(c, b) /\ View(c, p) = Polled(v, <<n + 1, ev>>)
  BY <1>1, PushViewed
<1>3. p.next_seq = n + 1 /\ n \in Nat
  <2>1. p.next_seq = n + 1
    BY <1>1, PushEventIs
  <2> QED
    BY <2>1 DEF Queue
<1>4. ASSUME Complete(c, p) PROVE Polls(c, p, acc)
  <2>1. UpTo(v, n) /\ Agree(v, acc) /\ View(c, p) = Polled(v, <<n + 1, ev>>)
    BY <1>2, <1>4 DEF Polls
  <2> HIDE DEF v, n
  <2> DEFINE d == Polled(v, <<n + 1, ev>>)
  <2>2. UpTo(d, n + 1) /\ d.positions = v.positions /\ d.selfish = v.selfish
    BY <1>1, <1>3, <2>1, PolledOrder
  <2> HIDE DEF d
  <2>3. Agree(d, acc)
    BY <2>1, <2>2, AgreeSame DEF UpTo
  <2> QED
    BY <1>3, <2>1, <2>2, <2>3 DEF Polls, d
<1> QED
  BY <1>2, <1>4

(* A trade told with the accounts that it goes to in the pipeline. *)
LEMMA TradePolls ==
  ASSUME NEW b, Queue(b), NEW c, Behind(c, b), NEW acc, Complete(c, b) => Polls(c, b, acc),
         DOMAIN acc = Accounts, \A x \in Accounts : PortfolioTyped(acc[x]),
         NEW ev, ev.side \in Side, ev.price \in Nat, ev.qty \in Nat \ {0}, NEW map,
         NEW a, a = id_map_lookup_account(map, ev.id), NEW r, r = id_map_lookup_account(map, ev.resting_id),
         NEW p, Pushed(p, b, TradeTold(ev, a, r))
  PROVE  Behind(c, p) /\ (Complete(c, p) => Polls(c, p, apply_trade(map, acc, ev)))
<1> DEFINE t == TradeTold(ev, a, r)
           v == View(c, b)
           n == b.next_seq
           after == apply_trade(map, acc, ev)
<1>1. p = push_event(b, t) /\ t.price = ev.price /\ t.qty = ev.qty
  BY DEF Pushed, TradeTold
<1> HIDE DEF t
<1>2. /\ Behind(c, p)
      /\ Complete(c, p) => Complete(c, b) /\ View(c, p) = Polled(v, <<n + 1, t>>)
  BY <1>1, PushViewed
<1>3. p.next_seq = n + 1 /\ n \in Nat
  <2>1. p.next_seq = n + 1
    BY <1>1, PushEventIs
  <2> QED
    BY <2>1 DEF Queue
<1>4. after = Fill(Fill(acc, a, ev.side, ev), r, Opp(ev.side), ev)
  BY Zenon DEF apply_trade
<1>5. after = Fill(Fill(acc, a, ev.side, t), r, Opp(ev.side), t)
  BY <1>1, <1>4 DEF Fill
<1>6. ASSUME Complete(c, p) PROVE Polls(c, p, after)
  <2>1. UpTo(v, n) /\ Agree(v, acc) /\ View(c, p) = Polled(v, <<n + 1, t>>)
    BY <1>2, <1>6 DEF Polls
  <2> HIDE DEF v, n, after
  <2>2. PICK x : /\ UpTo(x, n + 1) /\ x.positions = v.positions /\ x.selfish = v.selfish
                 /\ Polled(v, <<n + 1, t>>) = IF ev.side = "BID" THEN Trade(x, t, a, r)
                                              ELSE Trade(x, t, r, a)
    <3>1. \E x : /\ UpTo(x, n + 1) /\ x.orders = v.orders /\ x.positions = v.positions
                 /\ x.selfish = v.selfish /\ x.ladder = v.ladder
                 /\ Polled(v, <<n + 1, TradeTold(ev, a, r)>>) =
                     IF ev.side = "BID" THEN Trade(x, TradeTold(ev, a, r), a, r)
                     ELSE Trade(x, TradeTold(ev, a, r), r, a)
      BY <1>3, <2>1, PolledTrade
    <3> QED
      BY <3>1 DEF t
  <2>3. Agree(x, acc)
    BY <2>1, <2>2, AgreeSame DEF UpTo
  <2>4. CASE ev.side = "BID"
    <3>1. after = Fill(Fill(acc, a, "BID", t), r, "ASK", t)
      BY <1>5, <2>4 DEF Opp
    <3> DEFINE d == Trade(x, t, a, r)
    <3>2. Agree(d, after) /\ d.seq = x.seq /\ d.gap = x.gap
      BY <1>1, <2>3, <3>1, LegsAgree
    <3>3. View(c, p) = d
      BY <2>1, <2>2, <2>4
    <3> HIDE DEF d
    <3> QED
      BY <1>3, <2>2, <3>2, <3>3 DEF Polls, UpTo, Agree
  <2>5. CASE ev.side = "ASK"
    <3>1. after = Fill(Fill(acc, a, "ASK", t), r, "BID", t)
      BY <1>5, <2>5 DEF Opp
    <3> DEFINE d == Trade(x, t, r, a)
    <3>2. Agree(d, after) /\ d.seq = x.seq /\ d.gap = x.gap
      <4>1. \/ after = Fill(Fill(acc, r, "BID", t), a, "ASK", t)
            \/ after = Fill(Fill(acc, a, "ASK", t), r, "BID", t)
        BY <3>1
      <4>2. t.price \in Nat /\ t.qty \in Nat \ {0}
        BY <1>1
      <4> HIDE <1>1, <1>2, <1>4, <1>5, <2>1, <2>2
      <4> QED
        BY <2>3, <4>1, <4>2, LegsAgree, SMTT(60)
    <3>3. View(c, p) = d
      BY <2>1, <2>2, <2>5
    <3> HIDE DEF d
    <3> QED
      BY <1>3, <2>2, <3>2, <3>3 DEF Polls, UpTo, Agree
  <2> QED
    BY <2>4, <2>5 DEF Side
<1> QED
  BY <1>2, <1>6 DEF after

(* It stays so when no owner changes. *)
LEMMA AttributesSame ==
  ASSUME NEW b, Registry(b), NEW p, SameRegistry(p, b), NEW map, Attributes(b, map)
  PROVE  Attributes(p, map)
<1>1. \A i : gw_from_me(p, i) = gw_from_me(b, i)
  BY DEF gw_from_me, SameRegistry
<1>2. \A x : AccountOf(p, x) = AccountOf(b, x)
  BY DEF AccountOf, Known, SameRegistry, SameOrder
<1> QED
  BY <1>1, <1>2 DEF Attributes

(* A changed order is not an event. *)
LEMMA OneSlotPolls ==
  ASSUME NEW b, NEW p, NEW id, NEW s, OneSlot(p, b, id, s), NEW c, Behind(c, b), NEW acc,
         Complete(c, b) => Polls(c, b, acc)
  PROVE  Behind(c, p) /\ (Complete(c, p) => Polls(c, p, acc))
BY DEF OneSlot, Behind, Complete, Polls, View

(* An event of the engine brings the adapter's positions, once polled, and  *)
(* the pipeline's accounts forward together.                                *)
LEMMA StagedPolls ==
  ASSUME NEW b, Registry(b), Queue(b), NEW c, Behind(c, b), NEW acc, Complete(c, b) => Polls(c, b, acc),
         DOMAIN acc = Accounts, \A x \in Accounts : PortfolioTyped(acc[x]),
         NEW map, Attributes(b, map), NEW ev, TradeSound(ev)
  PROVE  LET p == StagedEvent(b, ev)
         IN  Behind(c, p) /\ (Complete(c, p) => Polls(c, p, AccountsAfter(map, acc, ev)))
<1> DEFINE p == StagedEvent(b, ev)
           agg == gw_from_me(b, ev.id)
           rest == gw_from_me(b, ev.resting_id)
<1>1. CASE ev.type = "TRADE"
  <2>1. p = Traded(b, agg, rest, ev)
    BY <1>1 DEF StagedEvent, Translate, Staged, bus_publish, Topic
  <2>2. ev.side \in Side /\ ev.price \in Nat /\ ev.qty \in Nat \ {0}
    BY <1>1 DEF TradeSound
  <2>3. /\ AccountOf(b, agg) = id_map_lookup_account(map, ev.id)
        /\ AccountOf(b, rest) = id_map_lookup_account(map, ev.resting_id)
    BY DEF Attributes
  <2> HIDE DEF p, agg, rest
  <2>4. PICK b1, b2, b3 : TradeSteps(p, b, agg, rest, ev, b1, b2, b3)
    BY <2>1, TradedSteps
  <2> DEFINE after == apply_trade(map, acc, ev)
             x == AccountOf(b, agg)
             y == AccountOf(b, rest)
  <2>5. /\ OneSlot(b1, b, agg, Filled(b.slots[agg], ev.qty))
        /\ OneSlot(b2, b1, rest, Filled(b1.slots[rest], ev.qty)) /\ Queue(b2)
        /\ Pushed(b3, b2, TradeTold(ev, x, y)) /\ Queue(b3)
        /\ IF rest \in DOMAIN b.slots THEN Pushed(p, b3, Snapshot(rest, b3.slots[rest])) ELSE p = b3
    BY <2>4 DEF TradeSteps
  <2> HIDE DEF x, y
  <2>6. Behind(c, b1) /\ (Complete(c, b1) => Polls(c, b1, acc))
    BY <2>5, OneSlotPolls
  <2>7. Behind(c, b2) /\ (Complete(c, b2) => Polls(c, b2, acc))
    BY <2>5, <2>6, OneSlotPolls
  <2>8. Behind(c, b3) /\ (Complete(c, b3) => Polls(c, b3, after))
    BY <2>2, <2>3, <2>5, <2>7, TradePolls DEF x, y
  <2> HIDE DEF after
  <2>9. Behind(c, p) /\ (Complete(c, p) => Polls(c, p, after))
    <3>1. CASE rest \in DOMAIN b.slots
      BY <2>5, <2>8, <3>1, SnapshotPolls
    <3>2. CASE rest \notin DOMAIN b.slots
      BY <2>5, <2>8, <3>2
    <3> QED
      BY <3>1, <3>2
  <2> QED
    BY <1>1, <2>9 DEF AccountsAfter, after, p
<1>2. CASE ev.type # "TRADE"
  <2>1. p = b \/ p = OrderEvent(b, agg, ev)
    BY <1>2 DEF StagedEvent, Translate
  <2>2. agg = 0 \/ agg \in DOMAIN b.slots
    BY DEF gw_from_me, Registry
  <2>3. AccountsAfter(map, acc, ev) = acc
    BY <1>2 DEF AccountsAfter
  <2> HIDE DEF p, agg
  <2>4. CASE p = OrderEvent(b, agg, ev)
    <3>1. p = b \/ \E b1 : OrderSteps(p, b, agg, ev, b1)
      BY <2>2, <2>4, OrderEventSteps
    <3>2. ASSUME NEW b1, OrderSteps(p, b, agg, ev, b1)
          PROVE  Behind(c, p) /\ (Complete(c, p) => Polls(c, p, acc))
      <4>1. /\ OneSlot(b1, b, agg, Told(Advanced(b.slots[agg], ev), ev)) /\ Queue(b1)
            /\ Pushed(p, b1, Snapshot(agg, b1.slots[agg]))
        BY <3>2 DEF OrderSteps
      <4>2. Behind(c, b1) /\ (Complete(c, b1) => Polls(c, b1, acc))
        BY <4>1, OneSlotPolls
      <4> QED
        BY <4>1, <4>2, SnapshotPolls
    <3> QED
      BY <2>3, <3>1, <3>2 DEF p
  <2> QED
    BY <2>1, <2>3, <2>4 DEF p
<1> QED
  BY <1>1, <1>2
-----------------------------------------------------------------------------
(* Engine ids: cancels and modifications take none. *)

(* The engine's ids after an event of the ring was dispatched. *)
LEMMA DispatchIds ==
  ASSUME PInv, NEW ev, Dispatch(ev)
  PROVE  /\ ev \in Posted
         /\ ev.action = "NEW" => GivenId(me', me)
         /\ ev.action # "NEW" => me'.next_order_id = me.next_order_id
<1>1. /\ Takes(ev)
      /\ \/ ev.action = "NEW" /\ match_new(ev)
         \/ ev.action = "CANCEL" /\ match_cancel(ev)
         \/ ev.action = "MODIFY" /\ match_modify(ev)
  BY Zenon DEF Dispatch
<1>2. ev \in Posted
  BY <1>1, TakesKeeps
<1>3. PICK v : EInv(v, me)
  BY DEF PInv, EngineSound
<1>4. DOMAIN me = EngineFields
  BY <1>3 DEF EInv, EngineTyped
<1>5. CASE ev.action = "NEW" /\ match_new(ev)
  BY <1>2, <1>3, <1>5, MatchNewKeeps
<1>6. CASE ev.action = "CANCEL" /\ match_cancel(ev)
  <2> DEFINE at == Target(ev)
             o == CHOOSE o \in at : TRUE
  <2>1. me' = IF at = {} THEN me_cancel_stop(me, ev.target_order_id) ELSE me_cancel_order(me, o)
    BY <1>6, Zenon DEF match_cancel
  <2> HIDE DEF at, o
  <2> QED
    BY <1>2, <1>4, <1>6, <2>1, CancelStopSameIds, CancelOrderSameIds DEF SameIds
<1>7. CASE ev.action = "MODIFY" /\ match_modify(ev)
  <2> DEFINE at == Target(ev)
             o == CHOOSE o \in at : TRUE
             price == ev.price
             qty == ev.qty
  <2>1. me' = IF at = {} \/ price <= 0 \/ qty = 0 THEN me ELSE me_modify_order(me, o, price, qty)
    BY <1>7, Zenon DEF match_modify
  <2> HIDE DEF at, o, price, qty
  <2> QED
    BY <1>2, <1>4, <1>7, <2>1, ModifyOrderSameIds DEF SameIds
<1> QED
  BY <1>1, <1>5, <1>6, <1>7

(* The cascade takes ids, but gives none back. *)
LEMMA CascadeIds ==
  ASSUME PInv, Cascade
  PROVE  me'.next_order_id >= me.next_order_id /\ me.next_order_id \in Nat \ {0}
                                               /\ me'.next_order_id \in Nat \ {0}
<1>1. PICK v : EInv(v, me)
  BY DEF PInv, EngineSound
<1>2. me.next_order_id \in Nat \ {0} /\ DOMAIN me = EngineFields
  BY <1>1 DEF EInv, EngineTyped
<1>3. CASE FireStop
  <2> DEFINE scan == Last(stack)
  <2>1. PICK i \in Hits(scan) : Fire(i, scan)
    BY <1>3 DEF FireStop
  <2>2. i \in ActiveStops(me) /\ i \in Slots
    BY DEF Hits, ActiveStops
  <2> HIDE DEF scan
  <2> DEFINE s == me.stops[i]
             d == Disarm(me, i)
             armed == emit_order_event(d, "STOP_TRIGGERED", s.id, s.orig_type, s.qty, s.qty, 0)
             type == IF s.orig_type = "STOP" THEN "MARKET" ELSE "LIMIT"
             r == me_submit_order(armed, type, s.side, s.limit, s.qty)
  <2>3. me' = r.e
    BY <2>1, Zenon DEF Fire, GoOn
  <2>4. EInv(v, armed)
    BY <1>1, <2>2, ArmedKeeps
  <2>5. armed.next_order_id = me.next_order_id
    <3> DEFINE st == [me.stops EXCEPT ![i] = NoStop]
    <3>1. d = [me EXCEPT !.stops = st]
      BY DEF Disarm, Deactivate
    <3> HIDE DEF d, st
    <3>2. SameIds(d, me)
      BY <1>2, <3>1 DEF SameIds, EngineFields
    <3>3. SameIds(armed, d)
      BY <3>2, EmitSameIds DEF SameIds
    <3> QED
      BY <3>2, <3>3 DEF SameIds
  <2>6. s \in Stop
    BY <1>1, <2>2, StopFields DEF EInv
  <2>7. /\ type \in {"LIMIT", "MARKET", "IOC", "FOK"} /\ s.side \in Side /\ s.limit \in Nat
        /\ s.qty \in Nat \ {0}
    BY <2>6 DEF Stop
  <2> HIDE DEF armed, type, s, d
  <2>8. TakesId(r, armed)
    BY <2>4, <2>7, SubmitTakesId
  <2> HIDE DEF r
  <2> QED
    BY <1>2, <2>3, <2>5, <2>8 DEF TakesId
<1>4. CASE ScanDone
  BY <1>2, <1>4 DEF ScanDone
<1> QED
  BY <1>3, <1>4 DEF Cascade
-----------------------------------------------------------------------------
(* The registry and the map. *)

(* What the ids of the registry depend on. *)
LEMMA MatchedSame ==
  ASSUME NEW b, NEW last, Matched(b, last), NEW p, Registry(p), SameRegistry(p, b), NEW map
  PROVE  /\ Matched(p, last)
         /\ KnownIn(b, map) => KnownIn(p, map)
         /\ AllKnown(b, map) => AllKnown(p, map)
<1>1. p.me_to_gw = b.me_to_gw /\ DOMAIN p.slots = DOMAIN b.slots
  BY DEF SameRegistry
<1>2. \A id \in DOMAIN b.slots : /\ p.slots[id].me_id = b.slots[id].me_id
                                 /\ p.slots[id].account_id = b.slots[id].account_id
  BY DEF SameRegistry, SameOrder
<1>3. \A i \in DOMAIN b.me_to_gw : b.me_to_gw[i] \in DOMAIN b.slots
  BY DEF Matched, Registry
<1>4. Matched(p, last)
  BY <1>1, <1>2, <1>3 DEF Matched
<1>5. KnownIn(b, map) => KnownIn(p, map)
  BY <1>1, <1>2, <1>3 DEF KnownIn
<1> QED
  BY <1>1, <1>4, <1>5 DEF AllKnown

(* The registry attributes orders as the map does. *)
LEMMA KnownAttributes ==
  ASSUME NEW b, NEW last, Matched(b, last), NEW map, NEW owner, NEW n, Begins(map, owner),
         Ordered(owner, n), KnownIn(b, map), AllKnown(b, map)
  PROVE  Attributes(b, map)
<1>1. ASSUME NEW i PROVE AccountOf(b, gw_from_me(b, i)) = id_map_lookup_account(map, i)
  <2>1. CASE i \in DOMAIN b.me_to_gw
    <3>1. PICK k \in 1..Len(map) : map[k][1] = i /\ map[k][2] = b.slots[b.me_to_gw[i]].account_id
      BY <2>1 DEF KnownIn
    <3>2. b.me_to_gw[i] \in DOMAIN b.slots
      BY <2>1 DEF Matched, Registry
    <3>3. AccountOf(b, gw_from_me(b, i)) = map[k][2]
      BY <2>1, <3>1, <3>2 DEF AccountOf, gw_from_me, Known
    <3>4. \A j \in 1..Len(map) : map[j][1] = i => j = k
      <4>1. Len(map) \in Nat /\ Len(owner) \in Nat /\ Len(map) <= Len(owner)
        BY DEF Begins, Ordered
      <4>2. SUFFICES ASSUME NEW j \in 1..Len(map), map[j][1] = i PROVE j = k
        OBVIOUS
      <4>3. j \in 1..Len(owner) /\ k \in 1..Len(owner)
        BY <4>1
      <4>4. owner[j][1] = i /\ owner[k][1] = i
        BY <3>1, <4>2 DEF Begins
      <4>5. i \in Nat
        BY <4>3, <4>4 DEF Ordered
      <4>6. j < k => owner[j][1] < owner[k][1]
        BY <4>3 DEF Ordered
      <4>7. k < j => owner[k][1] < owner[j][1]
        BY <4>3 DEF Ordered
      <4> QED
        BY <4>1, <4>4, <4>5, <4>6, <4>7
    <3>5. k \in Places(map, i) /\ \A j \in Places(map, i) : k <= j
      <4>1. k \in Places(map, i) /\ \A j \in Places(map, i) : k = j
        BY <3>1, <3>4 DEF Places
      <4>2. k \in Int
        OBVIOUS
      <4> QED
        BY <4>1, <4>2
    <3> QED
      BY <3>3, <3>5, LookupIs
  <2>2. CASE i \notin DOMAIN b.me_to_gw
    <3>1. gw_from_me(b, i) = 0
      BY <2>2 DEF gw_from_me
    <3>2. AccountOf(b, 0) = 0
      BY DEF AccountOf, Known, Matched, Registry
    <3>3. {j \in 1..Len(map) : map[j][1] = i} = {}
      BY <2>2 DEF AllKnown
    <3>4. id_map_lookup_account(map, i) = 0
      BY <3>3 DEF id_map_lookup_account
    <3> QED
      BY <3>1, <3>2, <3>4
  <2> QED
    BY <2>1, <2>2
<1> QED
  BY <1>1 DEF Attributes

LEMMA SlotAdded ==
  ASSUME NEW b, NEW last \in Nat, Matched(b, last), Queue(b), NEW map, NEW id \in Nat, id > last,
         HasSlot(id), NEW s, DOMAIN s = SlotFields, s.me_id = 0, NEW p, Enlarged(p, b, id, s)
  PROVE  /\ Matched(p, id) /\ Queue(p) /\ p.evq = b.evq /\ p.next_seq = b.next_seq
         /\ p.me_to_gw = b.me_to_gw
         /\ id \in DOMAIN p.slots /\ p.slots[id] = s
         /\ KnownIn(b, map) => KnownIn(p, map)
         /\ AllKnown(b, map) => AllKnown(p, map)
<1> DEFINE S == Put(b.slots, id, s)
<1>1. DOMAIN b = BridgeFields
  BY DEF Queue
<1>2. DOMAIN S = DOMAIN b.slots \cup {id} /\ S[id] = s /\ \A x \in DOMAIN b.slots : x # id => S[x] = b.slots[x]
  BY DEF Put
<1> HIDE DEF S
<1>3. /\ DOMAIN p = BridgeFields /\ p.slots = S /\ p.me_to_gw = b.me_to_gw
      /\ p.evq = b.evq /\ p.next_seq = b.next_seq
  BY <1>1 DEF BridgeFields, S, Enlarged
<1>4. \A x \in DOMAIN b.slots : x \in Nat /\ x <= last
  BY DEF Matched
<1>5. id \notin DOMAIN b.slots /\ id # 0 /\ id \in Nat
  BY <1>4
<1>6. \A x \in DOMAIN b.slots : S[x] = b.slots[x]
  BY <1>2, <1>5
<1>7. \A i \in DOMAIN b.me_to_gw : b.me_to_gw[i] \in DOMAIN b.slots
  BY DEF Matched, Registry
<1>8. Registry(p)
  <2>1. 0 \notin DOMAIN b.slots /\ \A x \in DOMAIN b.slots : DOMAIN b.slots[x] = SlotFields
    BY DEF Matched, Registry
  <2> QED
    BY <1>2, <1>3, <1>5, <1>6, <1>7, <2>1 DEF Registry
<1>9. Matched(p, id)
  <2>1. \A x \in DOMAIN b.slots :
          /\ x \in Nat /\ HasSlot(x) /\ x <= id
          /\ b.slots[x].me_id \in Nat
          /\ b.slots[x].me_id # 0 => /\ b.slots[x].me_id \in DOMAIN b.me_to_gw
                                     /\ b.me_to_gw[b.slots[x].me_id] = x
    BY DEF Matched
  <2>2. \A i \in DOMAIN b.me_to_gw : i \in Nat \ {0} /\ b.slots[b.me_to_gw[i]].me_id = i
    BY DEF Matched
  <2>3. \A x \in DOMAIN S :
          /\ x \in Nat /\ HasSlot(x) /\ x <= id
          /\ S[x].me_id \in Nat
          /\ S[x].me_id # 0 => /\ S[x].me_id \in DOMAIN b.me_to_gw
                               /\ b.me_to_gw[S[x].me_id] = x
    BY <1>2, <1>5, <1>6, <2>1
  <2>4. \A i \in DOMAIN b.me_to_gw : i \in Nat \ {0} /\ S[b.me_to_gw[i]].me_id = i
    BY <1>6, <1>7, <2>2
  <2> QED
    BY <1>3, <1>8, <2>3, <2>4 DEF Matched
<1>10. Queue(p)
  BY <1>3 DEF Queue
<1>11. KnownIn(b, map) => KnownIn(p, map)
  BY <1>3, <1>6, <1>7 DEF KnownIn
<1>12. AllKnown(b, map) => AllKnown(p, map)
  BY <1>3 DEF AllKnown
<1> QED
  BY <1>2, <1>3, <1>9, <1>10, <1>11, <1>12

(* Following looks at the queue. *)
LEMMA FollowsSame ==
  ASSUME NEW c, NEW b, NEW p, p.evq = b.evq, p.next_seq = b.next_seq, NEW acc
  PROVE  /\ Following(c, b) => Following(c, p)
         /\ Follows(c, b, acc) => Follows(c, p, acc)
BY DEF Following, Follows, Behind, Complete, Polls, View
-----------------------------------------------------------------------------
(* The new order gets its engine id. *)

(* What Captured does. *)
LEMMA CapturedIs ==
  ASSUME NEW b, Registry(b), call = 0 \/ call \in DOMAIN b.slots, NEW before, NEW after
  PROVE  LET p == Captured(b, before, after)
         IN  \/ /\ p = b
                /\ call = 0 \/ Len(after) = Len(before) \/ Last(after)[1] > PIPELINE_MAX_ID_MAP
             \/ call # 0 /\ call \in DOMAIN b.slots /\ Linked(p, b, call, Last(after)[1])
<1> DEFINE p == Captured(b, before, after)
           i == Last(after)[1]
           none == call = 0 \/ Len(after) = Len(before) \/ i > PIPELINE_MAX_ID_MAP
           s == [b.slots[call] EXCEPT !.me_id = i]
           S == [b.slots EXCEPT ![call] = s]
           x == [b EXCEPT !.slots = S]
           M == Put(b.me_to_gw, i, call)
           y == [x EXCEPT !.me_to_gw = M]
<1>1. p = IF none THEN b ELSE [b EXCEPT !.slots[call].me_id = i, !.me_to_gw = Put(@, i, call)]
  BY Zenon DEF Captured
<1>2. DOMAIN b = BridgeFields
  BY DEF Registry
<1>3. ASSUME ~none PROVE Linked(p, b, call, i)
  <2>1. p = [b EXCEPT !.slots[call].me_id = i, !.me_to_gw = Put(@, i, call)]
    BY <1>1, <1>3
  <2>2. x.me_to_gw = b.me_to_gw
    BY <1>2 DEF BridgeFields
  <2>3. p = [[b EXCEPT !.slots = [b.slots EXCEPT ![call] = [b.slots[call] EXCEPT !.me_id = i]]]
               EXCEPT !.me_to_gw = Put(b.me_to_gw, i, call)]
    <3> HIDE DEF p, i
    <3> QED
      BY <2>1, <1>2 DEF BridgeFields
  <2>4. p = y
    BY <2>3
  <2>5. call \in DOMAIN b.slots
    BY <1>3
  <2>6. DOMAIN S = DOMAIN b.slots /\ S[call] = s /\ \A z \in DOMAIN b.slots : z # call => S[z] = b.slots[z]
    BY <2>5
  <2> HIDE DEF p, S, M
  <2>7. DOMAIN y = BridgeFields /\ y.slots = S /\ y.me_to_gw = M /\ y.evq = b.evq /\ y.next_seq = b.next_seq
    BY <1>2 DEF BridgeFields
  <2> HIDE DEF x, y, s, i
  <2> QED
    BY <2>4, <2>6, <2>7 DEF Linked, M, s
<1> QED
  BY <1>1, <1>3

(* The new engine id is new to the registry, which still is matched. *)
LEMMA LinkedKeeps ==
  ASSUME NEW b, NEW last, Matched(b, last), Queue(b), NEW map, KnownIn(b, map), IsSeq(map),
         Len(map) \in Nat,
         NEW slot \in DOMAIN b.slots, b.slots[slot].me_id = 0,
         NEW i \in Nat \ {0}, \A k \in 1..Len(map) : map[k][1] # i,
         NEW p, Linked(p, b, slot, i), NEW a, a = b.slots[slot].account_id
  PROVE  /\ Matched(p, last) /\ Queue(p)
         /\ KnownIn(p, Append(map, <<i, a>>))
         /\ AllKnown(b, map) => AllKnown(p, Append(map, <<i, a>>))
<1> DEFINE more == Append(map, <<i, a>>)
<1>1. i \notin DOMAIN b.me_to_gw
  BY DEF KnownIn
<1>2. DOMAIN p.me_to_gw = DOMAIN b.me_to_gw \cup {i} /\ p.me_to_gw[i] = slot
      /\ \A j \in DOMAIN b.me_to_gw : p.me_to_gw[j] = b.me_to_gw[j]
  BY <1>1 DEF Linked, Put
<1>3. /\ DOMAIN b.slots[slot] = SlotFields
      /\ \A x \in DOMAIN b.slots : DOMAIN b.slots[x] = SlotFields
      /\ 0 \notin DOMAIN b.slots
      /\ \A j \in DOMAIN b.me_to_gw : b.me_to_gw[j] \in DOMAIN b.slots
  BY DEF Matched, Registry
<1>4. DOMAIN p.slots[slot] = SlotFields /\ p.slots[slot].me_id = i /\ p.slots[slot].account_id = a
  BY <1>3 DEF Linked, SlotFields
<1>5. DOMAIN p.slots = DOMAIN b.slots /\ \A x \in DOMAIN b.slots : x # slot => p.slots[x] = b.slots[x]
  BY DEF Linked
<1>6. \A j \in DOMAIN b.me_to_gw : b.me_to_gw[j] # slot
  BY DEF Matched
<1>7. Registry(p)
  <2>1. \A j \in DOMAIN p.me_to_gw : p.me_to_gw[j] \in DOMAIN p.slots
    BY <1>2, <1>3, <1>5
  <2>2. \A x \in DOMAIN p.slots : DOMAIN p.slots[x] = SlotFields
    BY <1>3, <1>4, <1>5
  <2> QED
    BY <1>3, <1>5, <2>1, <2>2 DEF Registry, Linked
<1>8. Matched(p, last)
  <2>1. ASSUME NEW x \in DOMAIN b.slots
        PROVE  /\ x \in Nat /\ HasSlot(x) /\ x <= last
               /\ p.slots[x].me_id \in Nat
               /\ p.slots[x].me_id # 0 => /\ p.slots[x].me_id \in DOMAIN p.me_to_gw
                                          /\ p.me_to_gw[p.slots[x].me_id] = x
    <3>1. x \in Nat /\ HasSlot(x) /\ x <= last
      BY DEF Matched
    <3>2. CASE x = slot
      BY <1>2, <1>4, <3>1, <3>2
    <3>3. CASE x # slot
      <4>1. p.slots[x] = b.slots[x]
        BY <1>5, <3>3
      <4>2. /\ b.slots[x].me_id \in Nat
            /\ b.slots[x].me_id # 0 => /\ b.slots[x].me_id \in DOMAIN b.me_to_gw
                                       /\ b.me_to_gw[b.slots[x].me_id] = x
        BY DEF Matched
      <4> QED
        BY <1>2, <3>1, <4>1, <4>2
    <3> QED
      BY <3>2, <3>3
  <2>2. ASSUME NEW j \in DOMAIN p.me_to_gw
        PROVE  j \in Nat \ {0} /\ p.slots[p.me_to_gw[j]].me_id = j
    <3>1. CASE j = i
      BY <1>2, <1>4, <3>1
    <3>2. CASE j # i
      <4>1. j \in DOMAIN b.me_to_gw /\ p.me_to_gw[j] = b.me_to_gw[j]
        BY <1>2, <3>2
      <4>2. b.me_to_gw[j] # slot /\ b.me_to_gw[j] \in DOMAIN b.slots
        BY <1>3, <1>6, <4>1
      <4>3. p.slots[b.me_to_gw[j]] = b.slots[b.me_to_gw[j]]
        BY <1>5, <4>2
      <4>4. j \in Nat \ {0} /\ b.slots[b.me_to_gw[j]].me_id = j
        BY <4>1 DEF Matched
      <4> QED
        BY <4>1, <4>3, <4>4
    <3> QED
      BY <3>1, <3>2
  <2> QED
    BY <1>5, <1>7, <2>1, <2>2 DEF Matched
<1>9. Queue(p)
  BY DEF Queue, Linked
<1>10. /\ Len(more) = Len(map) + 1 /\ more[Len(map) + 1] = <<i, a>>
       /\ \A k \in 1..Len(map) : more[k] = map[k]
  BY AppendIs
<1> HIDE DEF more
<1>11. KnownIn(p, more)
  <2>1. SUFFICES ASSUME NEW j \in DOMAIN p.me_to_gw
                 PROVE \E k \in 1..Len(more) : more[k][1] = j /\ more[k][2] = p.slots[p.me_to_gw[j]].account_id
    BY DEF KnownIn
  <2>2. CASE j = i
    <3>1. Len(map) + 1 \in 1..Len(more)
      BY <1>10
    <3>2. more[Len(map) + 1][1] = i /\ more[Len(map) + 1][2] = a
      BY <1>10
    <3> QED
      BY <1>2, <1>4, <2>2, <3>1, <3>2
  <2>3. CASE j # i
    <3>1. j \in DOMAIN b.me_to_gw /\ p.me_to_gw[j] = b.me_to_gw[j]
      BY <1>2, <2>3
    <3>2. p.slots[b.me_to_gw[j]] = b.slots[b.me_to_gw[j]]
      BY <1>3, <1>5, <1>6, <3>1
    <3>3. PICK k \in 1..Len(map) : map[k][1] = j /\ map[k][2] = b.slots[b.me_to_gw[j]].account_id
      BY <3>1 DEF KnownIn
    <3>4. k \in 1..Len(more) /\ more[k] = map[k]
      BY <1>10, <3>3
    <3> QED
      BY <3>1, <3>2, <3>3, <3>4
  <2> QED
    BY <2>2, <2>3
<1>12. AllKnown(b, map) => AllKnown(p, more)
  <2>1. SUFFICES ASSUME AllKnown(b, map), NEW k \in 1..Len(more) PROVE more[k][1] \in DOMAIN p.me_to_gw
    BY DEF AllKnown
  <2>2. CASE k = Len(map) + 1
    BY <1>2, <1>10, <2>2
  <2>3. CASE k # Len(map) + 1
    <3>1. k \in 1..Len(map)
      BY <1>10, <2>3
    <3> QED
      BY <1>2, <1>10, <2>1, <3>1 DEF AllKnown
  <2> QED
    BY <2>2, <2>3
<1> QED
  BY <1>8, <1>9, <1>11, <1>12 DEF more

(* A map with more entries is still of no use for what it did not know. *)
LEMMA KnownMore ==
  ASSUME NEW b, NEW map, IsSeq(map), Len(map) \in Nat, KnownIn(b, map), NEW x
  PROVE  KnownIn(b, Append(map, x))
<1>1. /\ Len(Append(map, x)) = Len(map) + 1
      /\ \A k \in 1..Len(map) : Append(map, x)[k] = map[k]
  BY AppendIs
<1> QED
  BY <1>1 DEF KnownIn
-----------------------------------------------------------------------------
(* The events of a step, staged in the bridge and drained in the pipeline. *)

(* A push leaves a client behind, and the queue with something to poll. *)
LEMMA PushedFollowing ==
  ASSUME NEW b, Queue(b), NEW c, Following(c, b), NEW ev, NEW p, Pushed(p, b, ev)
  PROVE  Following(c, p)
<1>1. p = push_event(b, ev)
  BY DEF Pushed
<1>2. Behind(c, p)
  BY <1>1, PushViewed DEF Following
<1>3. Len(p.evq) > 0
  BY <1>1, PushEventIs
<1>4. p.evq # <<>>
  BY <1>3
<1> QED
  BY <1>2, <1>4 DEF Following

(* A changed order does not push. *)
LEMMA OneSlotFollowing ==
  ASSUME NEW b, NEW p, NEW id, NEW s, OneSlot(p, b, id, s), NEW c, Following(c, b)
  PROVE  Following(c, p)
BY FollowsSame DEF OneSlot

(* An event. *)
LEMMA StagedFollowing ==
  ASSUME NEW b, Registry(b), Queue(b), NEW c, Following(c, b), NEW ev
  PROVE  Following(c, StagedEvent(b, ev))
<1> DEFINE p == StagedEvent(b, ev)
           agg == gw_from_me(b, ev.id)
           rest == gw_from_me(b, ev.resting_id)
<1>1. \/ p = b
      \/ p = Traded(b, agg, rest, ev)
      \/ p = OrderEvent(b, agg, ev)
  BY DEF StagedEvent, Translate
<1>2. agg = 0 \/ agg \in DOMAIN b.slots
  BY DEF gw_from_me, Registry
<1> HIDE DEF p, agg, rest
<1>4. CASE p = b
  BY <1>4 DEF p
<1>5. CASE p = Traded(b, agg, rest, ev)
  <2>1. PICK b1, b2, b3 : TradeSteps(p, b, agg, rest, ev, b1, b2, b3)
    BY <1>5, TradedSteps
  <2> DEFINE t == TradeTold(ev, AccountOf(b, agg), AccountOf(b, rest))
  <2>2. /\ OneSlot(b1, b, agg, Filled(b.slots[agg], ev.qty))
        /\ OneSlot(b2, b1, rest, Filled(b1.slots[rest], ev.qty)) /\ Queue(b2)
        /\ Pushed(b3, b2, t) /\ Queue(b3)
        /\ IF rest \in DOMAIN b.slots THEN Pushed(p, b3, Snapshot(rest, b3.slots[rest])) ELSE p = b3
    BY <2>1 DEF TradeSteps
  <2> HIDE DEF t
  <2>3. Following(c, b1)
    BY <2>2, OneSlotFollowing
  <2>4. Following(c, b2)
    BY <2>2, <2>3, OneSlotFollowing
  <2>5. Following(c, b3)
    BY <2>2, <2>4, PushedFollowing
  <2>6. Following(c, p)
    <3>1. CASE rest \in DOMAIN b.slots
      BY <2>2, <2>5, <3>1, PushedFollowing
    <3>2. CASE rest \notin DOMAIN b.slots
      BY <2>2, <2>5, <3>2
    <3> QED
      BY <3>1, <3>2
  <2> QED
    BY <2>6 DEF p
<1>6. CASE p = OrderEvent(b, agg, ev)
  <2>1. p = b \/ \E b1 : OrderSteps(p, b, agg, ev, b1)
    BY <1>2, <1>6, OrderEventSteps
  <2>2. ASSUME NEW b1, OrderSteps(p, b, agg, ev, b1) PROVE Following(c, p)
    <3>1. /\ OneSlot(b1, b, agg, Told(Advanced(b.slots[agg], ev), ev)) /\ Queue(b1)
          /\ Pushed(p, b1, Snapshot(agg, b1.slots[agg]))
      BY <2>2 DEF OrderSteps
    <3>2. Following(c, b1)
      BY <3>1, OneSlotFollowing
    <3> QED
      BY <3>1, <3>2, PushedFollowing
  <2> QED
    BY <2>1, <2>2 DEF p
<1> QED
  BY <1>1, <1>4, <1>5, <1>6

(* The accounts after an event, in the loop of Drained. *)
LEMMA AppliedAccounts ==
  ASSUME NEW d, NEW map, NEW ev
  PROVE  EventApplied(d, map, ev).accounts = AccountsAfter(map, d.accounts, ev)
<1>1. CASE ev.type = "TRADE"
  <2> DEFINE a == apply_trade(map, d.accounts, ev)
             h == TradeDone(d.hist, map, d.accounts, ev)
  <2>1. EventApplied(d, map, ev) = [accounts |-> a, last |-> ev.price, hist |-> h]
    BY <1>1, Zenon DEF EventApplied
  <2>2. AccountsAfter(map, d.accounts, ev) = a
    BY <1>1 DEF AccountsAfter
  <2> HIDE DEF a, h
  <2> QED
    BY <2>1, <2>2
<1>2. CASE ev.type # "TRADE"
  BY <1>2 DEF EventApplied, AccountsAfter
<1> QED
  BY <1>1, <1>2

(* The events of a step bring the bridge and the accounts forward together. *)
LEMMA StepPolls ==
  ASSUME NEW b, Registry(b), Queue(b), NEW c, Following(c, b),
         NEW map, Recorded(map, hist.owner), Books(accounts, hist), Len(me.eq) \in Nat,
         \A n \in 1..Len(me.eq) : TradeSound(me.eq[n])
  PROVE  LET p == process_staged_events(b, me.eq)
         IN  /\ Translating(p, b, c)
             /\ Attributes(b, map) /\ Follows(c, b, accounts) => Follows(c, p, Drained(map).accounts)
<1> DEFINE N == Len(me.eq)
<1>1. PICK g : /\ g[0].accounts = accounts
               /\ \A n \in 1..N : g[n] = EventApplied(g[n - 1], map, me.eq[n])
               /\ \A n \in 0..N : Draining(g[n], hist)
               /\ Drained(map) = g[N]
  BY DrainedSteps, Zenon
<1>2. PICK h : /\ h[0] = b
               /\ \A n \in 1..N : h[n] = StagedEvent(h[n - 1], me.eq[n])
               /\ process_staged_events(b, me.eq) = h[N]
  <2> DEFINE evs == me.eq
  <2>1. Len(evs) \in Nat
    OBVIOUS
  <2> HIDE DEF evs
  <2>2. \E h : /\ h[0] = b
               /\ \A n \in 1..Len(evs) : h[n] = StagedEvent(h[n - 1], evs[n])
               /\ process_staged_events(b, evs) = h[Len(evs)]
    BY <2>1, ProcessedIs, Zenon
  <2> QED
    BY <2>2, Zenon DEF evs
<1> DEFINE Start == Attributes(b, map) /\ Follows(c, b, accounts)
           Done(n) == Translating(h[n], b, c) /\ (Start => Follows(c, h[n], g[n].accounts))
           G == {n \in Nat : n <= N => Done(n)}
<1>3. Done(0)
  <2>1. SameRegistry(b, b)
    BY DEF Registry, SameRegistry, SameOrder
  <2>2. Translating(h[0], b, c)
    BY <1>2, <2>1 DEF Translating
  <2> QED
    BY <1>1, <1>2, <2>2
<1>4. ASSUME NEW n \in Nat, n \in G, n + 1 <= N PROVE Done(n + 1)
  <2>1. n <= N /\ n \in 0..N /\ n + 1 \in 1..N /\ (n + 1) - 1 = n
    BY <1>4
  <2>2. Done(n)
    BY <1>4, <2>1
  <2> DEFINE x == h[n]
             y == h[n + 1]
             d == g[n]
             f == g[n + 1]
             ev == me.eq[n + 1]
  <2>3. f = EventApplied(d, map, ev) /\ y = StagedEvent(x, ev)
    BY <1>1, <1>2, <2>1, Zenon
  <2>4. TradeSound(ev) /\ Draining(d, hist)
    BY <1>1, <2>1
  <2>5. Translating(x, b, c) /\ (Start => Follows(c, x, d.accounts))
    BY <2>2
  <2> SUFFICES Translating(y, b, c) /\ (Start => Follows(c, y, f.accounts))
    OBVIOUS
  <2> HIDE DEF x, y, d, f, ev, G, Done
  <2>6. Registry(y) /\ Queue(y) /\ SameRegistry(y, x)
    BY <2>3, <2>5, StagedKeeps DEF Translating
  <2>7. SameRegistry(y, b)
    BY <2>5, <2>6, SameRegistryChain DEF Translating
  <2>8. Following(c, y)
    BY <2>3, <2>5, StagedFollowing DEF Translating
  <2>9. ASSUME Start PROVE Follows(c, y, f.accounts)
    <3>1. Attributes(x, map)
      BY <2>5, <2>9, AttributesSame DEF Translating
    <3>2. DOMAIN d.accounts = Accounts /\ \A z \in Accounts : PortfolioTyped(d.accounts[z])
      BY <2>4 DEF Draining, Books
    <3> DEFINE acc == d.accounts
    <3>3. Complete(c, x) => Polls(c, x, acc)
      BY <2>5, <2>9 DEF Follows
    <3>4. f.accounts = AccountsAfter(map, acc, ev)
      BY <2>3, AppliedAccounts
    <3>5. Behind(c, x) /\ Registry(x) /\ Queue(x)
      BY <2>5 DEF Translating, Following
    <3>6. DOMAIN acc = Accounts /\ \A z \in Accounts : PortfolioTyped(acc[z])
      BY <3>2
    <3> HIDE DEF acc, Start
    <3>7. Complete(c, y) => Polls(c, y, AccountsAfter(map, acc, ev))
      BY <2>3, <2>4, <3>1, <3>3, <3>5, <3>6, StagedPolls
    <3> QED
      BY <3>4, <3>7 DEF Follows
  <2> QED
    BY <2>6, <2>7, <2>8, <2>9 DEF Translating
<1>5. 0 \in G
  BY <1>3
<1>6. ASSUME NEW n \in Nat, n \in G PROVE n + 1 \in G
  <2> HIDE DEF Done
  <2> QED
    BY <1>4, <1>6
<1>7. Nat \subseteq G
  <2> HIDE DEF G
  <2> QED
    BY <1>5, <1>6, SetOfNats
<1>8. Done(N)
  <2>1. N \in G
    <3> HIDE DEF G
    <3> QED
      BY <1>7
  <2> HIDE DEF Done
  <2> QED
    BY <2>1
<1> QED
  BY <1>1, <1>2, <1>8
-----------------------------------------------------------------------------
(* The answer to a new order that nothing has touched. *)

LEMMA DeclinedSlot ==
  ASSUME NEW s, DOMAIN s = SlotFields
  PROVE  LET t == Declined(s)
         IN  /\ SameOrder(t, s) /\ t.touched = TRUE /\ t.status = "REJECTED"
             /\ t.price = s.price /\ t.qty_remain = s.qty_remain /\ t.qty_filled = s.qty_filled
BY DEF Declined, SlotFields, SameOrder

(* Answered goes through them, unless there is nothing to answer. *)
LEMMA AnsweredSteps ==
  ASSUME NEW b, Registry(b), Queue(b), call = 0 \/ call \in DOMAIN b.slots
  PROVE  LET p == Answered(b)
         IN  \/ p = b /\ (call = 0 \/ b.slots[call].touched)
             \/ \E b1 : AnswerSteps(p, b, b1)
<1> DEFINE s == b.slots[call]
           t == Declined(s)
           S == [b.slots EXCEPT ![call] = t]
           b1 == [b EXCEPT !.slots = S]
           p == Answered(b)
           c1 == [b EXCEPT !.slots[call].status = "REJECTED", !.slots[call].touched = TRUE]
<1>1. p = IF call = 0 \/ s.touched THEN b ELSE emit_order_snapshot(c1, call)
  BY Zenon DEF Answered
<1>2. ASSUME call # 0, ~s.touched PROVE AnswerSteps(p, b, b1)
  <2>1. call \in DOMAIN b.slots /\ DOMAIN b = BridgeFields
    BY <1>2 DEF Registry
  <2>2. c1 = b1
    <3> DEFINE s1 == [s EXCEPT !.status = "REJECTED"]
               S1 == [b.slots EXCEPT ![call] = s1]
               x == [b EXCEPT !.slots = S1]
    <3>1. x.slots = S1 /\ S1[call] = s1
      BY <2>1 DEF BridgeFields
    <3>2. c1 = [x EXCEPT !.slots = [x.slots EXCEPT ![call] = [x.slots[call] EXCEPT !.touched = TRUE]]]
      OBVIOUS
    <3>3. c1 = [x EXCEPT !.slots = [S1 EXCEPT ![call] = t]]
      <4> HIDE DEF x, S1
      <4>1. c1 = [x EXCEPT !.slots = [S1 EXCEPT ![call] = [s1 EXCEPT !.touched = TRUE]]]
        BY <3>1, <3>2
      <4> QED
        BY <4>1 DEF Declined
    <3>4. [S1 EXCEPT ![call] = t] = S
      <4> HIDE DEF t, s1
      <4> QED
        BY <2>1
    <3>5. [x EXCEPT !.slots = S] = b1
      <4> HIDE DEF S, S1
      <4> QED
        BY <2>1 DEF BridgeFields
    <3> HIDE DEF c1, b1, x, S, S1
    <3> QED
      BY <3>3, <3>4, <3>5
  <2>3. OneSlot(b1, b, call, t)
    BY <2>1, SlotSet
  <2>4. SameOrder(t, s)
    BY <2>1, DeclinedSlot DEF Registry
  <2> HIDE DEF c1, b1, t
  <2>5. Registry(b1) /\ Queue(b1) /\ SameRegistry(b1, b)
    BY <2>3, <2>4, OneSlotKeeps
  <2>6. p = emit_order_snapshot(b1, call)
    BY <1>1, <1>2, <2>2
  <2> HIDE DEF p
  <2>7. Pushed(p, b1, Snapshot(call, b1.slots[call]))
    BY <2>6, SnapshotIs
  <2>8. Registry(p) /\ Queue(p) /\ SameOrders(p, b1)
    BY <2>5, <2>7, PushedKeeps
  <2> QED
    BY <1>2, <2>1, <2>3, <2>5, <2>7, <2>8 DEF AnswerSteps, t
<1> QED
  BY <1>1, <1>2

(* The answer is no trade. *)
LEMMA AnsweredKeeps ==
  ASSUME NEW b, Registry(b), Queue(b), call = 0 \/ call \in DOMAIN b.slots, NEW c, Following(c, b),
         NEW acc
  PROVE  LET p == Answered(b)
         IN  /\ Translating(p, b, c)
             /\ Follows(c, b, acc) => Follows(c, p, acc)
<1> DEFINE p == Answered(b)
<1>1. p = b \/ \E b1 : AnswerSteps(p, b, b1)
  BY AnsweredSteps
<1> HIDE DEF p
<1>2. CASE p = b
  <2>1. SameRegistry(b, b)
    BY DEF Registry, SameRegistry, SameOrder
  <2> QED
    BY <1>2, <2>1 DEF Translating, p
<1>3. ASSUME NEW b1, AnswerSteps(p, b, b1)
      PROVE  Translating(p, b, c) /\ (Follows(c, b, acc) => Follows(c, p, acc))
  <2>1. /\ OneSlot(b1, b, call, Declined(b.slots[call])) /\ Registry(b1) /\ Queue(b1) /\ SameRegistry(b1, b)
        /\ Pushed(p, b1, Snapshot(call, b1.slots[call]))
        /\ Registry(p) /\ Queue(p) /\ SameOrders(p, b1)
    BY <1>3 DEF AnswerSteps
  <2>2. Following(c, b1)
    BY <2>1, OneSlotFollowing
  <2>3. Following(c, p)
    BY <2>1, <2>2, PushedFollowing
  <2>4. SameRegistry(p, b1)
    BY <2>1, SameOrdersRegistry
  <2>5. SameRegistry(p, b)
    BY <2>1, <2>4, SameRegistryChain
  <2>6. ASSUME Follows(c, b, acc) PROVE Follows(c, p, acc)
    <3>1. Behind(c, b) /\ (Complete(c, b) => Polls(c, b, acc))
      BY <2>6 DEF Following, Follows
    <3>2. Behind(c, b1) /\ (Complete(c, b1) => Polls(c, b1, acc))
      BY <2>1, <3>1, OneSlotPolls
    <3>3. Complete(c, p) => Polls(c, p, acc)
      BY <2>1, <3>2, SnapshotPolls
    <3> QED
      BY <3>3 DEF Follows
  <2> QED
    BY <2>1, <2>3, <2>5, <2>6 DEF Translating
<1> QED
  BY <1>1, <1>2, <1>3 DEF p

-----------------------------------------------------------------------------
(* The steps of the bridge. *)

(* Nothing was submitted yet. *)
LEMMA BInvInit ==
  ASSUME BridgeInit
  PROVE  BInv
<1>1. PInv
  <2>1. id_base \in Nat /\ InitFrom(id_base)
    BY BridgeAssumption DEF BridgeInit
  <2> QED
    BY <2>1, PInvInit
<1> DEFINE z == [cash |-> 0, net_qty |-> 0, avg_price |-> 0, realised_pnl |-> 0]
<1>2. /\ bp = [slots |-> NoEntries, me_to_gw |-> NoEntries, evq |-> <<>>, next_seq |-> 0]
      /\ call = 0 /\ client = ClientInit
      /\ gateway = [gateway_init EXCEPT !.next_server_order_id = id_base]
      /\ accounts = [a \in Accounts |-> portfolio_init(max_position, max_order_notional)]
      /\ id_map = <<>> /\ cur = NoEvent /\ hist.owner = <<>> /\ stack = <<>> /\ me.eq = <<>>
      /\ me.next_order_id = 1
  BY DEF BridgeInit, InitFrom, EngineInit
<1>3. gateway.out_ring = <<>> /\ gateway.next_server_order_id = id_base
  BY <1>2 DEF gateway_init
<1>4. DOMAIN NoEntries = {}
  BY DEF NoEntries
<1>5. /\ bp.slots = NoEntries /\ bp.me_to_gw = NoEntries /\ bp.evq = <<>> /\ bp.next_seq = 0
      /\ DOMAIN bp = BridgeFields
  BY <1>2 DEF BridgeFields
<1>6. IsSeq(<<>>) /\ Len(<<>>) = 0
  BY DEF IsSeq
<1>7. Calling
  BY <1>2, <1>3, BridgeAssumption DEF Calling, Free
<1>8. Ordered(hist.owner, me.next_order_id)
  BY <1>2, <1>6 DEF Ordered
<1>9. Begins(id_map, hist.owner)
  BY <1>2, <1>6 DEF Begins
<1>10. Registry(bp)
  BY <1>4, <1>5 DEF Registry
<1>11. Matched(bp, gateway.next_server_order_id) /\ KnownIn(bp, id_map)
  BY <1>4, <1>5, <1>10 DEF Matched, KnownIn
<1>12. AllKnown(bp, id_map)
  BY <1>2, <1>6 DEF AllKnown
<1>13. Queue(bp)
  BY <1>5, <1>6, BridgeAssumption DEF Queue
<1>14. /\ DOMAIN client = ClientFields /\ client.seq = 0 /\ client.gap = FALSE /\ client.selfish = {}
       /\ client.positions = [a \in Accounts |-> z]
  BY <1>2 DEF ClientInit, ClientFields
<1>15. Following(client, bp)
  <2>1. Len(bp.evq) = 0 /\ client.seq \in Nat /\ client.gap \in BOOLEAN
    <3>1. Len(bp.evq) = 0
      BY <1>5, <1>6
    <3>2. client.seq \in Nat
      BY <1>14
    <3>3. client.gap \in BOOLEAN
      BY <1>14, Zenon
    <3> QED
      BY <3>1, <3>2, <3>3
  <2>2. client.seq + Len(bp.evq) <= bp.next_seq
    BY <1>5, <1>14, <2>1
  <2> HIDE DEF z
  <2> QED
    BY <1>5, <1>14, <2>1, <2>2 DEF Following, Behind
<1>16. Follows(client, bp, accounts)
  <2>1. View(client, bp) = client
    BY <1>5, AllPolledNothing DEF View
  <2>2. \A a \in Accounts : SamePosition(client.positions[a], accounts[a])
    <3>1. SUFFICES ASSUME NEW a \in Accounts PROVE SamePosition(client.positions[a], accounts[a])
      OBVIOUS
    <3>2. accounts[a] = portfolio_init(max_position, max_order_notional) /\ client.positions[a] = z
      BY <1>2, <1>14
    <3> QED
      BY <3>2 DEF portfolio_init, SamePosition, SameMoney
  <2>3. Agree(client, accounts)
    BY <1>14, <2>2 DEF Agree, SamePosition
  <2> QED
    BY <1>5, <1>14, <2>1, <2>3 DEF Follows, Polls, UpTo
<1> QED
  BY <1>1, <1>7, <1>8, <1>9, <1>11, <1>12, <1>13, <1>15, <1>16 DEF BInv

(* A request in the engine's ids may be in the ring. *)
LEMMA TranslatedIsPosted ==
  ASSUME NEW last, Matched(bp, last), NEW m \in NewOrders \cup Requests, Named(m),
         stage_a_ingress(Translated(m))
  PROVE  /\ Translated(m) \in Posted /\ Translated(m).action = m.action
         /\ m.action = "NEW" => Translated(m) = m
<1> DEFINE t == Translated(m)
<1>1. CASE m.action = "NEW"
  <2>1. t = m
    BY <1>1 DEF Translated
  <2>2. m \in NewOrders
    BY <1>1 DEF Requests, Message
  <2> QED
    BY <2>1, <2>2 DEF Posted
<1>2. CASE m.action # "NEW"
  <2> DEFINE id == bp.slots[m.target_order_id].me_id
  <2>1. t = [m EXCEPT !.target_order_id = id]
    BY <1>2 DEF Translated
  <2>2. m \notin NewOrders
    BY <1>2, PipelineAssumption
  <2>3. id \in Nat
    BY <1>2 DEF Named, Known, Matched
  <2> HIDE DEF id, t
  <2>4. CASE \E x : m = Message("CANCEL", 1, 0, "LIMIT", "BID", 0, 0, 0, x)
    <3>1. PICK x : m = Message("CANCEL", 1, 0, "LIMIT", "BID", 0, 0, 0, x)
      BY <2>4
    <3>2. t = Message("CANCEL", 1, 0, "LIMIT", "BID", 0, 0, 0, id)
      BY <2>1, <3>1 DEF Message
    <3>3. t.action = m.action
      BY <3>1, <3>2 DEF Message
    <3> QED
      BY <1>2, <2>3, <3>2, <3>3 DEF Posted, t
  <2>5. CASE \E a \in Amendments : \E x : m = Message("MODIFY", 1, 0, "LIMIT", "BID", a[1], 0, a[2], x)
    <3>0. PICK a \in Amendments : \E x : m = Message("MODIFY", 1, 0, "LIMIT", "BID", a[1], 0, a[2], x)
      BY <2>5
    <3>1. PICK x : m = Message("MODIFY", 1, 0, "LIMIT", "BID", a[1], 0, a[2], x)
      BY <3>0
    <3>2. t = Message("MODIFY", 1, 0, "LIMIT", "BID", a[1], 0, a[2], id)
      BY <2>1, <3>1 DEF Message
    <3>3. t.action = m.action
      BY <3>1, <3>2 DEF Message
    <3> QED
      BY <1>2, <2>3, <3>2, <3>3 DEF Posted, t
  <2> QED
    BY <2>2, <2>4, <2>5 DEF Requests
<1> QED
  BY <1>1, <1>2

(* What gateway_submit did at rest: the message is in the ring, with the    *)
(* next id, or nothing is.                                                  *)
LEMMA EnteredRing ==
  ASSUME PInv, Calling, Free, NEW m, NEW add, Submit(m, add)
  PROVE  LET last == gateway.next_server_order_id
         IN  /\ \/ gateway'.out_ring = <<>> /\ gateway'.next_server_order_id \in {last, last + 1}
                \/ /\ gateway'.out_ring = <<m>> /\ gateway'.next_server_order_id = last + 1
                   /\ stage_a_ingress(m)
             /\ me' = me /\ stack' = stack /\ accounts' = accounts /\ id_map' = id_map /\ cur' = cur
<1> DEFINE r == gateway_submit(gateway, m, add)
<1>1. /\ gateway' = r.g
      /\ me' = me /\ stack' = stack /\ accounts' = accounts /\ id_map' = id_map /\ cur' = cur
  BY Zenon DEF Submit
<1>2. DOMAIN gateway = GatewayFields
  BY DEF PInv, Cached
<1>3. NotServed(r, gateway, m) \/ Throttled(r, gateway, m) \/ Accepted(r, gateway, m)
  BY <1>2, GatewayIs
<1>4. gateway.out_ring = <<>>
  BY DEF Free
<1>5. Append(<<>>, m) = <<m>>
  OBVIOUS
<1> HIDE DEF r
<1> QED
  BY <1>1, <1>3, <1>4, <1>5 DEF NotServed, Throttled, Accepted, SameCache, Caching

(* bridge_submit hands a message to the pipeline. *)
LEMMA EnterKeeps ==
  ASSUME BInv, NEW m \in NewOrders \cup Requests, NEW add, Enter(m, add)
  PROVE  BInv'
<1> DEFINE t == Translated(m)
           last == gateway.next_server_order_id
           now == gateway'.next_server_order_id
           s == Registered(m)
           S == Put(bp.slots, call', s)
<1>1. /\ Free /\ Named(m) /\ Submit(t, add)
      /\ call' = IF gateway'.out_ring # <<>> /\ m.action = "NEW" /\ HasSlot(now) THEN now ELSE 0
      /\ bp' = IF call' = 0 THEN bp ELSE [bp EXCEPT !.slots = S]
      /\ client' = client
  BY Zenon DEF Enter
<1>2. /\ PInv /\ Calling /\ Ordered(hist.owner, me.next_order_id) /\ Begins(id_map, hist.owner)
      /\ Matched(bp, last) /\ KnownIn(bp, id_map) /\ (InRegistry => AllKnown(bp, id_map))
      /\ Queue(bp) /\ Following(client, bp) /\ (InRegistry => Follows(client, bp, accounts))
  BY DEF BInv
<1>3. stage_a_ingress(t) => t \in Posted /\ t.action = m.action /\ (m.action = "NEW" => t = m)
  BY <1>1, <1>2, TranslatedIsPosted
<1> HIDE DEF t, s, S
<1>4. PInv' /\ hist'.owner = hist.owner
  BY <1>1, <1>2, <1>3, SubmissionKeeps
<1>5. /\ \/ gateway'.out_ring = <<>> /\ now \in {last, last + 1}
         \/ gateway'.out_ring = <<t>> /\ now = last + 1 /\ stage_a_ingress(t)
      /\ me' = me /\ stack' = stack /\ accounts' = accounts /\ id_map' = id_map /\ cur' = cur
  BY <1>1, <1>2, EnteredRing
<1>6. last \in Nat /\ last >= id_base /\ id_base \in Nat
  BY <1>2, BridgeAssumption DEF Calling
<1>7. InRegistry' => InRegistry
  BY <1>5, <1>6, PipelineAssumption DEF InRegistry
<1>8. call' = 0 \/ (call' = last + 1 /\ now = last + 1 /\ HasSlot(call') /\ call' # 0
                    /\ gateway'.out_ring = <<t>> /\ m.action = "NEW" /\ t = m /\ t.action = "NEW")
  BY <1>1, <1>3, <1>5, <1>6
<1>9. ASSUME call' = 0
      PROVE  /\ Matched(bp', now) /\ KnownIn(bp', id_map) /\ (InRegistry => AllKnown(bp', id_map))
             /\ Queue(bp') /\ bp'.evq = bp.evq /\ bp'.next_seq = bp.next_seq
  <2>1. bp' = bp
    BY <1>1, <1>9
  <2>2. last <= now
    BY <1>5, <1>6
  <2>3. Matched(bp, now)
    <3>1. now \in Nat
      BY <1>5, <1>6
    <3>2. \A id \in Nat : id <= last => id <= now
      BY <1>6, <2>2, <3>1
    <3> QED
      BY <1>2, <3>2 DEF Matched
  <2> QED
    BY <1>2, <2>1, <2>3
<1>10. ASSUME call' # 0
       PROVE  /\ Matched(bp', now) /\ KnownIn(bp', id_map) /\ (InRegistry => AllKnown(bp', id_map))
              /\ Queue(bp') /\ bp'.evq = bp.evq /\ bp'.next_seq = bp.next_seq
              /\ call' \in DOMAIN bp'.slots /\ bp'.slots[call'] = s
  <2> DEFINE id == call'
             p == bp'
             map == id_map
  <2>1. Enlarged(p, bp, id, s)
    BY <1>1, <1>10 DEF S, Enlarged
  <2>2. DOMAIN s = SlotFields /\ s.me_id = 0
    BY DEF s, Registered, SlotFields
  <2>3. id = last + 1 /\ HasSlot(id) /\ now = last + 1
    BY <1>8, <1>10
  <2> DEFINE n == last
  <2>4. n \in Nat /\ Matched(bp, n) /\ Queue(bp) /\ id \in Nat /\ id > n
    BY <1>2, <1>6, <2>3
  <2> HIDE DEF id, p, map, n
  <2>5. /\ Matched(p, id) /\ Queue(p) /\ p.evq = bp.evq /\ p.next_seq = bp.next_seq
        /\ id \in DOMAIN p.slots /\ p.slots[id] = s
        /\ KnownIn(bp, map) => KnownIn(p, map)
        /\ AllKnown(bp, map) => AllKnown(p, map)
    BY <2>1, <2>2, <2>3, <2>4, SlotAdded
  <2> QED
    BY <1>2, <2>3, <2>5 DEF id, p, map, n
<1>11. /\ Matched(bp', now) /\ KnownIn(bp', id_map) /\ (InRegistry => AllKnown(bp', id_map))
       /\ Queue(bp') /\ bp'.evq = bp.evq /\ bp'.next_seq = bp.next_seq
  BY <1>9, <1>10
<1>12. Following(client', bp') /\ (InRegistry => Follows(client', bp', accounts'))
  BY <1>1, <1>2, <1>5, <1>11, FollowsSame
<1>13. Calling'
  <2>1. /\ cur = NoEvent /\ stack = <<>> /\ me.eq = <<>>
    BY <1>1, <1>2 DEF Free, Calling
  <2>2. Len(gateway'.out_ring) \in {0, 1}
    <3>1. Len(<<>>) = 0 /\ Len(<<t>>) = 1
      OBVIOUS
    <3> QED
      BY <1>5, <3>1
  <2>3. gateway'.out_ring # <<>> => Head(gateway'.out_ring) = t /\ now = last + 1 /\ t.action = m.action
    BY <1>3, <1>5
  <2>4. Request' = Head(gateway'.out_ring)
    BY <1>5, <2>1 DEF Request
  <2>5. Free' <=> gateway'.out_ring = <<>>
    BY <1>5, <2>1 DEF Free
  <2>6. now \in Nat /\ now >= id_base /\ (gateway'.out_ring # <<>> => now > id_base)
    BY <1>5, <1>6
  <2>7. call' \in Nat
    BY <1>6, <1>8
  <2>8. call' # 0 => /\ ~Free' /\ Request'.action = "NEW"
                     /\ call' = now /\ HasSlot(call')
                     /\ call' \in DOMAIN bp'.slots /\ bp'.slots[call'] = Registered(Request')
    <3>1. SUFFICES ASSUME call' # 0
                   PROVE  /\ ~Free' /\ Request'.action = "NEW"
                          /\ call' = now /\ HasSlot(call')
                          /\ call' \in DOMAIN bp'.slots /\ bp'.slots[call'] = Registered(Request')
      OBVIOUS
    <3>2. gateway'.out_ring = <<t>> /\ t = m /\ m.action = "NEW" /\ call' = now /\ HasSlot(call')
      BY <1>8, <3>1
    <3>3. gateway'.out_ring # <<>> /\ Request' = m
      BY <2>3, <2>4, <3>2
    <3>4. call' \in DOMAIN bp'.slots /\ bp'.slots[call'] = Registered(m)
      BY <1>10, <3>1 DEF s
    <3> QED
      BY <2>5, <3>2, <3>3, <3>4
  <2>9. ~Free' /\ Request'.action = "NEW" /\ call' = 0 => ~HasSlot(now)
    BY <1>1, <1>6, <1>8, <2>3, <2>4, <2>5, <2>6
  <2> QED
    BY <1>5, <2>1, <2>2, <2>5, <2>6, <2>7, <2>8, <2>9 DEF Calling, HasSlot
<1>14. Ordered(hist'.owner, me'.next_order_id) /\ Begins(id_map', hist'.owner)
  BY <1>2, <1>4, <1>5
<1> QED
  BY <1>4, <1>5, <1>7, <1>11, <1>12, <1>13, <1>14 DEF BInv
-----------------------------------------------------------------------------
(* Between the calls of the bridge. *)

(* No event, nothing staged. *)
LEMMA ProcessedNothing == ASSUME NEW b PROVE process_staged_events(b, <<>>) = b
<1> DEFINE evs == <<>>
<1>1. Len(evs) = 0
  OBVIOUS
<1>2. Len(evs) \in Nat
  BY <1>1
<1> HIDE DEF evs
<1>3. PICK g : g[0] = b /\ process_staged_events(b, evs) = g[Len(evs)]
  BY <1>2, ProcessedIs
<1> QED
  BY <1>1, <1>3 DEF evs

(* The ring had one message, which is taken. *)
LEMMA TakesOnly ==
  ASSUME PInv, Calling, NEW ev, Takes(ev)
  PROVE  /\ gateway.out_ring # <<>> /\ ev = Head(gateway.out_ring)
         /\ gateway'.out_ring = <<>>
         /\ gateway'.next_server_order_id = gateway.next_server_order_id
         /\ Request = ev /\ cur = NoEvent /\ ~Free
<1> DEFINE t == Tail(gateway.out_ring)
<1>1. /\ gateway' = [gateway EXCEPT !.out_ring = t] /\ cur = NoEvent
      /\ ev = Head(gateway.out_ring) /\ gateway.out_ring # <<>>
  BY Zenon DEF Takes, gw_ring_pop
<1>2. t = <<>>
  <2> DEFINE ring == gateway.out_ring
  <2>1. Len(ring) = 1
    <3>1. Len(ring) \in {0, 1} /\ ring # <<>> /\ ring \in Seq(Posted)
      BY <1>1 DEF PInv, Calling
    <3> HIDE DEF ring
    <3> QED
      BY <3>1
  <2>2. ring \in Seq(Posted)
    BY DEF PInv
  <2> HIDE DEF ring
  <2>3. Tail(ring) = <<>>
    <3> DEFINE rest == Tail(ring)
    <3>1. rest \in Seq(Posted) /\ Len(rest) = 0
      BY <2>1, <2>2
    <3> HIDE DEF rest
    <3>2. rest = <<>>
      BY <3>1
    <3> QED
      BY <3>2 DEF rest
  <2> QED
    BY <2>3 DEF ring
<1> HIDE DEF t
<1>3. DOMAIN gateway = GatewayFields
  BY DEF PInv, Cached
<1>4. gateway'.out_ring = t /\ gateway'.next_server_order_id = gateway.next_server_order_id
  BY <1>1, <1>3 DEF GatewayFields
<1> QED
  BY <1>1, <1>2, <1>4 DEF Request, Free

(* A message that is refused is answered. *)
LEMMA DroppedKeeps ==
  ASSUME BInv, NEW ev, Dropped(ev)
  PROVE  BInv'
<1>1. /\ Drop(ev) /\ Takes(ev) /\ me' = me /\ stack' = stack /\ accounts' = accounts
      /\ id_map' = id_map /\ cur' = cur /\ hist' = hist
      /\ bp' = Answered(process_staged_events(Captured(bp, id_map, id_map'), <<>>))
      /\ call' = 0 /\ client' = client
  BY DEF Dropped, Drop, Finish
<1>2. /\ PInv /\ Calling /\ Ordered(hist.owner, me.next_order_id) /\ Begins(id_map, hist.owner)
      /\ Matched(bp, gateway.next_server_order_id) /\ KnownIn(bp, id_map)
      /\ (InRegistry => AllKnown(bp, id_map))
      /\ Queue(bp) /\ Following(client, bp) /\ (InRegistry => Follows(client, bp, accounts))
  BY DEF BInv
<1>3. PInv'
  BY <1>1, <1>2, DropKeeps
<1>4. /\ gateway'.out_ring = <<>> /\ gateway'.next_server_order_id = gateway.next_server_order_id
      /\ cur = NoEvent
  BY <1>1, <1>2, TakesOnly
<1>5. Captured(bp, id_map, id_map') = bp
  BY <1>1 DEF Captured
<1>6. bp' = Answered(bp)
  BY <1>1, <1>5, ProcessedNothing
<1>7. Registry(bp) /\ (call = 0 \/ call \in DOMAIN bp.slots)
  BY <1>2 DEF Matched, Calling
<1>8. Translating(bp', bp, client) /\ (Follows(client, bp, accounts) => Follows(client, bp', accounts))
  BY <1>2, <1>6, <1>7, AnsweredKeeps
<1>9. /\ Matched(bp', gateway.next_server_order_id) /\ KnownIn(bp', id_map)
      /\ (AllKnown(bp, id_map) => AllKnown(bp', id_map))
  BY <1>2, <1>8, MatchedSame DEF Translating
<1>10. InRegistry' <=> InRegistry
  BY <1>1, <1>4 DEF InRegistry
<1>11. Calling'
  <2>1. Len(<<>>) = 0
    OBVIOUS
  <2> QED
    BY <1>1, <1>2, <1>4, <2>1 DEF Calling, Free
<1> QED
  BY <1>1, <1>2, <1>3, <1>4, <1>8, <1>9, <1>10, <1>11 DEF BInv, Translating

(* What is reserved is not a position. *)
LEMMA ReservedSame ==
  ASSUME NEW h, Books(accounts, h), NEW ev, NEW a \in Accounts
  PROVE  SamePosition(accounts[a], Reserved(ev)[a])
<1> DEFINE side == ev.side
           px == reserve_px(ev)
           qty == ev.qty
           p == accounts[a]
           q == portfolio_reserve(p, side, px, qty)
           x == p.open_buy_notional + px * qty
           y == p.open_sell_qty + qty
<1>1. Reserved(ev)[a] \in {p, q}
  BY DEF Reserved
<1>2. q = IF side = "BID" THEN [p EXCEPT !.open_buy_notional = x] ELSE [p EXCEPT !.open_sell_qty = y]
  BY DEF portfolio_reserve
<1>3. DOMAIN p = PortfolioFields
  BY DEF Books, PortfolioTyped
<1> HIDE DEF p, q, x, y
<1>4. /\ q.cash = p.cash /\ q.net_qty = p.net_qty
      /\ q.avg_price = p.avg_price /\ q.realised_pnl = p.realised_pnl
  BY <1>2, <1>3 DEF PortfolioFields
<1>5. SamePosition(p, Reserved(ev)[a])
  BY <1>1, <1>4 DEF SamePosition, SameMoney
<1> QED
  BY <1>5 DEF p

(* Agreement is with the four numbers of a position. *)
LEMMA FollowsReserved ==
  ASSUME NEW c, NEW b, NEW acc, Follows(c, b, acc), NEW new,
         \A a \in Accounts : SamePosition(acc[a], new[a])
  PROVE  Follows(c, b, new)
BY DEF Follows, Polls, Agree, SamePosition, SameMoney

(* One order more, and its id. *)
LEMMA OrderedMore ==
  ASSUME NEW owner, NEW n \in Nat \ {0}, Ordered(owner, n), NEW a, NEW map, Begins(map, owner)
  PROVE  LET more == Append(owner, <<n, a>>)
         IN  Ordered(more, n + 1) /\ Begins(map, more)
<1> DEFINE more == Append(owner, <<n, a>>)
           N == Len(owner)
<1>1. IsSeq(more) /\ Len(more) = N + 1 /\ N \in Nat /\ more[N + 1] = <<n, a>>
      /\ \A k \in 1..N : more[k] = owner[k]
  BY AppendIs DEF Ordered
<1>2. /\ \A k \in 1..N : owner[k][1] \in Nat /\ k <= owner[k][1] /\ owner[k][1] < n
      /\ \A i, j \in 1..N : i < j => owner[i][1] < owner[j][1]
  BY DEF Ordered
<1> HIDE DEF more
<1>3. N < n
  <2>1. CASE N = 0
    BY <2>1
  <2>2. CASE N # 0
    <3>1. N \in 1..N
      BY <1>1, <2>2
    <3> QED
      BY <1>1, <1>2, <3>1
  <2> QED
    BY <2>1, <2>2
<1>4. more[N + 1][1] = n
  BY <1>1
<1> HIDE DEF N
<1>5. ASSUME NEW k \in 1..(N + 1)
      PROVE  more[k][1] \in Nat /\ k <= more[k][1] /\ more[k][1] < n + 1
  <2>1. CASE k = N + 1
    BY <1>1, <1>3, <1>4, <2>1
  <2>2. CASE k # N + 1
    <3>1. k \in 1..N
      BY <1>1, <2>2
    <3> QED
      BY <1>1, <1>2, <3>1
  <2> QED
    BY <2>1, <2>2
<1>6. ASSUME NEW i \in 1..(N + 1), NEW j \in 1..(N + 1), i < j
      PROVE  more[i][1] < more[j][1]
  <2>1. i \in 1..N
    BY <1>1, <1>6
  <2>2. CASE j = N + 1
    BY <1>1, <1>2, <1>4, <2>1, <2>2
  <2>3. CASE j # N + 1
    <3>1. j \in 1..N
      BY <1>1, <2>3
    <3> QED
      BY <1>1, <1>2, <1>6, <2>1, <3>1
  <2> QED
    BY <2>2, <2>3
<1>7. Ordered(more, n + 1)
  BY <1>1, <1>5, <1>6 DEF Ordered
<1>8. Begins(map, more)
  <2>1. IsSeq(map) /\ Len(map) \in Nat /\ Len(map) <= N /\ \A k \in 1..Len(map) : map[k] = owner[k]
    BY DEF Begins, N
  <2>2. \A k \in 1..Len(map) : k \in 1..N
    BY <1>1, <2>1
  <2> QED
    BY <1>1, <2>1, <2>2 DEF Begins
<1> QED
  BY <1>7, <1>8 DEF more

(* Ids are below every later bound. *)
LEMMA OrderedLater ==
  ASSUME NEW owner, NEW n \in Nat, Ordered(owner, n), NEW m \in Nat, n <= m
  PROVE  Ordered(owner, m)
<1>1. \A k \in 1..Len(owner) : owner[k][1] \in Nat /\ k <= owner[k][1] /\ owner[k][1] < n
  BY DEF Ordered
<1>2. \A k \in 1..Len(owner) : owner[k][1] < m
  BY <1>1
<1> QED
  BY <1>2 DEF Ordered

(* A message reaches the engine. *)
LEMMA DispatchedKeeps ==
  ASSUME BInv, NEW ev, Dispatch(ev), UNCHANGED <<bp, call, client>>
  PROVE  BInv'
<1> DEFINE n == me.next_order_id
           x == <<n, ev.account_id>>
           given == ev.action = "NEW" /\ me'.next_order_id > n
<1>1. /\ Takes(ev) /\ accounts' = Reserved(ev) /\ id_map' = id_map /\ cur' = ev
      /\ hist' = IF given THEN [hist EXCEPT !.owner = Append(hist.owner, x)] ELSE hist
  BY Zenon DEF Dispatch
<1>2. /\ PInv /\ Calling /\ Ordered(hist.owner, me.next_order_id) /\ Begins(id_map, hist.owner)
      /\ Matched(bp, gateway.next_server_order_id) /\ KnownIn(bp, id_map)
      /\ (InRegistry => AllKnown(bp, id_map))
      /\ Queue(bp) /\ Following(client, bp) /\ (InRegistry => Follows(client, bp, accounts))
  BY DEF BInv
<1>3. PInv'
  BY <1>2, DispatchKeeps
<1>4. /\ gateway'.out_ring = <<>> /\ gateway'.next_server_order_id = gateway.next_server_order_id
      /\ Request = ev /\ ~Free
  BY <1>1, <1>2, TakesOnly
<1>5. /\ ev \in Posted
      /\ ev.action = "NEW" => GivenId(me', me)
      /\ ev.action # "NEW" => me'.next_order_id = me.next_order_id
  BY <1>2, DispatchIds
<1>6. n \in Nat \ {0}
  BY <1>2 DEF PInv, EngineSound, EInv, EngineTyped
<1>7. me'.next_order_id = IF given THEN n + 1 ELSE n
  BY <1>5, <1>6 DEF GivenId
<1>8. Ordered(hist'.owner, me'.next_order_id) /\ Begins(id_map, hist'.owner)
  <2>1. CASE given
    <3> DEFINE more == Append(hist.owner, x)
    <3>1. Ordered(more, n + 1) /\ Begins(id_map, more)
      BY <1>2, <1>6, OrderedMore
    <3>2. hist' = [hist EXCEPT !.owner = more]
      BY <1>1, <2>1
    <3>3. DOMAIN hist = HistFields
      BY <1>2 DEF PInv, Books
    <3> HIDE DEF more
    <3>4. hist'.owner = more
      BY <3>2, <3>3 DEF HistFields
    <3> QED
      BY <1>7, <2>1, <3>1, <3>4
  <2>2. CASE ~given
    BY <1>1, <1>2, <1>7, <2>2
  <2> QED
    BY <2>1, <2>2
<1>9. InRegistry' => InRegistry
  BY <1>4, <1>6, <1>7, PipelineAssumption DEF InRegistry
<1>10. cur' # NoEvent /\ Request' = ev /\ ~Free'
  <2>1. ev.action \in {"NEW", "CANCEL", "MODIFY"}
    BY DEF Dispatch
  <2>2. ev # NoEvent
    BY <2>1 DEF NoEvent
  <2> QED
    BY <1>1, <2>2 DEF Request, Free
<1>11. Calling'
  <2>1. Len(<<>>) = 0
    OBVIOUS
  <2> QED
    BY <1>2, <1>4, <1>10, <2>1 DEF Calling, HasSlot
<1>12. InRegistry => Follows(client, bp, accounts')
  <2>1. Books(accounts, hist)
    BY <1>2 DEF PInv
  <2>2. \A a \in Accounts : SamePosition(accounts[a], accounts'[a])
    BY <1>1, <2>1, ReservedSame
  <2> QED
    BY <1>2, <2>2, FollowsReserved
<1> QED
  BY <1>1, <1>2, <1>3, <1>4, <1>8, <1>9, <1>11, <1>12 DEF BInv

(* The cascade is the engine's. *)
LEMMA CascadedKeeps ==
  ASSUME BInv, Cascade,
         UNCHANGED <<gateway, accounts, last_trade_price, id_map, cur, stepping, ack, hist,
                     bp, call, client>>
  PROVE  BInv'
<1>1. /\ PInv /\ Calling /\ Ordered(hist.owner, me.next_order_id) /\ Begins(id_map, hist.owner)
      /\ Matched(bp, gateway.next_server_order_id) /\ KnownIn(bp, id_map)
      /\ (InRegistry => AllKnown(bp, id_map))
      /\ Queue(bp) /\ Following(client, bp) /\ (InRegistry => Follows(client, bp, accounts))
  BY DEF BInv
<1>2. PInv'
  BY <1>1, CascadeKeeps
<1>3. /\ me'.next_order_id >= me.next_order_id /\ me.next_order_id \in Nat \ {0}
      /\ me'.next_order_id \in Nat \ {0}
  BY <1>1, CascadeIds
<1>4. Ordered(hist.owner, me'.next_order_id)
  BY <1>1, <1>3, OrderedLater
<1>5. InRegistry' => InRegistry
  BY <1>3, PipelineAssumption DEF InRegistry
<1>6. stack # <<>>
  BY DEF Cascade, FireStop, ScanDone
<1>7. Calling'
  BY <1>1, <1>6 DEF Calling, Free, Request, HasSlot
<1> QED
  BY <1>1, <1>2, <1>4, <1>5, <1>7 DEF BInv
-----------------------------------------------------------------------------
(* The end of a call that reached the engine. *)

(* The map, with or without the order in the engine. *)
LEMMA ExpectedIs ==
  ASSUME BInv, cur # NoEvent
  PROVE  LET x == <<me.out.id, cur.account_id>>
             N == Len(id_map)
         IN  /\ Begins(Expected, hist.owner)
             /\ \/ Expected = id_map
                \/ /\ cur.action = "NEW" /\ Expected = Append(id_map, x)
                   /\ Len(Expected) = N + 1 /\ Last(Expected) = x
                   /\ me.out.id \in Nat \ {0} /\ me.out.id < me.next_order_id
                   /\ \A k \in 1..N : id_map[k][1] # me.out.id
<1> DEFINE x == <<me.out.id, cur.account_id>>
           N == Len(id_map)
           map == Expected
           owner == hist.owner
           last == me.next_order_id
<1>1. map = id_map \/ (cur.action = "NEW" /\ map = Append(id_map, x))
  BY DEF Expected, id_map_remember
<1>2. Recorded(map, owner) /\ Begins(id_map, owner) /\ Ordered(owner, last) /\ last \in Nat
  BY DEF BInv, PInv, EngineSound, EInv, EngineTyped
<1>3. IsSeq(id_map) /\ N \in Nat
  BY <1>2 DEF Begins
<1>4. Begins(map, owner)
  <2>1. PIPELINE_MAX_ID_MAP \in Nat
    BY PipelineAssumption
  <2> QED
    BY <1>2, <2>1 DEF Begins, Recorded, Lesser
<1>5. ASSUME map = Append(id_map, x), cur.action = "NEW"
      PROVE  /\ Len(map) = N + 1 /\ Last(map) = x
             /\ x[1] \in Nat \ {0} /\ x[1] < last
             /\ \A k \in 1..N : id_map[k][1] # x[1]
  <2>1. Len(map) = N + 1 /\ map[N + 1] = x
    BY <1>3, <1>5, AppendIs
  <2>2. Last(map) = x
    BY <2>1 DEF Last
  <2>3. N + 1 \in 1..Len(owner) /\ owner[N + 1] = x
    <3>1. N + 1 <= Len(owner) /\ Len(owner) \in Nat
      BY <1>2, <1>4, <2>1 DEF Begins, Ordered
    <3>2. N + 1 \in 1..Len(map)
      BY <1>3, <2>1
    <3> QED
      BY <1>3, <1>4, <2>1, <3>1, <3>2 DEF Begins
  <2> HIDE DEF x, map, last
  <2>4. x[1] \in Nat /\ N + 1 <= x[1] /\ x[1] < last
    BY <1>2, <2>3 DEF Ordered
  <2>5. ASSUME NEW k \in 1..N PROVE id_map[k][1] # x[1]
    <3>1. k \in 1..Len(owner) /\ k < N + 1 /\ id_map[k] = owner[k]
      BY <1>2, <1>3, <2>3 DEF Begins
    <3>2. owner[k][1] < owner[N + 1][1] /\ owner[k][1] \in Nat
      BY <1>2, <2>3, <3>1 DEF Ordered
    <3> QED
      BY <2>3, <2>4, <3>1, <3>2
  <2> QED
    BY <1>3, <2>1, <2>2, <2>4, <2>5
<1> QED
  BY <1>1, <1>4, <1>5

(* The new order gets its engine id, if the map has got it. *)
LEMMA CapturedKeeps ==
  ASSUME BInv, cur # NoEvent
  PROVE  LET b == Captured(bp, id_map, Expected)
         IN  /\ Matched(b, gateway.next_server_order_id) /\ Queue(b) /\ KnownIn(b, Expected)
             /\ InRegistry => AllKnown(b, Expected)
             /\ b.evq = bp.evq /\ b.next_seq = bp.next_seq
             /\ call = 0 \/ call \in DOMAIN b.slots
<1> DEFINE map == Expected
           b == Captured(bp, id_map, map)
           N == Len(id_map)
           i == me.out.id
           x == <<i, cur.account_id>>
           last == gateway.next_server_order_id
<1>1. /\ Calling /\ Matched(bp, last) /\ KnownIn(bp, id_map) /\ Queue(bp)
      /\ (InRegistry => AllKnown(bp, id_map))
      /\ IsSeq(id_map) /\ N \in Nat /\ me.next_order_id \in Nat
  BY DEF BInv, PInv, EngineSound, EInv, EngineTyped, Begins
<1>2. Registry(bp) /\ (call = 0 \/ call \in DOMAIN bp.slots)
  BY <1>1 DEF Matched, Calling
<1>3. \/ map = id_map
      \/ /\ cur.action = "NEW" /\ map = Append(id_map, x)
         /\ Len(map) = N + 1 /\ Last(map) = x
         /\ i \in Nat \ {0} /\ i < me.next_order_id
         /\ \A k \in 1..N : id_map[k][1] # i
  BY ExpectedIs
<1> HIDE DEF map
<1>4. CASE map = id_map
  <2>1. b = bp
    BY <1>4 DEF Captured
  <2> QED
    BY <1>1, <1>2, <1>4, <2>1 DEF map
<1>5. ASSUME cur.action = "NEW", map = Append(id_map, x), Len(map) = N + 1, Last(map) = x,
             i \in Nat \ {0}, i < me.next_order_id, \A k \in 1..N : id_map[k][1] # i
      PROVE  /\ Matched(b, last) /\ Queue(b) /\ KnownIn(b, map) /\ (InRegistry => AllKnown(b, map))
             /\ b.evq = bp.evq /\ b.next_seq = bp.next_seq /\ (call = 0 \/ call \in DOMAIN b.slots)
  <2>1. \/ b = bp /\ (call = 0 \/ Len(map) = Len(id_map) \/ Last(map)[1] > PIPELINE_MAX_ID_MAP)
        \/ call # 0 /\ call \in DOMAIN bp.slots /\ Linked(b, bp, call, Last(map)[1])
    BY <1>2, CapturedIs
  <2>2. Last(map)[1] = i /\ Len(map) # Len(id_map)
    BY <1>1, <1>5
  <2> HIDE DEF b
  <2>3. ASSUME b = bp, call = 0 \/ i > PIPELINE_MAX_ID_MAP PROVE ~InRegistry
    <3>1. ~Free /\ Request = cur
      BY DEF Free, Request
    <3>2. last \in Nat /\ last > id_base
      BY <1>1, <3>1 DEF Calling
    <3>3. CASE call = 0
      <4>1. ~HasSlot(last)
        BY <1>1, <1>5, <3>1, <3>3 DEF Calling
      <4> QED
        BY <3>2, <4>1, PipelineAssumption, BridgeAssumption DEF HasSlot, InRegistry
    <3>4. CASE i > PIPELINE_MAX_ID_MAP
      BY <1>1, <1>5, <3>4, PipelineAssumption DEF InRegistry
    <3> QED
      BY <2>3, <3>3, <3>4
  <2>4. CASE b = bp /\ (call = 0 \/ i > PIPELINE_MAX_ID_MAP)
    <3>1. KnownIn(bp, map)
      BY <1>1, <1>5, KnownMore
    <3> QED
      BY <1>1, <1>2, <2>3, <2>4, <3>1
  <2>5. CASE call # 0 /\ call \in DOMAIN bp.slots /\ Linked(b, bp, call, i)
    <3>1. bp.slots[call] = Registered(cur)
      BY <1>1, <2>5 DEF Calling, Request
    <3>2. bp.slots[call].me_id = 0 /\ bp.slots[call].account_id = cur.account_id
      BY <3>1 DEF Registered
    <3> DEFINE a == cur.account_id
               slot == call
               m == id_map
               n == last
    <3>3. /\ Matched(bp, n) /\ Queue(bp) /\ KnownIn(bp, m) /\ IsSeq(m) /\ Len(m) \in Nat
          /\ slot \in DOMAIN bp.slots /\ bp.slots[slot].me_id = 0 /\ a = bp.slots[slot].account_id
          /\ i \in Nat \ {0} /\ \A k \in 1..Len(m) : m[k][1] # i
          /\ Linked(b, bp, slot, i)
      BY <1>1, <1>5, <2>5, <3>2
    <3> HIDE DEF a, slot, m, n, i
    <3>4. /\ Matched(b, n) /\ Queue(b) /\ KnownIn(b, Append(m, <<i, a>>))
          /\ AllKnown(bp, m) => AllKnown(b, Append(m, <<i, a>>))
      BY <3>3, LinkedKeeps
    <3>5. b.evq = bp.evq /\ b.next_seq = bp.next_seq /\ DOMAIN b.slots = DOMAIN bp.slots
      BY <3>3 DEF Linked
    <3> QED
      BY <1>1, <1>5, <2>5, <3>4, <3>5 DEF a, m, n, slot, i
  <2> QED
    BY <2>1, <2>2, <2>4, <2>5
<1> QED
  BY <1>3, <1>4, <1>5 DEF map

(* The call ends: the events of the step are told. *)
LEMMA ReturnedKeeps ==
  ASSUME BInv, Returned
  PROVE  BInv'
<1> DEFINE map == Expected
           b == Captured(bp, id_map, map)
           p == process_staged_events(b, me.eq)
           q == Answered(p)
           d == Drained(map)
           last == gateway.next_server_order_id
<1>1. /\ Settled /\ cur # NoEvent /\ stack = <<>>
      /\ bp' = Answered(process_staged_events(Captured(bp, id_map, id_map'), me.eq))
      /\ call' = 0 /\ client' = client
  BY DEF Returned, Finish, Settled, Idle
<1>2. /\ id_map' = map /\ accounts' = d.accounts /\ hist' = d.hist
      /\ HandedOver(me', me, NoResult) /\ cur' = NoEvent /\ stack' = stack /\ gateway' = gateway
  BY <1>1, SettledIs, Zenon
<1>3. bp' = q
  BY <1>1, <1>2
<1>4. /\ PInv /\ Calling /\ Ordered(hist.owner, me.next_order_id)
      /\ Following(client, bp) /\ (InRegistry => Follows(client, bp, accounts))
  BY DEF BInv
<1>5. PInv'
  BY <1>1, <1>4, SettledKeeps
<1>6. Begins(map, hist.owner)
  BY <1>1, ExpectedIs
<1>7. /\ Matched(b, last) /\ Queue(b) /\ KnownIn(b, map) /\ (InRegistry => AllKnown(b, map))
      /\ b.evq = bp.evq /\ b.next_seq = bp.next_seq /\ (call = 0 \/ call \in DOMAIN b.slots)
  BY <1>1, CapturedKeeps
<1>8. /\ Recorded(map, hist.owner) /\ Books(accounts, hist)
      /\ Len(me.eq) \in Nat /\ (\A n \in 1..Len(me.eq) : TradeSound(me.eq[n]))
      /\ DOMAIN me = EngineFields
  BY <1>4, EventsSound DEF PInv
<1> HIDE DEF map, b
<1>9. Following(client, b) /\ (InRegistry => Follows(client, b, accounts))
  BY <1>4, <1>7, FollowsSame
<1>10. Registry(b)
  BY <1>7 DEF Matched
<1>11. /\ Translating(p, b, client)
       /\ Attributes(b, map) /\ Follows(client, b, accounts) => Follows(client, p, d.accounts)
  BY <1>7, <1>8, <1>9, <1>10, StepPolls
<1>12. Draining(d, hist)
  BY <1>8, DrainedKeeps
<1> HIDE DEF p, d
<1>13. InRegistry => Attributes(b, map)
  BY <1>4, <1>6, <1>7, KnownAttributes
<1>14. InRegistry => Follows(client, p, accounts')
  BY <1>2, <1>9, <1>11, <1>13
<1>15. Registry(p) /\ Queue(p) /\ Following(client, p) /\ (call = 0 \/ call \in DOMAIN p.slots)
  BY <1>7, <1>11 DEF Translating, SameRegistry
<1>16. /\ Translating(q, p, client)
       /\ Follows(client, p, accounts') => Follows(client, q, accounts')
  <2> DEFINE acc == accounts'
             c == client
  <2>1. Following(c, p)
    BY <1>15
  <2> HIDE DEF acc, c
  <2>2. Translating(q, p, c) /\ (Follows(c, p, acc) => Follows(c, q, acc))
    BY <1>15, <2>1, AnsweredKeeps
  <2> QED
    BY <2>2 DEF acc, c
<1> HIDE DEF q
<1>17. Registry(q) /\ Queue(q) /\ SameRegistry(q, b) /\ Following(client, q)
  <2>1. SameRegistry(q, p) /\ SameRegistry(p, b)
    BY <1>11, <1>16 DEF Translating
  <2>2. SameRegistry(q, b)
    BY <2>1, SameRegistryChain
  <2> QED
    BY <1>16, <2>2 DEF Translating
<1>18. Matched(q, last) /\ KnownIn(q, map) /\ (InRegistry => AllKnown(q, map))
  BY <1>7, <1>17, MatchedSame
<1>19. me'.next_order_id = me.next_order_id /\ me'.eq = <<>> /\ hist'.owner = hist.owner
  <2>1. me' = [[me EXCEPT !.eq = <<>>] EXCEPT !.out = NoResult]
    BY <1>2 DEF HandedOver
  <2> HIDE DEF last
  <2> QED
    BY <1>2, <1>8, <1>12, <2>1 DEF EngineFields, Draining, SameOwners
<1>20. InRegistry' <=> InRegistry
  BY <1>2, <1>19 DEF InRegistry
<1>21. Calling'
  <2>1. gateway.out_ring = <<>>
    BY <1>1, <1>4 DEF Calling
  <2>2. Len(<<>>) = 0
    OBVIOUS
  <2>3. last \in Nat /\ last >= id_base
    BY <1>4 DEF Calling
  <2>4. Free'
    BY <1>2, <2>1 DEF Free
  <2> QED
    BY <1>1, <1>2, <1>19, <2>1, <2>2, <2>3, <2>4 DEF Calling
<1>22. Follows(client, p, accounts') => Follows(client, q, accounts')
  BY <1>16
<1> QED
  BY <1>1, <1>2, <1>3, <1>4, <1>5, <1>6, <1>14, <1>17, <1>18, <1>19, <1>20, <1>21, <1>22 DEF BInv
-----------------------------------------------------------------------------
(* The adapter drains the queue. *)

(* Trades do not move a client, and tell it no order. *)
LEMMA TradeStays ==
  ASSUME NEW c, DOMAIN c = ClientFields, NEW ev, NEW a, NEW b
  PROVE  SamePlace(Trade(c, ev, a, b), c)
<1>1. ASSUME NEW x, DOMAIN x = ClientFields, NEW i, NEW price, NEW n
      PROVE  SamePlace(Credit(x, i, price, n), x)
  <2> DEFINE P == [x.positions EXCEPT ![i] = apply_fill(x.positions[i], price, n)]
             y == Credit(x, i, price, n)
  <2>1. y = IF i \in Accounts THEN [x EXCEPT !.positions = P] ELSE x
    BY DEF Credit
  <2> HIDE DEF P, y
  <2>2. SamePlace(y, x)
    BY <1>1, <2>1 DEF ClientFields, SamePlace
  <2> QED
    BY <2>2 DEF y
<1> DEFINE x == Credit(c, a, ev.price, ev.qty)
           y == Credit(x, b, ev.price, -ev.qty)
           S == y.selfish \cup {a}
           d == Trade(c, ev, a, b)
<1>2. d = IF a = b THEN [y EXCEPT !.selfish = S] ELSE y
  BY DEF Trade
<1>3. SamePlace(x, c)
  BY <1>1
<1> HIDE DEF x
<1>4. SamePlace(y, x)
  BY <1>1, <1>3 DEF SamePlace
<1> HIDE DEF y, S, d
<1>5. SamePlace(d, c)
  <2>1. CASE a = b
    BY <1>2, <1>3, <1>4, <2>1 DEF ClientFields, SamePlace
  <2>2. CASE a # b
    BY <1>2, <1>3, <1>4, <2>2 DEF SamePlace
  <2> QED
    BY <2>1, <2>2
<1>6. d = Trade(c, ev, a, b)
  BY DEF d
<1> QED
  BY <1>5, <1>6

(* Polling one event. *)
LEMMA PolledIs ==
  ASSUME NEW c, DOMAIN c = ClientFields, c.gap \in BOOLEAN, NEW e
  PROVE  /\ Polling(Polled(c, e), e[1])
         /\ c.gap \/ e[1] # c.seq + 1 => Polled(c, e).gap = TRUE
<1> DEFINE ev == e[2]
           n == e[1]
           d == Polled(c, e)
           lost == c.gap \/ n # c.seq + 1
           x == [c EXCEPT !.seq = n]
           M == Put(c.orders, ev.order_id, ev)
           y == [x EXCEPT !.orders = M]
           g == [[ClientInit EXCEPT !.gap = TRUE] EXCEPT !.ladder = c.ladder]
<1>1. \/ lost /\ d = g
      \/ ~lost /\ \/ d = y
                  \/ \E a, b : d = Trade(x, ev, a, b)
  BY Zenon DEF Polled
<1>2. DOMAIN g = ClientFields /\ g.gap = TRUE /\ g.seq = 0
  <2>1. DOMAIN ClientInit = ClientFields /\ ClientInit.seq = 0
    BY DEF ClientInit, ClientFields
  <2> QED
    BY <2>1 DEF ClientFields
<1>3. ~lost => c.gap = FALSE
  BY Zenon
<1> HIDE DEF n
<1>4. DOMAIN x = ClientFields /\ x.seq = n /\ x.gap = c.gap
  BY DEF ClientFields
<1> HIDE DEF d, x, M, g, lost
<1>5. DOMAIN y = ClientFields /\ y.seq = n /\ y.gap = c.gap
  BY <1>4 DEF ClientFields
<1>6. \A a, b : SamePlace(Trade(x, ev, a, b), x)
  BY <1>4, TradeStays
<1> HIDE DEF y
<1>7. ASSUME lost, d = g PROVE Polling(d, n) /\ d.gap = TRUE
  BY <1>2, <1>7, Zenon DEF Polling
<1>8. ASSUME ~lost, d = y PROVE Polling(d, n)
  BY <1>3, <1>5, <1>8, Zenon DEF Polling
<1>9. ASSUME ~lost, \E a, b : d = Trade(x, ev, a, b) PROVE Polling(d, n)
  <2>1. SamePlace(d, x)
    BY <1>6, <1>9
  <2> QED
    BY <1>3, <1>4, <1>9, <2>1, Zenon DEF Polling, SamePlace
<1>10. Polling(d, n) /\ (lost => d.gap = TRUE)
  BY <1>1, <1>7, <1>8, <1>9, Zenon
<1> QED
  BY <1>10, Zenon DEF d, n, lost

(* Polling the whole queue. *)
LEMMA QueuePolled ==
  ASSUME NEW b, Queue(b), b.evq # <<>>, NEW c, Following(c, b)
  PROVE  LET d == View(c, b)
         IN  Polling(d, b.next_seq) /\ (d.gap = FALSE => Complete(c, b))
<1> DEFINE evs == b.evq
           N == Len(evs)
           last == b.next_seq
           d == View(c, b)
<1>1. /\ IsSeq(evs) /\ N \in Nat /\ last \in Nat
      /\ \A i \in 1..N : evs[i][1] = last - N + i
  BY DEF Queue
<1>2. N > 0
  <2>1. N \in Nat /\ IsSeq(evs) /\ evs # <<>>
    BY <1>1
  <2> HIDE DEF evs
  <2> QED
    BY <2>1 DEF IsSeq
<1>3. DOMAIN c = ClientFields /\ c.gap \in BOOLEAN /\ c.seq \in Nat /\ c.seq + N <= last
  BY DEF Following, Behind
<1>4. PICK g : g[0] = c /\ (\A n \in 1..N : g[n] = Polled(g[n - 1], evs[n])) /\ d = g[N]
  <2> DEFINE q == b.evq
  <2>1. Len(q) \in Nat
    BY <1>1
  <2> HIDE DEF q
  <2>2. \E g : /\ g[0] = c
               /\ \A n \in 1..Len(q) : g[n] = Polled(g[n - 1], q[n])
               /\ AllPolled(c, q) = g[Len(q)]
    BY <2>1, AllPolledIs
  <2> QED
    BY <2>2, Zenon DEF View, q
<1> HIDE DEF evs, N, last, d
<1> DEFINE lost == c.gap \/ c.seq + N # last
           Done(n) == /\ DOMAIN g[n] = ClientFields /\ g[n].gap \in BOOLEAN
                      /\ n # 0 => Polling(g[n], evs[n][1]) /\ (lost => g[n].gap = TRUE)
           G == {n \in Nat : n <= N => Done(n)}
<1>5. ASSUME NEW n \in Nat, n \in G, n + 1 <= N PROVE Done(n + 1)
  <2>1. n <= N /\ n + 1 \in 1..N /\ (n + 1) - 1 = n /\ n + 1 # 0
    BY <1>1, <1>5
  <2> DEFINE x == g[n]
             y == g[n + 1]
             e == evs[n + 1]
  <2>2. y = Polled(x, e)
    BY <1>4, <2>1, Zenon
  <2>3. Done(n)
    BY <1>5, <2>1
  <2>4. lost => x.gap \/ e[1] # x.seq + 1
    <3>1. CASE n # 0
      BY <2>3, <3>1
    <3>2. CASE n = 0
      <4>1. x = c /\ e[1] = last - N + 1
        BY <1>1, <1>4, <2>1, <3>2
      <4> HIDE DEF x, e
      <4> QED
        BY <1>1, <1>3, <4>1
    <3> QED
      BY <3>1, <3>2
  <2>5. DOMAIN x = ClientFields /\ x.gap \in BOOLEAN
    BY <2>3
  <2> HIDE DEF x, y, e, lost
  <2>6. Polling(y, e[1]) /\ (x.gap \/ e[1] # x.seq + 1 => y.gap = TRUE)
    BY <2>2, <2>5, PolledIs
  <2>7. DOMAIN y = ClientFields /\ y.gap \in BOOLEAN
    BY <2>6, Zenon DEF Polling
  <2> QED
    BY <2>1, <2>4, <2>6, <2>7 DEF y, e
<1>6. 0 \in G
  BY <1>3, <1>4
<1>7. ASSUME NEW n \in Nat, n \in G PROVE n + 1 \in G
  <2> HIDE DEF Done
  <2> QED
    BY <1>5, <1>7
<1>8. Nat \subseteq G
  <2> HIDE DEF G
  <2> QED
    BY <1>6, <1>7, SetOfNats
<1>9. Done(N)
  <2>1. N \in G
    <3> HIDE DEF G
    <3> QED
      BY <1>1, <1>8
  <2> HIDE DEF Done
  <2> QED
    BY <1>1, <2>1
<1>10. Polling(d, evs[N][1]) /\ (lost => d.gap = TRUE)
  <2> HIDE DEF lost
  <2>1. N # 0
    BY <1>2
  <2> QED
    BY <1>4, <1>9, <2>1, Zenon
<1>11. evs[N][1] = last
  BY <1>1, <1>2
<1>12. d.gap = FALSE => Complete(c, b)
  BY <1>10 DEF Complete, evs, N, last
<1> QED
  BY <1>10, <1>11, <1>12 DEF d, last

(* The adapter drains the queue. *)
LEMMA DrainKeeps ==
  ASSUME BInv, Drain
  PROVE  BInv'
<1> DEFINE d == View(client, bp)
           L == Ladder(me.resting)
           c == client'
           p == bp'
           last == gateway.next_server_order_id
<1>1. /\ bp.evq # <<>> /\ call' = call
      /\ c = [d EXCEPT !.ladder = L]
      /\ p = [bp EXCEPT !.evq = <<>>]
      /\ UNCHANGED <<me, stack, gateway, accounts, id_map, cur, ack, hist>>
  BY Zenon DEF Drain, Refreshed, View, pvars
<1>2. /\ PInv /\ Calling /\ Ordered(hist.owner, me.next_order_id) /\ Begins(id_map, hist.owner)
      /\ Matched(bp, last) /\ KnownIn(bp, id_map)
      /\ (InRegistry => AllKnown(bp, id_map))
      /\ Queue(bp) /\ Following(client, bp) /\ (InRegistry => Follows(client, bp, accounts))
  BY DEF BInv
<1>3. PInv'
  BY <1>1, <1>2 DEF PInv, EngineSound, Expected
<1>4. DOMAIN bp = BridgeFields /\ bp.next_seq \in Nat /\ Len(bp.evq) \in Nat
  BY <1>2 DEF Queue
<1>5. /\ DOMAIN p = BridgeFields /\ p.slots = bp.slots /\ p.me_to_gw = bp.me_to_gw
      /\ p.evq = <<>> /\ p.next_seq = bp.next_seq
  BY <1>1, <1>4 DEF BridgeFields
<1>6. IsSeq(<<>>) /\ Len(<<>>) = 0
  BY DEF IsSeq
<1>7. Queue(p)
  BY <1>4, <1>5, <1>6, BridgeAssumption DEF Queue
<1>8. Registry(bp)
  BY <1>2 DEF Matched
<1>9. Registry(p) /\ SameRegistry(p, bp)
  BY <1>5, <1>8 DEF Registry, SameRegistry, SameOrder
<1> HIDE DEF p, c, d, L
<1>10. /\ Matched(p, last) /\ KnownIn(p, id_map)
       /\ (AllKnown(bp, id_map) => AllKnown(p, id_map))
  BY <1>2, <1>9, MatchedSame
<1>11. Polling(d, bp.next_seq) /\ (d.gap = FALSE => Complete(client, bp))
  BY <1>1, <1>2, QueuePolled DEF d
<1>12. /\ DOMAIN c = ClientFields /\ c.seq = d.seq /\ c.gap = d.gap
       /\ c.positions = d.positions /\ c.selfish = d.selfish
  BY <1>1, <1>11 DEF Polling, ClientFields
<1>13. Following(c, p)
  <2>1. c.gap \in BOOLEAN
    BY <1>11, <1>12, Zenon DEF Polling
  <2>2. c.seq \in Nat /\ c.seq <= bp.next_seq /\ (~c.gap => c.seq = bp.next_seq)
    BY <1>4, <1>11, <1>12 DEF Polling
  <2> QED
    BY <1>4, <1>5, <1>6, <1>12, <2>1, <2>2 DEF Following, Behind
<1>14. ASSUME Follows(client, bp, accounts) PROVE Follows(c, p, accounts)
  <2>1. SUFFICES ASSUME Complete(c, p) PROVE Polls(c, p, accounts)
    BY DEF Follows
  <2>2. c.gap = FALSE
    <3>1. ~c.gap
      BY <2>1 DEF Complete
    <3>2. c.gap \in BOOLEAN
      BY <1>11, <1>12, Zenon DEF Polling
    <3> QED
      BY <3>1, <3>2, Zenon
  <2>3. Agree(d, accounts)
    BY <1>11, <1>12, <1>14, <2>2 DEF Follows, Polls, d
  <2>4. Agree(c, accounts)
    BY <1>12, <2>3, AgreeSame
  <2>5. View(c, p) = c
    BY <1>5, AllPolledNothing DEF View
  <2>6. UpTo(c, p.next_seq)
    BY <1>5, <1>11, <1>12, <2>2 DEF UpTo, Polling
  <2> QED
    BY <2>4, <2>5, <2>6 DEF Polls
<1>15. Calling'
  BY <1>1, <1>2, <1>5 DEF Calling, Free, Request, HasSlot, p
<1>16. InRegistry' <=> InRegistry
  BY <1>1 DEF InRegistry
<1> QED
  BY <1>1, <1>2, <1>3, <1>7, <1>10, <1>13, <1>14, <1>15, <1>16 DEF BInv, c, p

(* Every step of the bridge keeps the invariant. *)
LEMMA BInvStep ==
  ASSUME BInv, [BridgeNext]_bvars
  PROVE  BInv'
<1>1. CASE UNCHANGED bvars
  <2>1. UNCHANGED <<me, stack, gateway, accounts, id_map, cur, ack, hist, bp, call, client>>
    BY <1>1 DEF bvars, pvars
  <2>2. PInv'
    BY <2>1 DEF BInv, PInv, EngineSound, Expected
  <2>3. Calling' /\ (InRegistry' <=> InRegistry)
    BY <2>1 DEF BInv, Calling, Free, Request, HasSlot, InRegistry
  <2> QED
    BY <2>1, <2>2, <2>3 DEF BInv
<1>2. ASSUME NEW m \in NewOrders \cup Requests, NEW add \in 0..1, Enter(m, add) PROVE BInv'
  BY <1>2, EnterKeeps
<1>3. ASSUME NEW ev \in ToSet(gateway.out_ring), Dropped(ev) PROVE BInv'
  BY <1>3, DroppedKeeps
<1>4. ASSUME NEW ev \in ToSet(gateway.out_ring), Dispatch(ev), UNCHANGED <<bp, call, client>>
      PROVE  BInv'
  BY <1>4, DispatchedKeeps
<1>5. CASE Cascade /\ UNCHANGED <<gateway, accounts, last_trade_price, id_map, cur, stepping, ack,
                                  hist, bp, call, client>>
  BY <1>5, CascadedKeeps
<1>6. CASE Returned
  BY <1>6, ReturnedKeeps
<1>7. CASE Drain
  BY <1>7, DrainKeeps
<1> QED
  BY <1>1, <1>2, <1>3, <1>4, <1>5, <1>6, <1>7, Zenon DEF BridgeNext
-----------------------------------------------------------------------------
(* The theorems of the bridge. *)

(* The invariant of the bridge: the pipeline's, one call at a time, ids of  *)
(* gateway and engine matched one to one, a poll queue numbered without a   *)
(* gap, and an adapter whose positions are the pipeline's once it has       *)
(* polled the queue, unless it has missed an event and noticed.             *)
THEOREM BridgeInvariant == BridgeSpec => []BInv
<1>1. BridgeInit => BInv
  BY BInvInit
<1>2. BInv /\ [BridgeNext]_bvars => BInv'
  BY BInvStep
<1> QED
  BY <1>1, <1>2, PTL DEF BridgeSpec

(* The adapter's portfolios, kept by the trade events of the poll queue,    *)
(* agree with the pipeline's, kept by the id map, whenever the queue has    *)
(* been polled and no event was missed, whatever orders, cancels,           *)
(* modifications, cascades and polls came before, as long as every id has   *)
(* had a slot.                                                              *)
THEOREM PortfoliosAgreeAlways == BridgeSpec => []PortfoliosAgree
<1>1. BInv => PortfoliosAgree
  <2> SUFFICES ASSUME BInv, Between, InRegistry, bp.evq = <<>>, ~client.gap, NEW a \in Accounts
               PROVE  LET p == accounts[a]
                          q == client.positions[a]
                      IN  /\ q.cash = p.cash /\ q.net_qty = p.net_qty
                          /\ a \notin client.selfish =>
                               q.avg_price = p.avg_price /\ q.realised_pnl = p.realised_pnl
    BY Zenon DEF PortfoliosAgree
  <2>1. Following(client, bp) /\ Follows(client, bp, accounts) /\ Queue(bp)
    BY DEF BInv
  <2>2. Complete(client, bp)
    <3>1. Len(<<>>) = 0
      OBVIOUS
    <3> QED
      BY <2>1, <3>1 DEF Following, Behind, Complete, Queue
  <2>3. View(client, bp) = client
    BY AllPolledNothing DEF View
  <2>4. Agree(client, accounts)
    BY <2>1, <2>2, <2>3 DEF Follows, Polls
  <2> QED
    BY <2>4 DEF Agree, SamePosition, SameMoney
<1> QED
  BY <1>1, BridgeInvariant, PTL

-----------------------------------------------------------------------------
(* The stream of events, one change at a time. *)

(* A changed order breaks no promise made before. *)
LEMMA ChangeFinal ==
  ASSUME NEW t, NEW b, Final(t, b), NEW id, NEW s, NEW p, OneSlot(p, b, id, s),
         id \in DOMAIN b.slots => Progress(s, b.slots[id])
  PROVE  Final(t, p)
<1>1. SinceCall(t, p)
  BY DEF Final, SinceCall, OneSlot, Progress, Live
<1>2. p.evq = b.evq
  BY DEF OneSlot
<1>3. EndsOnce(p)
  BY <1>2 DEF Final, EndsOnce
<1>4. Ends(p)
  <2> SUFFICES ASSUME NEW j \in 1..Len(b.evq), IsOrder(b.evq[j][2])
               PROVE  /\ b.evq[j][2].order_id \in DOMAIN p.slots
                      /\ ~Live(b.evq[j][2]) => p.slots[b.evq[j][2].order_id].status = b.evq[j][2].status
    BY <1>2 DEF Ends
  <2> DEFINE e == b.evq[j][2]
             x == e.order_id
  <2>1. x \in DOMAIN b.slots /\ (~Live(e) => b.slots[x].status = e.status)
    BY DEF Final, Ends
  <2> HIDE DEF e
  <2>2. x \in DOMAIN p.slots /\ (~Live(e) => p.slots[x].status = e.status)
    <3>1. CASE x = id
      BY <2>1, <3>1 DEF OneSlot, Progress, Live
    <3>2. CASE x # id
      BY <2>1, <3>2 DEF OneSlot
    <3> QED
      BY <3>1, <3>2
  <2> QED
    BY <2>2 DEF e
<1> QED
  BY <1>1, <1>3, <1>4 DEF Final

(* Nor does an event that tells an order as it is, or none. *)
LEMMA EventFinal ==
  ASSUME NEW t, NEW b, Queue(b), Final(t, b), NEW ev, NEW p, Pushed(p, b, ev),
         IsOrder(ev) => ev.order_id \in DOMAIN b.slots /\ ev.status = b.slots[ev.order_id].status
  PROVE  Final(t, p) /\ p.evq # <<>>
<1> DEFINE N == Len(p.evq)
           M == Len(b.evq)
           n == b.next_seq
<1>1. /\ SameOrders(p, b) /\ N \in {M, M + 1} /\ N > 0
      /\ p.evq[N] = <<n + 1, ev>>
      /\ \A i \in 1..(N - 1) : p.evq[i] = b.evq[i + M + 1 - N]
  BY PushEventIs DEF Pushed
<1>2. M \in Nat
  BY DEF Queue
<1>3. SinceCall(t, p)
  BY <1>1 DEF SameOrders, Final, SinceCall
<1> HIDE DEF N, M, n
<1>4. \A j \in 1..N :
                      \/ p.evq[j][2] = ev /\ j = N
                      \/ j < N /\ (\E k \in 1..M : p.evq[j][2] = b.evq[k][2] /\ k = j + M + 1 - N)
  <2> SUFFICES ASSUME NEW j \in 1..N
               PROVE  \/ p.evq[j][2] = ev /\ j = N
                      \/ j < N /\ (\E k \in 1..M : p.evq[j][2] = b.evq[k][2] /\ k = j + M + 1 - N)
    OBVIOUS
  <2>1. CASE j = N
    BY <1>1, <2>1
  <2>2. CASE j # N
    <3>1. j \in 1..(N - 1) /\ j + M + 1 - N \in 1..M
      BY <1>1, <1>2, <2>2
    <3> QED
      BY <1>1, <1>2, <2>2, <3>1
  <2> QED
    BY <2>1, <2>2
<1>5. Ends(p)
  <2> SUFFICES ASSUME NEW j \in 1..N, IsOrder(p.evq[j][2])
               PROVE  /\ p.evq[j][2].order_id \in DOMAIN p.slots
                      /\ ~Live(p.evq[j][2]) => p.slots[p.evq[j][2].order_id].status = p.evq[j][2].status
    BY DEF Ends, N
  <2>1. CASE p.evq[j][2] = ev
    BY <1>1, <2>1 DEF SameOrders
  <2>2. CASE \E k \in 1..M : p.evq[j][2] = b.evq[k][2]
    BY <1>1, <2>2 DEF Final, Ends, SameOrders, M
  <2> QED
    BY <1>4, <2>1, <2>2
<1>6. EndsOnce(p)
  <2> SUFFICES ASSUME NEW i \in 1..N, NEW j \in 1..N, i < j, IsOrder(p.evq[i][2]), IsOrder(p.evq[j][2]),
                      p.evq[i][2].order_id = p.evq[j][2].order_id, ~Live(p.evq[i][2])
               PROVE  p.evq[j][2].status = p.evq[i][2].status
    BY DEF EndsOnce, N
  <2>1. PICK k \in 1..M : p.evq[i][2] = b.evq[k][2] /\ k = i + M + 1 - N
    <3>1. N \in Nat
      BY <1>1, <1>2
    <3> QED
      BY <1>4, <3>1
  <2>2. CASE p.evq[j][2] = ev
    BY <2>1, <2>2 DEF Final, Ends, M
  <2>3. CASE \E l \in 1..M : p.evq[j][2] = b.evq[l][2] /\ l = j + M + 1 - N
    <3>1. PICK l \in 1..M : p.evq[j][2] = b.evq[l][2] /\ l = j + M + 1 - N
      BY <2>3
    <3>2. k < l
      <4>1. N \in Nat
        BY <1>1, <1>2
      <4> QED
        BY <1>2, <2>1, <3>1, <4>1
    <3> QED
      BY <2>1, <3>1, <3>2 DEF Final, EndsOnce, M
  <2> QED
    BY <1>4, <2>2, <2>3
<1>7. p.evq # <<>>
  <2>1. Len(<<>>) = 0
    OBVIOUS
  <2> QED
    BY <1>1, <2>1 DEF N
<1> QED
  BY <1>3, <1>5, <1>6, <1>7 DEF Final

(* Streaming looks at the queue, the orders and what is pending.            *)
LEMMA ChangeStreams ==
  ASSUME NEW t, NEW b, Registry(b), NEW w, Streams(t, b, w), NEW id, NEW s, NEW p, OneSlot(p, b, id, s),
         id \in DOMAIN b.slots => SameOrder(s, b.slots[id]) /\ Progress(s, b.slots[id]) /\ Pending(t, b, id, w)
  PROVE  Streams(t, p, w)
<1>1. Final(t, p)
  BY ChangeFinal DEF Streams
<1>2. p.evq = b.evq /\ p.next_seq = b.next_seq /\ View(t.client, p) = View(t.client, b)
  BY DEF OneSlot, View
<1>3. Behind(t.client, p) /\ (Complete(t.client, p) => Complete(t.client, b))
  BY <1>2 DEF Streams, Behind, Complete
<1> DEFINE d == View(t.client, b)
<1>4. ASSUME UpToDate(t, d, b, w) PROVE UpToDate(t, d, p, w)
  <2> HIDE DEF d
  <2>1. ASSUME NEW x \in DOMAIN p.slots, ~Pending(t, p, x, w)
        PROVE  x \in DOMAIN d.orders /\ StateTold(d.orders[x], p.slots[x])
    <3>1. x \in DOMAIN b.slots /\ (x # id => p.slots[x] = b.slots[x])
      BY DEF OneSlot
    <3>2. x # id
      BY <2>1, <3>1 DEF OneSlot, Pending, SameOrder
    <3>3. ~Pending(t, b, x, w)
      BY <2>1, <3>1, <3>2 DEF Pending
    <3> QED
      BY <1>4, <3>1, <3>2, <3>3 DEF UpToDate
  <2> QED
    BY <1>2, <1>4, <2>1 DEF UpToDate
<1>5. Surfaces(t, p, w)
  BY <1>2, <1>3, <1>4 DEF Surfaces, Streams
<1> QED
  BY <1>1, <1>3, <1>5 DEF Streams

(* A snapshot tells its order; of which others nothing can be known may     *)
(* change from the call t and w to the call r and u.                        *)
LEMMA ToldStreams ==
  ASSUME NEW t, NEW b, Registry(b), Queue(b), NEW w, Streams(t, b, w), NEW id \in DOMAIN b.slots,
         NEW s, SameOrder(s, b.slots[id]), Progress(s, b.slots[id]), NEW b1, OneSlot(b1, b, id, s), Queue(b1),
         NEW p, Pushed(p, b1, Snapshot(id, b1.slots[id])),
         NEW r, r.client = t.client, r.base = t.base,
         NEW u, \A x \in DOMAIN b.slots : x # id /\ ~Pending(r, b, x, u) => ~Pending(t, b, x, w)
  PROVE  Streams(r, p, u) /\ p.evq # <<>>
<1> DEFINE ev == Snapshot(id, s)
           v == View(t.client, b)
           n == b.next_seq
           d == Polled(v, <<n + 1, ev>>)
<1>1. b1.slots[id] = s /\ DOMAIN b1.slots = DOMAIN b.slots /\ b1.next_seq = n /\ View(t.client, b1) = v
  BY DEF OneSlot, View
<1>2. /\ ev.kind = "ORDER" /\ ev.order_id = id /\ ev.price = s.price /\ ev.qty_remain = s.qty_remain
      /\ ev.qty_filled = s.qty_filled /\ ev.status = s.status
  BY DEF Snapshot
<1>3. Pushed(p, b1, ev)
  BY <1>1
<1> HIDE DEF ev
<1>4. Final(t, b1)
  BY ChangeFinal DEF Streams
<1>5. Final(t, p) /\ p.evq # <<>>
  BY <1>1, <1>2, <1>3, <1>4, EventFinal DEF IsOrder
<1>6. Behind(t.client, b1) /\ (Complete(t.client, b1) => Complete(t.client, b))
  BY DEF OneSlot, Streams, Behind, Complete
<1>7. p.next_seq = n + 1 /\ n \in Nat /\ p.slots = b1.slots
  <2>1. p = push_event(b1, ev)
    BY <1>3 DEF Pushed
  <2>2. p.next_seq = b1.next_seq + 1 /\ p.slots = b1.slots
    BY <2>1, PushEventIs DEF SameOrders
  <2> QED
    BY <1>1, <2>2 DEF Queue
<1>8. /\ Behind(t.client, p)
      /\ Complete(t.client, p) => Complete(t.client, b) /\ View(t.client, p) = d
  BY <1>1, <1>3, <1>6, PushViewed DEF Pushed
<1>9. ASSUME Complete(t.client, p) PROVE UpToDate(r, d, p, u)
  <2>1. UpToDate(t, v, b, w)
    BY <1>8, <1>9 DEF Streams, Surfaces
  <2>2. UpTo(v, n)
    BY <2>1 DEF UpToDate
  <2> HIDE DEF v, n
  <2>3. UpTo(d, n + 1) /\ d.orders = Put(v.orders, id, ev)
    BY <1>2, <1>7, <2>2, PolledOrder
  <2> HIDE DEF d
  <2>4. ASSUME NEW x \in DOMAIN p.slots, ~Pending(r, p, x, u)
        PROVE  x \in DOMAIN d.orders /\ StateTold(d.orders[x], p.slots[x])
    <3>1. CASE x = id
      BY <1>1, <1>2, <1>7, <2>3, <3>1 DEF Put, StateTold
    <3>2. CASE x # id
      <4>1. p.slots[x] = b.slots[x] /\ x \in DOMAIN b.slots
        BY <1>1, <1>7, <3>2 DEF OneSlot
      <4>2. ~Pending(r, b, x, u)
        BY <2>4, <4>1 DEF Pending
      <4>3. ~Pending(t, b, x, w)
        BY <3>2, <4>1, <4>2
      <4>4. x \in DOMAIN v.orders /\ StateTold(v.orders[x], b.slots[x])
        BY <2>1, <4>1, <4>3 DEF UpToDate
      <4> QED
        BY <2>3, <3>2, <4>1, <4>4 DEF Put
    <3> QED
      BY <3>1, <3>2
  <2> QED
    BY <1>7, <2>3, <2>4 DEF UpToDate
<1>10. Surfaces(r, p, u)
  BY <1>8, <1>9 DEF Surfaces
<1>11. Final(r, p)
  BY <1>5 DEF Final, SinceCall
<1> QED
  BY <1>5, <1>8, <1>10, <1>11 DEF Streams

(* The call may stay the same. *)
LEMMA SnapshotStreams ==
  ASSUME NEW t, NEW b, Registry(b), Queue(b), NEW w, Streams(t, b, w), NEW id \in DOMAIN b.slots,
         NEW s, SameOrder(s, b.slots[id]), Progress(s, b.slots[id]), NEW b1, OneSlot(b1, b, id, s), Queue(b1),
         NEW p, Pushed(p, b1, Snapshot(id, b1.slots[id])),
         NEW u, \A x \in DOMAIN b.slots : x # id /\ ~Pending(t, b, x, u) => ~Pending(t, b, x, w)
  PROVE  Streams(t, p, u) /\ p.evq # <<>>
  BY ToldStreams

(* The event of a trade tells no order. *)
LEMMA TradeStreams ==
  ASSUME NEW t, NEW b, Queue(b), NEW w, Streams(t, b, w), NEW ev, ev.side \in Side, NEW a, NEW r,
         NEW p, Pushed(p, b, TradeTold(ev, a, r))
  PROVE  Streams(t, p, w) /\ p.evq # <<>>
<1> DEFINE e == TradeTold(ev, a, r)
           v == View(t.client, b)
           n == b.next_seq
           d == Polled(v, <<n + 1, e>>)
<1>1. ~IsOrder(e)
  BY DEF TradeTold, IsOrder
<1>2. Final(t, p) /\ p.evq # <<>>
  BY <1>1, EventFinal DEF Streams
<1>3. /\ Behind(t.client, p)
      /\ Complete(t.client, p) => Complete(t.client, b) /\ View(t.client, p) = d
  BY PushViewed DEF Pushed, Streams
<1>4. p.next_seq = n + 1 /\ n \in Nat /\ p.slots = b.slots
  <2>1. p.next_seq = n + 1 /\ p.slots = b.slots
    BY PushEventIs DEF SameOrders, Pushed
  <2> QED
    BY <2>1 DEF Queue
<1>5. ASSUME Complete(t.client, p) PROVE UpToDate(t, d, p, w)
  <2>1. UpToDate(t, v, b, w)
    BY <1>3, <1>5 DEF Streams, Surfaces
  <2>2. UpTo(v, n)
    BY <2>1 DEF UpToDate
  <2> HIDE DEF v, n
  <2>3. PICK x : /\ UpTo(x, n + 1) /\ x.orders = v.orders
                 /\ d = IF ev.side = "BID" THEN Trade(x, e, a, r) ELSE Trade(x, e, r, a)
    BY <1>4, <2>2, PolledTrade
  <2> HIDE DEF d, e
  <2>4. SamePlace(d, x)
    BY <2>3, TradeStays DEF UpTo
  <2>5. UpTo(d, n + 1) /\ d.orders = v.orders
    BY <2>3, <2>4 DEF UpTo, SamePlace
  <2> QED
    BY <1>4, <2>1, <2>5 DEF UpToDate, Pending
<1> QED
  BY <1>2, <1>3, <1>5 DEF Streams, Surfaces

-----------------------------------------------------------------------------
(* What is shown, one event of the engine at a time. *)

(* A change of one order's state changes no other's. *)
LEMMA FitsSame ==
  ASSUME NEW i, NEW R, NEW S, NEW lost, NEW Q, NEW T, NEW gone, SameBut(i, R, S, lost, Q, T, gone),
         NEW s, NEW x, x # i, Fits(s, x, R, S, lost)
  PROVE  Fits(s, x, Q, T, gone)
<1>1. x \in Ids(R) => x \in Ids(Q)
  BY DEF SameBut, Ids
<1>2. \A o \in Q : o.id = x => o \in R
  BY DEF SameBut
<1>3. (x \in S <=> x \in T) /\ (x \in lost => x \in gone)
  BY DEF SameBut
<1> QED
  BY <1>1, <1>2, <1>3 DEF Fits

(* Less may be pending.                                                     *)
LEMMA StreamsSame ==
  ASSUME NEW t, NEW b, NEW w, Streams(t, b, w), NEW u,
         \A x \in DOMAIN b.slots : ~Pending(t, b, x, u) => ~Pending(t, b, x, w)
  PROVE  Streams(t, b, u)
BY DEF Streams, Surfaces, UpToDate

(* With no order of a client in work, and other things in the book, each    *)
(* order may be shown as it should be all the same.                         *)
LEMMA ShownElse ==
  ASSUME NEW t, NEW b, NEW R, NEW S, NEW lost, NEW w, Shown(t, b, R, S, lost, w),
         NEW Q, NEW T, NEW gone, NEW u, w.id \notin DOMAIN b.me_to_gw, u.id \notin DOMAIN b.me_to_gw,
         \A x \in DOMAIN b.me_to_gw : Fits(b.slots[b.me_to_gw[x]], x, R, S, lost)
                                        => Fits(b.slots[b.me_to_gw[x]], x, Q, T, gone)
  PROVE  Shown(t, b, Q, T, gone, u)
<1>1. ASSUME NEW x \in DOMAIN b.slots, ~Pending(t, b, x, u)
      PROVE  ~Pending(t, b, x, w)
  <2>1. b.slots[x].me_id # 0 => b.slots[x].me_id \in DOMAIN b.me_to_gw
    BY DEF Shown, Matched
  <2> QED
    BY <1>1, <2>1 DEF Pending
<1>2. Streams(t, b, u)
  BY <1>1, StreamsSame DEF Shown
<1>3. Shows(b, Q, T, gone, u)
  BY DEF Shown, Shows
<1> QED
  BY <1>2, <1>3 DEF Shown

(* An event that is not staged, or is of no client's order, or of a dead    *)
(* one, changes nothing.                                                    *)
LEMMA SilentEvent ==
  ASSUME NEW b, NEW ev, ev.type # "TRADE",
         \/ ev.type = "BOOK_UPDATED" \/ ev.id \notin DOMAIN b.me_to_gw
         \/ Dead(b.slots[b.me_to_gw[ev.id]])
  PROVE  StagedEvent(b, ev) = b
<1> DEFINE id == gw_from_me(b, ev.id)
<1>1. CASE ev.type = "BOOK_UPDATED"
  <2>1. ~Staged(ev)
    BY <1>1 DEF Staged, bus_publish, Topic
  <2> QED
    BY <2>1, Zenon DEF StagedEvent
<1>2. CASE ev.id \notin DOMAIN b.me_to_gw \/ Dead(b.slots[b.me_to_gw[ev.id]])
  <2>1. id = 0 \/ Dead(b.slots[id])
    BY <1>2, Zenon DEF gw_from_me
  <2> HIDE DEF id
  <2>2. OrderEvent(b, id, ev) = b
    BY <2>1, Zenon DEF OrderEvent
  <2>3. Translate(b, ev) = b
    BY <2>2, Zenon DEF Translate, id
  <2> QED
    BY <2>3, Zenon DEF StagedEvent
<1> QED
  BY <1>1, <1>2

(* ... ends the work on that order, or is of one that nothing is done with. *)
LEMMA OwnEventShown ==
  ASSUME NEW t, NEW b, NEW R, NEW S, NEW lost, NEW w, Shown(t, b, R, S, lost, w),
         NEW ev, OwnEvent(ev), w.id \in {0, ev.id}, NEW Q, NEW T, NEW gone,
         SameBut(ev.id, R, S, lost, Q, T, gone), ev.id # 0 => TellsOwn(ev, R, S, lost, w, Q, T, gone)
  PROVE  LET p == StagedEvent(b, ev)
         IN  /\ Shown(t, p, Q, T, gone, NoOrder)
             /\ (ev.id \in DOMAIN b.me_to_gw /\ ~Dead(b.slots[b.me_to_gw[ev.id]])) => p.evq # <<>>
<1> DEFINE i == ev.id
           id == gw_from_me(b, i)
           p == StagedEvent(b, ev)
<1>1. Registry(b) /\ Queue(b) /\ Matched(b, t.last) /\ Streams(t, b, w)
  BY DEF Shown, Matched
<1>2. 0 \notin DOMAIN b.me_to_gw /\ NoOrder.id = 0
  BY <1>1 DEF Matched, NoOrder
<1>3. CASE i \notin DOMAIN b.me_to_gw
  <2>1. p = b
    BY <1>3, SilentEvent DEF OwnEvent
  <2>2. ASSUME NEW x \in DOMAIN b.me_to_gw, Fits(b.slots[b.me_to_gw[x]], x, R, S, lost)
        PROVE  Fits(b.slots[b.me_to_gw[x]], x, Q, T, gone)
    <3>1. x # i
      BY <1>3
    <3> QED
      BY <2>2, <3>1, FitsSame
  <2>3. w.id \notin DOMAIN b.me_to_gw
    BY <1>2, <1>3
  <2>4. Shown(t, b, Q, T, gone, NoOrder)
    BY <1>2, <2>2, <2>3, ShownElse
  <2> QED
    BY <1>3, <2>1, <2>4
<1>4. CASE i \in DOMAIN b.me_to_gw
  <2>0. TellsOwn(ev, R, S, lost, w, Q, T, gone)
    BY <1>2, <1>4
  <2>1. id = b.me_to_gw[i] /\ id \in DOMAIN b.slots /\ b.slots[id].me_id = i /\ DOMAIN b.slots[id] = SlotFields
    BY <1>1, <1>4 DEF gw_from_me, Registry, Matched
  <2> HIDE DEF id
  <2>2. IF i = w.id THEN Coming(b.slots[id], w) ELSE Fits(b.slots[id], i, R, S, lost)
    BY <1>4, <2>1 DEF Shown, Shows
  <2>3. CASE Dead(b.slots[id])
    <3>1. p = b
      BY <2>1, <2>3, SilentEvent DEF OwnEvent
    <3>2. i # w.id
      BY <2>2, <2>3 DEF Coming
    <3>3. Fits(b.slots[id], i, Q, T, gone)
      BY <2>0, <2>2, <2>3, <3>2 DEF TellsOwn
    <3>4. ASSUME NEW x \in DOMAIN b.me_to_gw, Fits(b.slots[b.me_to_gw[x]], x, R, S, lost)
          PROVE  Fits(b.slots[b.me_to_gw[x]], x, Q, T, gone)
      <4>1. CASE x = i
        BY <2>1, <3>3, <4>1
      <4>2. CASE x # i
        BY <3>4, <4>2, FitsSame
      <4> QED
        BY <4>1, <4>2
    <3>5. w.id \notin DOMAIN b.me_to_gw
      BY <1>2, <3>2
    <3>6. Shown(t, b, Q, T, gone, NoOrder)
      BY <1>2, <3>4, <3>5, ShownElse
    <3> QED
      BY <2>1, <2>3, <3>1, <3>6
  <2>4. CASE ~Dead(b.slots[id])
    <3> DEFINE s == Told(Advanced(b.slots[id], ev), ev)
    <3>1. Fits(s, i, Q, T, gone) /\ Progress(s, b.slots[id])
      BY <2>0, <2>1, <2>2, <2>4 DEF TellsOwn
    <3>2. p = OrderEvent(b, id, ev)
      <4>1. Staged(ev)
        BY DEF OwnEvent, Staged, bus_publish, Topic
      <4> QED
        BY <4>1, Zenon DEF OwnEvent, StagedEvent, Translate, id
    <3>3. id # 0
      BY <1>1, <2>1 DEF Registry
    <3>4. PICK b1 : OrderSteps(p, b, id, ev, b1)
      BY <1>1, <2>1, <2>4, <3>2, <3>3, OrderEventSteps
    <3>5. SameOrder(s, b.slots[id])
      BY <2>1, ToldSlot
    <3> HIDE DEF s
    <3>6. /\ OneSlot(b1, b, id, s) /\ Registry(b1) /\ Queue(b1) /\ SameRegistry(b1, b)
          /\ Pushed(p, b1, Snapshot(id, b1.slots[id]))
          /\ Registry(p) /\ Queue(p) /\ SameOrders(p, b1)
      BY <3>4 DEF OrderSteps, s
    <3> HIDE DEF p
    <3>7. p.me_to_gw = b.me_to_gw /\ p.slots = b1.slots /\ DOMAIN p.slots = DOMAIN b.slots
          /\ p.slots[id] = s /\ \A x \in DOMAIN b.slots : x # id => p.slots[x] = b.slots[x]
      BY <2>1, <3>6 DEF OneSlot, SameOrders
    <3>8. \A x \in DOMAIN b.slots : x # id /\ ~Pending(t, b, x, NoOrder) => ~Pending(t, b, x, w)
      BY <1>1, <1>2, <2>1 DEF Pending, Matched
    <3>9. Streams(t, p, NoOrder) /\ p.evq # <<>>
      BY <1>1, <2>1, <3>1, <3>5, <3>6, <3>8, SnapshotStreams
    <3>10. SameRegistry(p, b)
      BY <3>6, <3>7 DEF SameRegistry
    <3>11. Matched(p, t.last)
      BY <1>1, <3>6, <3>10, MatchedSame
    <3>12. ASSUME NEW x \in DOMAIN p.me_to_gw PROVE Fits(p.slots[p.me_to_gw[x]], x, Q, T, gone)
      <4>1. CASE x = i
        BY <2>1, <3>1, <3>7, <4>1
      <4>2. CASE x # i
        <5>1. b.me_to_gw[x] \in DOMAIN b.slots /\ b.slots[b.me_to_gw[x]].me_id = x
          BY <1>1, <3>7 DEF Registry, Matched
        <5>2. p.slots[p.me_to_gw[x]] = b.slots[b.me_to_gw[x]]
          BY <2>1, <3>7, <4>2, <5>1
        <5>3. x # w.id
          BY <1>2, <3>7, <4>2
        <5>4. Fits(b.slots[b.me_to_gw[x]], x, R, S, lost)
          BY <3>7, <5>3 DEF Shown, Shows
        <5> QED
          BY <4>2, <5>2, <5>4, FitsSame
      <4> QED
        BY <4>1, <4>2
    <3>13. Shows(p, Q, T, gone, NoOrder)
      BY <1>2, <3>7, <3>12 DEF Shows
    <3>14. Waiting(t, p)
      <4>1. s.me_id # 0
        BY <1>2, <1>4, <2>1, <3>5 DEF SameOrder
      <4> QED
        BY <3>7, <4>1 DEF Shown, Waiting
    <3>15. t.call = 0 \/ t.call \in DOMAIN p.slots
      BY <3>7 DEF Shown
    <3> QED
      BY <3>6, <3>9, <3>11, <3>13, <3>14, <3>15 DEF Shown, Heard, p
  <2> QED
    BY <2>3, <2>4
<1> QED
  BY <1>3, <1>4

(* Telling an event and changing a slot may be done in either order.        *)
LEMMA PushCommutes ==
  ASSUME NEW b, Queue(b), NEW b1, NEW id, NEW s, OneSlot(b1, b, id, s), Queue(b1), NEW ev,
         NEW b2, Pushed(b2, b1, ev), NEW c, Pushed(c, b, ev)
  PROVE  OneSlot(b2, c, id, s)
<1> DEFINE Q == Append(IF QueueFull(b) THEN Tail(b.evq) ELSE b.evq, <<b.next_seq + 1, ev>>)
           Q1 == Append(IF QueueFull(b1) THEN Tail(b1.evq) ELSE b1.evq, <<b1.next_seq + 1, ev>>)
           n == b.next_seq + 1
           n1 == b1.next_seq + 1
<1>1. b1.evq = b.evq /\ b1.next_seq = b.next_seq /\ DOMAIN b = BridgeFields /\ DOMAIN b1 = BridgeFields
  BY DEF OneSlot, Queue
<1>2. Q1 = Q /\ n1 = n
  BY <1>1 DEF QueueFull
<1>3. b2 = [[b1 EXCEPT !.evq = Q1] EXCEPT !.next_seq = n1] /\ c = [[b EXCEPT !.evq = Q] EXCEPT !.next_seq = n]
  BY DEF Pushed, push_event
<1> HIDE DEF Q, Q1, n, n1
<1>4. /\ DOMAIN b2 = BridgeFields /\ b2.evq = Q /\ b2.next_seq = n /\ b2.slots = b1.slots
      /\ b2.me_to_gw = b1.me_to_gw
      /\ c.evq = Q /\ c.next_seq = n /\ c.slots = b.slots /\ c.me_to_gw = b.me_to_gw
  BY <1>1, <1>2, <1>3 DEF BridgeFields
<1> QED
  BY <1>4 DEF OneSlot

(* A fill of the order in work, and of the resting order.                   *)
LEMMA FilledComing ==
  ASSUME NEW s, DOMAIN s = SlotFields, NEW w, Coming(s, w), w.left \in Nat, NEW n \in Nat \ {0}, n <= w.left,
         NEW u, Nearer(u, w, n)
  PROVE  Coming(Filled(s, n), u) /\ Progress(Filled(s, n), s) /\ SameOrder(Filled(s, n), s)
<1> DEFINE t == Filled(s, n)
<1>1. /\ SameOrder(t, s) /\ t.price = s.price
      /\ t.qty_remain = w.left - n
      /\ t.status = IF w.left - n = 0 THEN "FILLED" ELSE "PARTIAL"
  <2> DEFINE L == IF s.qty_remain >= n THEN s.qty_remain - n ELSE 0
  <2>1. /\ SameOrder(t, s) /\ t.price = s.price /\ t.qty_remain = L
        /\ t.status = IF L = 0 THEN "FILLED" ELSE "PARTIAL"
    BY FilledSlot
  <2>2. L = w.left - n
    BY DEF Coming
  <2> HIDE DEF L, t
  <2> QED
    BY <2>1, <2>2
<1> HIDE DEF t
<1>2. Live(s)
  BY DEF Coming
<1>3. Coming(t, u)
  BY <1>1 DEF Coming, Nearer, SameOrder, Dead, Live
<1> QED
  BY <1>1, <1>2, <1>3 DEF Progress, t

LEMMA FilledFits ==
  ASSUME NEW s, DOMAIN s = SlotFields, NEW R, IsBook(R), NEW o \in R, NEW S, NEW lost, Fits(s, o.id, R, S, lost),
         o.id \notin S, NEW n \in Nat \ {0}, n <= o.qty,
         NEW Q, Q = (R \ {o}) \cup (IF o.qty > n THEN {Reduced(o, n)} ELSE {})
  PROVE  Fits(Filled(s, n), o.id, Q, S, lost) /\ Progress(Filled(s, n), s) /\ SameOrder(Filled(s, n), s)
<1> DEFINE t == Filled(s, n)
           left == o.qty - n
<1>1. Live(s) /\ s.qty_remain = o.qty /\ s.side = o.side /\ (s.type # "MARKET" => s.price = o.price)
  BY DEF Fits
<1>2. o.qty \in Nat
  BY DEF IsBook, Order
<1>3. /\ SameOrder(t, s) /\ t.price = s.price /\ t.touched = TRUE
      /\ t.qty_remain = left /\ t.status = IF left = 0 THEN "FILLED" ELSE "PARTIAL"
  <2> DEFINE L == IF s.qty_remain >= n THEN s.qty_remain - n ELSE 0
  <2>1. /\ SameOrder(t, s) /\ t.price = s.price /\ t.touched = TRUE /\ t.qty_remain = L
        /\ t.status = IF L = 0 THEN "FILLED" ELSE "PARTIAL"
    BY FilledSlot
  <2>2. L = left
    BY <1>1, <1>2
  <2> HIDE DEF L, t, left
  <2> QED
    BY <2>1, <2>2
<1> HIDE DEF t
<1>4. \A x \in R : x.id = o.id => x = o
  BY DEF IsBook
<1>5. CASE o.qty > n
  <2> DEFINE r == Reduced(o, n)
  <2>1. r.id = o.id /\ r.side = o.side /\ r.price = o.price /\ r.qty = left
    BY <1>5, ReducedIs DEF IsBook
  <2> HIDE DEF r
  <2>2. Q = (R \ {o}) \cup {r}
    BY <1>5 DEF r
  <2>3. left # 0 /\ Live(t)
    BY <1>2, <1>3, <1>5 DEF Live
  <2>4. o.id \in Ids(Q)
    BY <2>1, <2>2 DEF Ids
  <2>5. ASSUME NEW x \in Q, x.id = o.id PROVE x = r
    BY <1>4, <2>2, <2>5
  <2>6. Fits(t, o.id, Q, S, lost)
    BY <1>1, <1>3, <2>1, <2>3, <2>4, <2>5 DEF Fits, SameOrder
  <2> QED
    BY <1>1, <1>3, <2>6 DEF Progress, t
<1>6. CASE ~(o.qty > n)
  <2>1. left = 0 /\ Q = R \ {o}
    BY <1>2, <1>6
  <2>2. ~Live(t)
    BY <1>3, <2>1 DEF Live
  <2>3. \A x \in Q : x.id # o.id
    BY <1>4, <2>1
  <2>4. Fits(t, o.id, Q, S, lost)
    BY <1>3, <2>2, <2>3 DEF Fits
  <2> QED
    BY <1>1, <1>3, <2>4 DEF Progress, t
<1> QED
  BY <1>5, <1>6

(* Nothing else changes with a fill.                                        *)
LEMMA TurnSameBut ==
  ASSUME NEW R, IsBook(R), NEW o \in R, NEW n \in Nat \ {0}, NEW S, NEW lost,
         NEW Q, Q = (R \ {o}) \cup (IF o.qty > n THEN {Reduced(o, n)} ELSE {})
  PROVE  SameBut(o.id, R, S, lost, Q, S, lost)
<1>1. o.qty > n => Reduced(o, n).id = o.id
  BY ReducedIs DEF IsBook
<1> QED
  BY <1>1 DEF SameBut

(* A trade advances the order in work and the resting order.                *)
LEMMA TradeShown ==
  ASSUME NEW t, NEW b, NEW R, NEW S, NEW lost, NEW w, Shown(t, b, R, S, lost, w), w.left \in Nat,
         IsBook(R), NEW o \in R, o.id # w.id, o.id \notin S, NEW n \in Nat \ {0}, n <= o.qty, n <= w.left,
         NEW Q, Q = (R \ {o}) \cup (IF o.qty > n THEN {Reduced(o, n)} ELSE {}),
         NEW u, Nearer(u, w, n), NEW side \in Side
  PROVE  Shown(t, StagedEvent(b, TradeEvent(w.id, side, FillOf(o, n))), Q, S, lost, u)
<1> DEFINE ev == TradeEvent(w.id, side, FillOf(o, n))
           agg == gw_from_me(b, w.id)
           rest == gw_from_me(b, o.id)
           p == StagedEvent(b, ev)
           e == TradeTold(ev, AccountOf(b, agg), AccountOf(b, rest))
<1>1. Registry(b) /\ Queue(b) /\ Matched(b, t.last) /\ Streams(t, b, w) /\ 0 \notin DOMAIN b.slots
      /\ 0 \notin DOMAIN b.me_to_gw
  BY DEF Shown, Matched, Registry
<1>2. ev.type = "TRADE" /\ ev.id = w.id /\ ev.resting_id = o.id /\ ev.side = side /\ ev.qty = n
  BY DEF TradeEvent, FillOf
<1> HIDE DEF ev
<1>3. p = Traded(b, agg, rest, ev)
  <2>1. Staged(ev)
    BY <1>2 DEF Staged, bus_publish, Topic
  <2> QED
    BY <1>2, <2>1, Zenon DEF StagedEvent, Translate
<1>4. /\ w.id \in DOMAIN b.me_to_gw => agg = b.me_to_gw[w.id] /\ agg \in DOMAIN b.slots /\ b.slots[agg].me_id = w.id
      /\ w.id \notin DOMAIN b.me_to_gw => agg \notin DOMAIN b.slots
  BY <1>1 DEF gw_from_me, Registry, Matched
<1>5. /\ o.id \in DOMAIN b.me_to_gw => rest = b.me_to_gw[o.id] /\ rest \in DOMAIN b.slots /\ b.slots[rest].me_id = o.id
      /\ o.id \notin DOMAIN b.me_to_gw => rest \notin DOMAIN b.slots
  BY <1>1 DEF gw_from_me, Registry, Matched
<1> HIDE DEF agg, rest, p
<1>6. agg \in DOMAIN b.slots \/ rest \in DOMAIN b.slots => agg # rest
  BY <1>4, <1>5
<1> DEFINE s == Filled(b.slots[agg], n)
           r == Filled(b.slots[rest], n)
<1>7. PICK b1, b2, b3 : TradeSteps(p, b, agg, rest, ev, b1, b2, b3)
  BY <1>1, <1>3, TradedSteps
<1>8. agg \in DOMAIN b.slots =>
        /\ Coming(s, u) /\ Progress(s, b.slots[agg]) /\ SameOrder(s, b.slots[agg]) /\ Pending(t, b, agg, w)
  <2> SUFFICES ASSUME agg \in DOMAIN b.slots
               PROVE  /\ Coming(s, u) /\ Progress(s, b.slots[agg]) /\ SameOrder(s, b.slots[agg])
                      /\ Pending(t, b, agg, w)
    OBVIOUS
  <2>1. w.id \in DOMAIN b.me_to_gw
    BY <1>4
  <2>2. Coming(b.slots[agg], w) /\ DOMAIN b.slots[agg] = SlotFields
    BY <1>1, <1>4, <2>1 DEF Shown, Shows, Registry
  <2>3. Pending(t, b, agg, w)
    BY <1>1, <1>4, <2>1 DEF Pending
  <2> QED
    BY <2>2, <2>3, FilledComing
<1>9. rest \in DOMAIN b.slots =>
        /\ Fits(r, o.id, Q, S, lost) /\ Progress(r, b.slots[rest]) /\ SameOrder(r, b.slots[rest])
  <2> SUFFICES ASSUME rest \in DOMAIN b.slots
               PROVE  Fits(r, o.id, Q, S, lost) /\ Progress(r, b.slots[rest]) /\ SameOrder(r, b.slots[rest])
    OBVIOUS
  <2>1. o.id \in DOMAIN b.me_to_gw
    BY <1>5
  <2>2. Fits(b.slots[rest], o.id, R, S, lost) /\ DOMAIN b.slots[rest] = SlotFields
    BY <1>1, <1>5, <2>1 DEF Shown, Shows, Registry
  <2> QED
    BY <2>2, FilledFits
<1>10. /\ OneSlot(b1, b, agg, s) /\ Registry(b1) /\ Queue(b1) /\ SameRegistry(b1, b)
       /\ OneSlot(b2, b1, rest, Filled(b1.slots[rest], n)) /\ Registry(b2) /\ Queue(b2) /\ SameRegistry(b2, b1)
       /\ Pushed(b3, b2, e) /\ Registry(b3) /\ Queue(b3) /\ SameOrders(b3, b2)
       /\ IF rest \in DOMAIN b.slots THEN Pushed(p, b3, Snapshot(rest, b3.slots[rest])) ELSE p = b3
       /\ Registry(p) /\ Queue(p) /\ SameOrders(p, b3)
  BY <1>2, <1>7 DEF TradeSteps
<1>11. Filled(b1.slots[rest], n) = r \/ rest \notin DOMAIN b1.slots
  BY <1>6, <1>10 DEF OneSlot
<1> HIDE DEF s, r, e
<1>12. Streams(t, b1, w)
  BY <1>1, <1>8, <1>10, ChangeStreams
<1> DEFINE c == push_event(b1, e)
<1>13. Pushed(c, b1, e)
  BY DEF Pushed
<1> HIDE DEF c
<1>14. Registry(c) /\ Queue(c) /\ SameOrders(c, b1)
  BY <1>10, <1>13, PushedKeeps
<1>15. Streams(t, c, w) /\ c.evq # <<>>
  BY <1>2, <1>10, <1>12, <1>13, TradeStreams DEF e
<1>16. OneSlot(b3, c, rest, Filled(b1.slots[rest], n))
  BY <1>10, <1>13, PushCommutes
<1>17. DOMAIN c.slots = DOMAIN b.slots /\ (rest \in DOMAIN b.slots => c.slots[rest] = b.slots[rest])
  BY <1>6, <1>10, <1>14 DEF OneSlot, SameOrders
<1>18. \A x \in DOMAIN c.slots : Pending(t, c, x, u) <=> Pending(t, c, x, w)
  BY DEF Pending, Nearer
<1>19. Streams(t, p, u) /\ p.evq # <<>>
  <2>1. CASE rest \in DOMAIN b.slots
    <3>1. OneSlot(b3, c, rest, r) /\ SameOrder(r, c.slots[rest]) /\ Progress(r, c.slots[rest])
          /\ rest \in DOMAIN c.slots
      <4>1. DOMAIN b1.slots = DOMAIN b.slots
        BY <1>10 DEF OneSlot
      <4> QED
        BY <1>9, <1>11, <1>16, <1>17, <2>1, <4>1
    <3>2. Pushed(p, b3, Snapshot(rest, b3.slots[rest]))
      BY <1>10, <2>1
    <3> QED
      BY <1>10, <1>14, <1>15, <1>18, <3>1, <3>2, SnapshotStreams
  <2>2. CASE rest \notin DOMAIN b.slots
    <3>1. p = b3
      BY <1>10, <2>2
    <3>2. rest \notin DOMAIN c.slots
      BY <1>17, <2>2
    <3>3. Streams(t, b3, w)
      BY <1>14, <1>15, <1>16, <3>2, ChangeStreams
    <3>4. \A x \in DOMAIN b3.slots : Pending(t, b3, x, u) <=> Pending(t, b3, x, w)
      BY DEF Pending, Nearer
    <3>5. Streams(t, b3, u)
      BY <3>3, <3>4, StreamsSame
    <3>6. b3.evq = c.evq
      BY <1>16 DEF OneSlot
    <3> QED
      BY <1>15, <3>1, <3>5, <3>6
  <2> QED
    BY <2>1, <2>2
<1>20. SameRegistry(p, b)
  <2>1. SameRegistry(b2, b)
    BY <1>10, SameRegistryChain
  <2>2. SameRegistry(b3, b)
    BY <1>10, <2>1 DEF SameRegistry, SameOrders
  <2> QED
    BY <1>10, <2>2 DEF SameRegistry, SameOrders
<1>21. Matched(p, t.last)
  BY <1>1, <1>10, <1>20, MatchedSame
<1>22. /\ p.me_to_gw = b.me_to_gw /\ DOMAIN p.slots = DOMAIN b.slots
       /\ \A x \in DOMAIN b.slots : x # agg /\ x # rest => p.slots[x] = b.slots[x]
       /\ agg \in DOMAIN b.slots => p.slots[agg] = s
       /\ rest \in DOMAIN b.slots => p.slots[rest] = r
  BY <1>6, <1>10, <1>11 DEF OneSlot, SameOrders
<1>23. Shows(p, Q, S, lost, u)
  <2> SUFFICES ASSUME NEW x \in DOMAIN b.me_to_gw
               PROVE  IF x = u.id THEN Coming(p.slots[b.me_to_gw[x]], u)
                      ELSE Fits(p.slots[b.me_to_gw[x]], x, Q, S, lost)
    BY <1>22 DEF Shows
  <2>1. CASE x = w.id
    BY <1>4, <1>8, <1>22, <2>1 DEF Nearer
  <2>2. CASE x = o.id
    BY <1>5, <1>9, <1>22, <2>2 DEF Nearer
  <2>3. CASE x # w.id /\ x # o.id
    <3>1. b.me_to_gw[x] \in DOMAIN b.slots /\ b.slots[b.me_to_gw[x]].me_id = x
      BY <1>1 DEF Registry, Matched
    <3>2. b.me_to_gw[x] # agg /\ b.me_to_gw[x] # rest
      BY <1>4, <1>5, <2>3, <3>1
    <3>3. Fits(b.slots[b.me_to_gw[x]], x, R, S, lost)
      BY <2>3 DEF Shown, Shows
    <3>4. Fits(b.slots[b.me_to_gw[x]], x, Q, S, lost)
      BY <2>3, <3>3, TurnSameBut, FitsSame
    <3> QED
      BY <1>22, <2>3, <3>1, <3>2, <3>4 DEF Nearer
  <2> QED
    BY <2>1, <2>2, <2>3
<1>24. Waiting(t, p)
  <2>1. agg \in DOMAIN b.slots => s.me_id # 0
    BY <1>1, <1>4, <1>8 DEF SameOrder
  <2>2. rest \in DOMAIN b.slots => r.me_id # 0
    BY <1>1, <1>5, <1>9 DEF SameOrder
  <2> QED
    BY <1>22, <2>1, <2>2 DEF Shown, Waiting
<1>25. Shown(t, p, Q, S, lost, u)
  BY <1>10, <1>19, <1>21, <1>22, <1>23, <1>24 DEF Shown, Heard
<1> QED
  BY <1>25 DEF p, ev

-----------------------------------------------------------------------------
(* What is shown, one call of the engine at a time. *)

(* Staging one event more. *)
LEMMA ProcessedAppend ==
  ASSUME NEW b, NEW s, IsSeq(s), NEW ev
  PROVE  process_staged_events(b, Append(s, ev)) = StagedEvent(process_staged_events(b, s), ev)
<1> DEFINE N == Len(s)
           t == Append(s, ev)
<1>1. /\ N \in Nat /\ Len(t) = N + 1 /\ t[N + 1] = ev
      /\ \A k \in 1..N : t[k] = s[k]
  BY AppendIs
<1> HIDE DEF t
<1>2. PICK g : /\ g[0] = b /\ process_staged_events(b, s) = g[N]
               /\ \A n \in 1..N : g[n] = StagedEvent(g[n - 1], s[n])
  BY <1>1, ProcessedIs
<1>3. PICK h : /\ h[0] = b /\ process_staged_events(b, t) = h[N + 1]
               /\ \A n \in 1..(N + 1) : h[n] = StagedEvent(h[n - 1], t[n])
  <2> DEFINE M == Len(t)
  <2>1. M \in Nat
    BY <1>1
  <2>2. \E h : /\ h[0] = b
               /\ \A n \in 1..M : h[n] = StagedEvent(h[n - 1], t[n])
               /\ process_staged_events(b, t) = h[M]
    BY <2>1, ProcessedIs
  <2> QED
    BY <1>1, <2>2
<1> DEFINE G == {n \in Nat : n <= N => h[n] = g[n]}
<1>4. 0 \in G
  BY <1>2, <1>3
<1>5. ASSUME NEW n \in Nat, n \in G PROVE n + 1 \in G
  <2> SUFFICES ASSUME n + 1 <= N PROVE h[n + 1] = g[n + 1]
    OBVIOUS
  <2>1. n <= N /\ n + 1 \in 1..N /\ n + 1 \in 1..(N + 1) /\ (n + 1) - 1 = n
    BY <1>1
  <2>2. h[n] = g[n]
    BY <1>5, <2>1
  <2>3. h[n + 1] = StagedEvent(h[n], t[n + 1]) /\ g[n + 1] = StagedEvent(g[n], s[n + 1])
    <3>1. h[n + 1] = StagedEvent(h[(n + 1) - 1], t[n + 1])
      BY <1>3, <2>1, Zenon
    <3>2. g[n + 1] = StagedEvent(g[(n + 1) - 1], s[n + 1])
      BY <1>2, <2>1, Zenon
    <3> QED
      BY <2>1, <3>1, <3>2
  <2> QED
    BY <1>1, <2>1, <2>2, <2>3
<1>6. Nat \subseteq G
  <2> HIDE DEF G
  <2> QED
    BY <1>4, <1>5, SetOfNats
<1>7. h[N] = g[N]
  BY <1>1, <1>6
<1>8. N + 1 \in 1..(N + 1) /\ (N + 1) - 1 = N
  BY <1>1
<1>9. h[N + 1] = StagedEvent(h[(N + 1) - 1], t[N + 1])
  BY <1>3, <1>8, Zenon
<1> QED
  BY <1>1, <1>2, <1>3, <1>7, <1>8, <1>9 DEF t

(* An event is translated last. *)
LEMMA QueuedSeen ==
  ASSUME NEW base, NEW e, Queues(e), NEW p, NEW ev, Queued(p, e, ev)
  PROVE  /\ Queues(p)
         /\ p.dropped = 0 => e.dropped = 0 /\ Seen(base, p) = StagedEvent(Seen(base, e), ev)
<1>1. CASE p.eq = Append(e.eq, ev) /\ p.dropped = e.dropped
  <2>1. IsSeq(p.eq)
    BY <1>1, AppendIs DEF Queues
  <2>2. Seen(base, p) = StagedEvent(Seen(base, e), ev)
    BY <1>1, ProcessedAppend DEF Queues, Seen
  <2> QED
    BY <1>1, <2>1, <2>2 DEF Queues
<1>2. CASE p.eq = e.eq /\ p.dropped = e.dropped + 1
  BY <1>2 DEF Queues
<1> QED
  BY <1>1, <1>2 DEF Queued

(* An event that shows what has changed. *)
LEMMA QueuedSees ==
  ASSUME NEW t, NEW base, NEW e, Queues(e), NEW R, NEW S, NEW w, Sees(t, base, e, R, S, w),
         NEW p, NEW ev, Queued(p, e, ev), p.lost = e.lost, NEW Q, NEW T, NEW u,
         \A b : Shown(t, b, R, S, e.lost, w) => Shown(t, StagedEvent(b, ev), Q, T, e.lost, u)
  PROVE  Queues(p) /\ Sees(t, base, p, Q, T, u)
<1>1. /\ Queues(p)
      /\ p.dropped = 0 => e.dropped = 0 /\ Seen(base, p) = StagedEvent(Seen(base, e), ev)
  BY QueuedSeen
<1>2. ASSUME p.dropped = 0 PROVE Shown(t, Seen(base, p), Q, T, p.lost, u)
  <2> DEFINE b == Seen(base, e)
  <2>1. Shown(t, b, R, S, e.lost, w)
    BY <1>1, <1>2 DEF Sees
  <2> HIDE DEF b
  <2>2. Shown(t, StagedEvent(b, ev), Q, T, e.lost, u)
    BY <2>1
  <2> QED
    BY <1>1, <1>2, <2>2 DEF b
<1> QED
  BY <1>1, <1>2 DEF Sees

(* maybe_emit_tob tells no order. *)
LEMMA TopSeen ==
  ASSUME NEW base, NEW e, DOMAIN e = EngineFields, Queues(e)
  PROVE  LET p == maybe_emit_tob(e)
         IN  /\ Queues(p) /\ SameCore(p, e)
             /\ p.dropped = 0 => e.dropped = 0 /\ Seen(base, p) = Seen(base, e)
<1> DEFINE tob == me_top_of_book(e)
           ev == [type |-> "BOOK_UPDATED", tob |-> tob]
           q == eq_push(e, ev)
           p == [q EXCEPT !.last_tob = tob]
<1>1. maybe_emit_tob(e) = IF tob = e.last_tob THEN e ELSE p
  BY Zenon DEF maybe_emit_tob
<1>2. CASE tob = e.last_tob
  <2>1. SameCore(e, e)
    BY DEF SameCore, SameTrade
  <2> QED
    BY <1>1, <1>2, <2>1
<1>3. CASE tob # e.last_tob
  <2> HIDE DEF tob
  <2>1. ev.type = "BOOK_UPDATED"
    OBVIOUS
  <2> HIDE DEF ev
  <2>2. SameBook(q, e) /\ SameTrade(q, e) /\ Queued(q, e, ev)
    BY PushIs
  <2> HIDE DEF q
  <2>3. /\ DOMAIN p = EngineFields
        /\ p.resting = q.resting /\ p.roots = q.roots /\ p.next_order_id = q.next_order_id
        /\ p.clock = q.clock /\ p.stops = q.stops /\ p.lost = q.lost
        /\ p.eq = q.eq /\ p.dropped = q.dropped
        /\ p.last_trade_price = q.last_trade_price /\ p.last_taker = q.last_taker
    BY <2>2 DEF SameBook, EngineFields
  <2> HIDE DEF p
  <2>4. SameCore(p, e) /\ Queued(p, e, ev)
    BY <2>2, <2>3 DEF SameCore, SameBook, SameTrade, Queued
  <2>5. /\ Queues(p)
        /\ p.dropped = 0 => e.dropped = 0 /\ Seen(base, p) = StagedEvent(Seen(base, e), ev)
    BY <2>4, QueuedSeen
  <2>6. StagedEvent(Seen(base, e), ev) = Seen(base, e)
    BY <2>1, SilentEvent
  <2> QED
    BY <1>1, <1>3, <2>4, <2>5, <2>6
<1> QED
  BY <1>2, <1>3

LEMMA TopSees ==
  ASSUME NEW t, NEW base, NEW e, DOMAIN e = EngineFields, Queues(e), NEW R, NEW S, NEW w,
         Sees(t, base, e, R, S, w)
  PROVE  LET p == maybe_emit_tob(e) IN Queues(p) /\ SameCore(p, e) /\ Sees(t, base, p, R, S, w)
<1> DEFINE p == maybe_emit_tob(e)
<1>1. /\ Queues(p) /\ SameCore(p, e)
      /\ p.dropped = 0 => e.dropped = 0 /\ Seen(base, p) = Seen(base, e)
  BY TopSeen
<1> HIDE DEF p
<1>2. Sees(t, base, p, R, S, w)
  BY <1>1 DEF Sees, SameCore
<1> QED
  BY <1>1, <1>2 DEF p

(* The state of an order after an event of its own, in the cases. *)
LEMMA CancelledSlot ==
  ASSUME NEW s, DOMAIN s = SlotFields, NEW ev, ev.type = "CANCELLED"
  PROVE  LET n == Told(Advanced(s, ev), ev) IN n.touched /\ n.status = "CANCELLED"
<1> DEFINE n == Told(Advanced(s, ev), ev)
<1>1. n.touched = TRUE /\ n.status = StatusOf(ev, n.qty_filled)
  BY ToldSlot
<1> HIDE DEF n
<1>2. n.status = "CANCELLED"
  BY <1>1 DEF StatusOf
<1> QED
  BY <1>1, <1>2 DEF n

(* A modification, or a live state: what remains is told. *)
LEMMA LiveSlot ==
  ASSUME NEW s, DOMAIN s = SlotFields, NEW ev,
         ev.type \in {"ACCEPTED", "PARTIAL", "MODIFIED", "STOP_TRIGGERED"}, ev.qty_remain # 0
  PROVE  LET n == Told(Advanced(s, ev), ev)
         IN  /\ n.touched /\ Live(n) /\ n.qty_remain = ev.qty_remain /\ n.side = s.side /\ n.type = s.type
             /\ n.price = IF ev.type = "MODIFIED" THEN ev.price ELSE s.price
<1> DEFINE n == Told(Advanced(s, ev), ev)
<1>1. /\ n.touched = TRUE /\ n.status = StatusOf(ev, n.qty_filled) /\ SameOrder(n, s)
      /\ ev.type = "MODIFIED" =>
           /\ n.price = ev.price /\ n.qty_remain = ev.qty_remain /\ n.qty_filled = s.qty_filled
      /\ ev.type \notin {"CANCELLED", "MODIFIED"} =>
           /\ n.price = s.price /\ n.qty_remain = ev.qty_remain
           /\ n.qty_filled = Greater(ev.qty_filled, s.qty_filled)
  BY ToldSlot
<1> HIDE DEF n
<1>2. n.status \in {"OPEN", "PARTIAL"}
  <2>1. CASE ev.type = "PARTIAL"
    BY <1>1, <2>1 DEF StatusOf
  <2>2. CASE ev.type # "PARTIAL"
    <3>1. ev.type \notin {"CANCELLED", "REJECTED", "FILLED", "PARTIAL"}
      BY <2>2
    <3>2. StatusOf(ev, n.qty_filled)
            = IF ev.qty_remain = 0 THEN "FILLED" ELSE IF n.qty_filled > 0 THEN "PARTIAL" ELSE "OPEN"
      BY <3>1 DEF StatusOf
    <3> QED
      BY <1>1, <3>2
  <2> QED
    BY <2>1, <2>2
<1>3. /\ n.qty_remain = ev.qty_remain
      /\ n.price = IF ev.type = "MODIFIED" THEN ev.price ELSE s.price
  <2>1. CASE ev.type = "MODIFIED"
    BY <1>1, <2>1
  <2>2. CASE ev.type # "MODIFIED"
    BY <1>1, <2>2
  <2> QED
    BY <2>1, <2>2
<1> QED
  BY <1>1, <1>2, <1>3 DEF n, Live, SameOrder

(* The end of an order: filled, or refused. *)
LEMMA EndedSlot ==
  ASSUME NEW s, DOMAIN s = SlotFields, NEW ev, ev.type \in {"FILLED", "REJECTED", "CANCELLED"}
  PROVE  LET n == Told(Advanced(s, ev), ev) IN n.touched /\ n.status = ev.type /\ ~Live(n)
<1> DEFINE n == Told(Advanced(s, ev), ev)
<1>1. n.touched = TRUE /\ n.status = StatusOf(ev, n.qty_filled)
  BY ToldSlot
<1> HIDE DEF n
<1>2. n.status = ev.type
  BY <1>1 DEF StatusOf
<1> QED
  BY <1>1, <1>2 DEF n, Live

(* A live order may end in any way, one that was filled only so. *)
LEMMA EndTells ==
  ASSUME NEW ev, ev.type \in {"FILLED", "REJECTED", "CANCELLED"}, NEW R, NEW S, NEW lost, NEW w,
         NEW Q, NEW T, Gone(ev.id, Q, T),
         IF ev.id = w.id THEN w.left > 0 \/ (w.left = 0 /\ ev.type = "FILLED") ELSE ev.id \in Ids(R) \/ ev.id \in S
  PROVE  TellsOwn(ev, R, S, lost, w, Q, T, lost)
<1>1. ASSUME NEW s, DOMAIN s = SlotFields, ~Dead(s),
             IF ev.id = w.id THEN Coming(s, w) ELSE Fits(s, ev.id, R, S, lost)
      PROVE  LET n == Told(Advanced(s, ev), ev) IN Fits(n, ev.id, Q, T, lost) /\ Progress(n, s)
  <2> DEFINE n == Told(Advanced(s, ev), ev)
  <2>1. n.touched /\ n.status = ev.type /\ ~Live(n)
    BY <1>1, EndedSlot
  <2> HIDE DEF n
  <2>2. Fits(n, ev.id, Q, T, lost)
    BY <2>1 DEF Fits, Gone, Ids
  <2>3. Live(s) \/ (s.status = "FILLED" /\ ev.type = "FILLED")
    <3>1. CASE ev.id = w.id
      <4>1. CASE w.left > 0
        BY <1>1, <3>1, <4>1 DEF Coming
      <4>2. CASE w.left = 0 /\ ev.type = "FILLED"
        BY <1>1, <3>1, <4>2 DEF Coming
      <4> QED
        BY <3>1, <4>1, <4>2
    <3>2. CASE ev.id # w.id
      BY <1>1, <3>2 DEF Fits, Ids
    <3> QED
      BY <3>1, <3>2
  <2> QED
    BY <2>1, <2>2, <2>3 DEF Progress, n
<1>2. ASSUME ev.id # w.id, NEW s, Dead(s), Fits(s, ev.id, R, S, lost)
      PROVE  Fits(s, ev.id, Q, T, lost)
  BY <1>2 DEF Fits, Dead, Live, Gone, Ids
<1> QED
  BY <1>1, <1>2 DEF TellsOwn

(* An event of an order of its own, in the engine's queue. *)
LEMMA OwnEventSees ==
  ASSUME NEW t, NEW base, NEW e, DOMAIN e = EngineFields, Queues(e), NEW R, NEW S, NEW w, Sees(t, base, e, R, S, w),
         NEW ev, OwnEvent(ev), w.id \in {0, ev.id}, NEW Q, NEW T,
         SameBut(ev.id, R, S, e.lost, Q, T, e.lost), ev.id # 0 => TellsOwn(ev, R, S, e.lost, w, Q, T, e.lost)
  PROVE  LET p == eq_push(e, ev)
         IN  Queues(p) /\ SameBook(p, e) /\ SameTrade(p, e) /\ Sees(t, base, p, Q, T, NoOrder)
<1> DEFINE p == eq_push(e, ev)
<1>1. SameBook(p, e) /\ SameTrade(p, e) /\ Queued(p, e, ev)
  BY PushIs
<1> HIDE DEF p
<1>2. p.lost = e.lost
  BY <1>1 DEF SameBook
<1>3. \A b : Shown(t, b, R, S, e.lost, w) => Shown(t, StagedEvent(b, ev), Q, T, e.lost, NoOrder)
  BY OwnEventShown
<1>4. Queues(p) /\ Sees(t, base, p, Q, T, NoOrder)
  BY <1>1, <1>2, <1>3, QueuedSees
<1> QED
  BY <1>1, <1>4 DEF p

(* The engine's queue is one. *)
LEMMA TypedQueues ==
  ASSUME NEW e, EngineTyped(e)
  PROVE  DOMAIN e = EngineFields /\ Queues(e)
BY DEF EngineTyped, Queues

(* Another engine of which the same is to be seen. *)
LEMMA InViewSame ==
  ASSUME NEW t, NEW base, NEW e, InView(t, base, e), NEW p, p.resting = e.resting, p.stops = e.stops,
         p.lost = e.lost, SameQueue(p, e)
  PROVE  InView(t, base, p)
<1>1. StopIds(p) = StopIds(e) /\ Seen(base, p) = Seen(base, e)
  BY DEF StopIds, ActiveStops, SameQueue, Seen
<1> QED
  BY <1>1 DEF InView, Sees, SameQueue

(* The ids of dormant stops without one of them. *)
LEMMA DisarmedIds ==
  ASSUME NEW e, EngineTyped(e), Numbered(e), NEW p, NEW i \in ActiveStops(e), Disarmed(p, e, i)
  PROVE  /\ StopIds(p) = StopIds(e) \ {e.stops[i].id}
         /\ e.stops[i].id \in StopIds(e) /\ e.stops[i].id \notin Ids(e.resting)
<1>1. i \in Slots
  BY DEF ActiveStops
<1>2. ActiveStops(p) = ActiveStops(e) \ {i} /\ \A j \in ActiveStops(p) : p.stops[j] = e.stops[j]
  BY <1>1, DisarmedStops
<1> QED
  BY <1>2 DEF StopIds, Numbered

(* A stop leaves the pool, cancelled or triggered. *)
LEMMA DisarmSees ==
  ASSUME NEW t, NEW base, NEW e, EngineTyped(e), Numbered(e), InView(t, base, e), NEW i \in ActiveStops(e),
         NEW ev, ev.id = e.stops[i].id,
         ev.type = "CANCELLED" \/ (ev.type = "STOP_TRIGGERED" /\ ev.qty_remain # 0)
  PROVE  LET p == eq_push(Deactivate(e, i), ev) IN InView(t, base, p)
<1> DEFINE a == Deactivate(e, i)
           p == eq_push(a, ev)
           R == e.resting
           S == StopIds(e)
           T == S \ {ev.id}
<1>1. DOMAIN e = EngineFields /\ Queues(e)
  BY TypedQueues
<1>2. /\ DOMAIN a = EngineFields /\ a.resting = R /\ a.roots = e.roots
      /\ a.next_order_id = e.next_order_id /\ a.clock = e.clock
      /\ a.stops = [e.stops EXCEPT ![i] = NoStop]
      /\ a.last_trade_price = e.last_trade_price /\ a.last_taker = e.last_taker
      /\ a.lost = e.lost /\ a.eq = e.eq /\ a.dropped = e.dropped
  BY <1>1 DEF Deactivate, EngineFields
<1> HIDE DEF a
<1>3. StopIds(a) = T /\ ev.id \in S /\ ev.id \notin Ids(R)
  <2>1. Disarmed(a, e, i)
    BY <1>2 DEF Disarmed, SameTrade
  <2> QED
    BY <2>1, DisarmedIds
<1>4. Queues(a) /\ Sees(t, base, a, R, S, NoOrder)
  BY <1>1, <1>2 DEF Queues, InView, Sees, Seen
<1> HIDE DEF R, S
<1>5. SameBut(ev.id, R, S, a.lost, R, T, a.lost)
  BY DEF SameBut
<1>6. ASSUME ev.id # 0 PROVE TellsOwn(ev, R, S, a.lost, NoOrder, R, T, a.lost)
  <2>1. ev.id # NoOrder.id
    BY <1>6 DEF NoOrder
  <2>2. CASE ev.type = "CANCELLED"
    <3>1. Gone(ev.id, R, T)
      BY <1>3 DEF Gone
    <3> HIDE DEF T
    <3> QED
      BY <1>3, <2>1, <2>2, <3>1, EndTells
  <2>3. CASE ev.type = "STOP_TRIGGERED" /\ ev.qty_remain # 0
    <3>1. ASSUME NEW s, DOMAIN s = SlotFields, ~Dead(s), Fits(s, ev.id, R, S, a.lost)
          PROVE  LET n == Told(Advanced(s, ev), ev) IN Fits(n, ev.id, R, T, a.lost) /\ Progress(n, s)
      <4> DEFINE n == Told(Advanced(s, ev), ev)
      <4>1. n.touched /\ Live(n) /\ n.type = s.type
        BY <2>3, <3>1, LiveSlot
      <4> HIDE DEF n
      <4>2. Live(s) /\ s.type \in StopTypes
        BY <1>3, <3>1 DEF Fits
      <4>3. \A o \in R : o.id # ev.id
        BY <1>3 DEF Ids
      <4> QED
        BY <4>1, <4>2, <4>3 DEF Fits, Progress, n
    <3>2. ASSUME NEW s, Dead(s), Fits(s, ev.id, R, S, a.lost)
          PROVE  Fits(s, ev.id, R, T, a.lost)
      BY <1>3, <3>2 DEF Fits, Dead, Live
    <3> QED
      BY <2>1, <3>1, <3>2 DEF TellsOwn
  <2> QED
    BY <2>2, <2>3
<1>7. OwnEvent(ev) /\ NoOrder.id \in {0, ev.id}
  BY DEF OwnEvent, NoOrder
<1>8. SameBook(p, a) /\ Sees(t, base, p, R, T, NoOrder)
  <2> HIDE DEF T
  <2> QED
    BY <1>2, <1>4, <1>5, <1>6, <1>7, OwnEventSees
<1> HIDE DEF p
<1>9. p.resting = R /\ StopIds(p) = T
  BY <1>2, <1>3, <1>8 DEF SameBook, StopIds, ActiveStops
<1> QED
  BY <1>8, <1>9 DEF InView, p, a

(* The stop that is withdrawn is told as cancelled. *)
LEMMA WithdrawStopSees ==
  ASSUME NEW t, NEW base, NEW e, EngineTyped(e), Numbered(e), InView(t, base, e), NEW i \in ActiveStops(e)
  PROVE  InView(t, base, WithdrawStop(e, i))
<1> DEFINE s == e.stops[i]
           ev == [type |-> "CANCELLED", id |-> s.id, order_type |-> s.orig_type,
                  qty_original |-> s.qty, qty_remain |-> 0, qty_filled |-> 0]
<1>1. WithdrawStop(e, i) = eq_push(Deactivate(e, i), ev)
  BY Zenon DEF WithdrawStop, emit_order_event
<1>2. ev.type = "CANCELLED" /\ ev.id = s.id
  OBVIOUS
<1> HIDE DEF ev
<1> QED
  BY <1>1, <1>2, DisarmSees

(* me_cancel_stop, whether or not the id is a dormant stop's. *)
LEMMA CancelStopSees ==
  ASSUME NEW t, NEW base, NEW e, EngineTyped(e), Numbered(e), InView(t, base, e), NEW id
  PROVE  InView(t, base, me_cancel_stop(e, id))
<1> DEFINE at == {i \in ActiveStops(e) : e.stops[i].id = id}
           i == CHOOSE i \in at : TRUE
<1>1. me_cancel_stop(e, id) = IF at = {} THEN e ELSE WithdrawStop(e, i)
  BY Zenon DEF me_cancel_stop
<1>2. at # {} => i \in ActiveStops(e)
  OBVIOUS
<1> HIDE DEF i, at
<1> QED
  BY <1>1, <1>2, WithdrawStopSees

(* An event of a registered order that rests or is dormant is told. *)
LEMMA OwnEventNoted ==
  ASSUME NEW t, NEW base, NEW e, DOMAIN e = EngineFields, Queues(e), NEW R, NEW S, Sees(t, base, e, R, S, NoOrder),
         NEW ev, OwnEvent(ev), NEW Q, NEW T,
         SameBut(ev.id, R, S, e.lost, Q, T, e.lost), ev.id # 0 => TellsOwn(ev, R, S, e.lost, NoOrder, Q, T, e.lost),
         ev.id \in Ids(R) \/ ev.id \in S, KnownTo(base, e, ev.id)
  PROVE  Noted(base, eq_push(e, ev))
<1> DEFINE p == eq_push(e, ev)
           b == Seen(base, e)
<1>1. Queued(p, e, ev)
  BY PushIs
<1> HIDE DEF p
<1>2. p.dropped = 0 => e.dropped = 0 /\ Seen(base, p) = StagedEvent(b, ev)
  BY <1>1, QueuedSeen
<1>3. ASSUME p.dropped = 0 PROVE Seen(base, p).evq # <<>>
  <2>1. Shown(t, b, R, S, e.lost, NoOrder) /\ ev.id \in DOMAIN b.me_to_gw
    BY <1>2, <1>3 DEF Sees, KnownTo
  <2> HIDE DEF b
  <2>2. ev.id # 0
    BY <2>1 DEF Shown, Matched
  <2>3. Fits(b.slots[b.me_to_gw[ev.id]], ev.id, R, S, e.lost)
    BY <2>1, <2>2 DEF Shown, Shows, NoOrder
  <2>4. ~Dead(b.slots[b.me_to_gw[ev.id]])
    BY <2>3 DEF Fits, Dead, Live, Ids
  <2>5. NoOrder.id \in {0, ev.id}
    BY DEF NoOrder
  <2>6. StagedEvent(b, ev).evq # <<>>
    BY <2>1, <2>4, <2>5, OwnEventShown
  <2> QED
    BY <1>2, <1>3, <2>6
<1> QED
  BY <1>3 DEF Noted, p

(* me_cancel_order *)
LEMMA CancelOrderSees ==
  ASSUME NEW t, NEW base, NEW e, EngineTyped(e), Numbered(e), InView(t, base, e), NEW o \in e.resting
  PROVE  LET p == me_cancel_order(e, o)
         IN  InView(t, base, p) /\ (KnownTo(base, e, o.id) => Noted(base, p))
<1> DEFINE a == ob_cancel_order(e, o.id)
           ev == [type |-> "CANCELLED", id |-> o.id, order_type |-> "LIMIT", qty_original |-> o.qty,
                  qty_remain |-> 0, qty_filled |-> o.qty]
           q == eq_push(a, ev)
           p == maybe_emit_tob(q)
           R == e.resting
           S == StopIds(e)
           Q == {w \in R : w.id # o.id}
<1>1. me_cancel_order(e, o) = p
  BY Zenon DEF me_cancel_order, emit_order_event
<1>2. Removed(a, e, o.id)
  BY CancelIs
<1>3. ev.type = "CANCELLED" /\ ev.id = o.id
  OBVIOUS
<1> HIDE DEF a, ev
<1>4. DOMAIN a = EngineFields /\ a.resting = Q /\ a.lost = e.lost /\ a.stops = e.stops /\ SameQueue(a, e)
  BY <1>2 DEF Removed
<1>5. StopIds(a) = S
  BY <1>4 DEF StopIds, ActiveStops
<1>6. Queues(a) /\ Sees(t, base, a, R, S, NoOrder) /\ Seen(base, a) = Seen(base, e)
  BY <1>4, TypedQueues DEF Queues, InView, Sees, Seen, SameQueue
<1>7. o.id \notin S /\ o.id \in Ids(R)
  BY NotAStop DEF Ids
<1>8. SameBut(ev.id, R, S, a.lost, Q, S, a.lost) /\ Gone(ev.id, Q, S)
  BY <1>3, <1>7 DEF SameBut, Gone, Ids
<1> HIDE DEF R, S, Q
<1>9. ASSUME ev.id # 0 PROVE TellsOwn(ev, R, S, a.lost, NoOrder, Q, S, a.lost)
  <2>1. ev.id # NoOrder.id
    BY <1>9 DEF NoOrder
  <2> QED
    BY <1>3, <1>7, <1>8, <2>1, EndTells
<1>10. OwnEvent(ev) /\ NoOrder.id \in {0, ev.id}
  BY <1>3 DEF OwnEvent, NoOrder
<1>11. Queues(q) /\ SameBook(q, a) /\ Sees(t, base, q, Q, S, NoOrder)
  BY <1>4, <1>6, <1>8, <1>9, <1>10, OwnEventSees
<1>12. ASSUME KnownTo(base, e, o.id) PROVE Noted(base, q)
  <2>1. KnownTo(base, a, ev.id)
    BY <1>3, <1>4, <1>6, <1>12 DEF KnownTo, SameQueue
  <2> QED
    BY <1>3, <1>4, <1>6, <1>7, <1>8, <1>9, <1>10, <2>1, OwnEventNoted
<1> HIDE DEF q
<1>13. DOMAIN q = EngineFields
  BY <1>11 DEF SameBook
<1>14. Queues(p) /\ SameCore(p, q) /\ Sees(t, base, p, Q, S, NoOrder)
  BY <1>11, <1>13, TopSees
<1>15. p.dropped = 0 => q.dropped = 0 /\ Seen(base, p) = Seen(base, q)
  BY <1>11, <1>13, TopSeen
<1> HIDE DEF p
<1>16. p.resting = Q /\ StopIds(p) = S
  BY <1>4, <1>5, <1>11, <1>14 DEF SameCore, SameBook, StopIds, ActiveStops
<1> QED
  BY <1>1, <1>12, <1>14, <1>15, <1>16 DEF InView, Noted

(* me_cancel_stop tells, if it cancels. *)
LEMMA CancelStopNoted ==
  ASSUME NEW t, NEW base, NEW e, EngineTyped(e), Numbered(e), InView(t, base, e), NEW id,
         KnownTo(base, e, id)
  PROVE  LET p == me_cancel_stop(e, id) IN p = e \/ Noted(base, p)
<1> DEFINE at == {j \in ActiveStops(e) : e.stops[j].id = id}
           i == CHOOSE j \in at : TRUE
<1>1. me_cancel_stop(e, id) = IF at = {} THEN e ELSE WithdrawStop(e, i)
  BY Zenon DEF me_cancel_stop
<1>2. CASE at = {}
  BY <1>1, <1>2
<1>3. CASE at # {}
  <2>1. i \in ActiveStops(e) /\ e.stops[i].id = id
    BY <1>3
  <2> HIDE DEF i, at
  <2> DEFINE s == e.stops[i]
             ev == [type |-> "CANCELLED", id |-> s.id, order_type |-> s.orig_type,
                    qty_original |-> s.qty, qty_remain |-> 0, qty_filled |-> 0]
             a == Deactivate(e, i)
             R == e.resting
             S == StopIds(e)
             T == S \ {id}
  <2>2. WithdrawStop(e, i) = eq_push(a, ev)
    BY Zenon DEF WithdrawStop, emit_order_event
  <2>3. ev.type = "CANCELLED" /\ ev.id = id
    BY <2>1
  <2> HIDE DEF ev
  <2>4. DOMAIN e = EngineFields /\ Queues(e)
    BY TypedQueues
  <2>5. DOMAIN a = EngineFields /\ a.lost = e.lost /\ a.eq = e.eq /\ a.dropped = e.dropped
    BY <2>4 DEF Deactivate, EngineFields
  <2> HIDE DEF a
  <2>6. Queues(a) /\ Sees(t, base, a, R, S, NoOrder) /\ KnownTo(base, a, ev.id)
    BY <2>3, <2>4, <2>5 DEF Queues, InView, Sees, Seen, KnownTo
  <2>7. id \in S /\ id \notin Ids(R)
    BY <2>1 DEF StopIds, Numbered
  <2> HIDE DEF R, S
  <2>8. SameBut(ev.id, R, S, a.lost, R, T, a.lost) /\ Gone(ev.id, R, T)
    BY <2>3, <2>7 DEF SameBut, Gone
  <2> HIDE DEF T
  <2>9. ASSUME ev.id # 0 PROVE TellsOwn(ev, R, S, a.lost, NoOrder, R, T, a.lost)
    <3>1. ev.id # NoOrder.id
      BY <2>9 DEF NoOrder
    <3> QED
      BY <2>3, <2>7, <2>8, <3>1, EndTells
  <2>10. OwnEvent(ev)
    BY <2>3 DEF OwnEvent
  <2>11. Noted(base, eq_push(a, ev))
    BY <2>3, <2>5, <2>6, <2>7, <2>8, <2>9, <2>10, OwnEventNoted
  <2> QED
    BY <1>1, <1>3, <2>2, <2>11
<1> QED
  BY <1>2, <1>3

(* The order that a modification loses is shown as before, which no promise *)
(* forbids.                                                                 *)
LEMMA LostSees ==
  ASSUME NEW t, NEW base, NEW e, EngineTyped(e), InView(t, base, e), NEW id,
         NEW l, l.resting = {w \in e.resting : w.id # id}, l.stops = e.stops, l.lost = e.lost \cup {id},
         SameQueue(l, e)
  PROVE  InView(t, base, l)
<1> DEFINE b == Seen(base, e)
           R == e.resting
           S == StopIds(e)
           Q == l.resting
           gone == l.lost
<1>1. Seen(base, l) = b /\ StopIds(l) = S
  BY DEF Seen, SameQueue, StopIds, ActiveStops
<1>2. ASSUME l.dropped = 0 PROVE Shown(t, b, Q, S, gone, NoOrder)
  <2>1. Shown(t, b, R, S, e.lost, NoOrder)
    BY <1>2 DEF InView, Sees, SameQueue
  <2>2. \A x : x \in gone <=> x \in e.lost \/ x = id
    OBVIOUS
  <2>3. \A w : w \in Q <=> w \in R /\ w.id # id
    OBVIOUS
  <2> HIDE DEF b, R, S, Q, gone
  <2>4. ASSUME NEW x \in DOMAIN b.me_to_gw, Fits(b.slots[b.me_to_gw[x]], x, R, S, e.lost)
        PROVE  Fits(b.slots[b.me_to_gw[x]], x, Q, S, gone)
    <3>1. x \in Ids(R) => x \in Ids(Q) \/ x = id
      BY <2>3 DEF Ids
    <3> QED
      BY <2>2, <2>3, <2>4, <3>1 DEF Fits
  <2>5. NoOrder.id \notin DOMAIN b.me_to_gw
    BY <2>1 DEF NoOrder, Shown, Matched
  <2> QED
    BY <2>1, <2>4, <2>5, ShownElse
<1> QED
  BY <1>1, <1>2 DEF InView, Sees

(* The price and the side of a changed order. *)
LEMMA ChangedFields ==
  ASSUME NEW o \in Order, NEW price, NEW qty, NEW ts, NEW new, IsChanged(new, o, price, qty, ts)
  PROVE  new.id = o.id /\ new.side = o.side /\ new.price = price /\ new.qty = qty
BY DEF IsChanged, Order

(* me_modify_order: the order is told as it is now, or lost. *)
LEMMA ModifyOrderSees ==
  ASSUME NEW t, NEW base, NEW e, EngineTyped(e), Numbered(e), InView(t, base, e), NEW o \in e.resting,
         NEW price \in Nat, NEW qty \in Nat \ {0}
  PROVE  LET p == me_modify_order(e, o, price, qty)
         IN  InView(t, base, p) /\ (KnownTo(base, e, o.id) => Noted(base, p) \/ p.lost # {})
<1> DEFINE c == ob_cancel_order(e, o.id)
           new == [o EXCEPT !.price = price, !.qty = qty, !.ts = e.clock + 1]
           h == Holding(c, c.resting \cup {new})
           a == [h EXCEPT !.clock = @ + 1]
           ev == [type |-> "MODIFIED", id |-> o.id, order_type |-> "LIMIT", price |-> price,
                  qty_original |-> o.qty, qty_remain |-> qty, qty_filled |-> 0]
           q == eq_push(a, ev)
           p == maybe_emit_tob(q)
           l == [c EXCEPT !.clock = @ + 1, !.lost = @ \cup {o.id}]
           room == HasRoom(c.resting, o.side, price, OB_MAX_LEVELS)
           R == e.resting
           S == StopIds(e)
           Q == {w \in R : w.id # o.id} \cup {new}
<1>1. me_modify_order(e, o, price, qty) = IF room THEN p ELSE l
  BY Zenon DEF me_modify_order, emit_modified
<1>2. Removed(c, e, o.id)
  BY CancelIs
<1>3. ev.type = "MODIFIED" /\ ev.id = o.id /\ ev.qty_remain = qty /\ ev.price = price
  OBVIOUS
<1>4. DOMAIN e = EngineFields /\ o \in Order
  BY DEF EngineTyped
<1>5. new.id = o.id /\ new.side = o.side /\ new.price = price /\ new.qty = qty
  <2>1. IsChanged(new, o, price, qty, e.clock + 1)
    BY Zenon DEF IsChanged
  <2> HIDE DEF new
  <2> QED
    BY <1>4, <2>1, ChangedFields
<1> HIDE DEF c, ev, new, room
<1>6. DOMAIN c = EngineFields
  BY <1>2 DEF Removed
<1>7. CASE room
  <2>1. /\ DOMAIN h = EngineFields /\ h.resting = c.resting \cup {new} /\ h.stops = c.stops
        /\ h.lost = c.lost /\ SameQueue(h, c)
    BY <1>6, HoldingIs
  <2> HIDE DEF h
  <2>2. /\ DOMAIN a = EngineFields /\ a.resting = h.resting /\ a.stops = h.stops
        /\ a.lost = h.lost /\ SameQueue(a, h)
    BY <2>1 DEF EngineFields, SameQueue
  <2> HIDE DEF a
  <2>3. DOMAIN a = EngineFields /\ a.resting = Q /\ a.stops = e.stops /\ a.lost = e.lost /\ SameQueue(a, e)
    BY <1>2, <2>1, <2>2 DEF Removed, SameQueue
  <2>4. StopIds(a) = S
    BY <2>3 DEF StopIds, ActiveStops
  <2>5. Queues(a) /\ Sees(t, base, a, R, S, NoOrder) /\ Seen(base, a) = Seen(base, e)
    BY <2>3, TypedQueues DEF Queues, InView, Sees, Seen, SameQueue
  <2>6. /\ o.id \notin S /\ o.id \in Ids(R) /\ o \in R
        /\ \A w \in R : w.id = o.id => w = o
    BY NotAStop DEF Ids, Numbered, Apart
  <2>7. o.id \in Ids(Q) /\ (\A w \in Q : w.id = o.id => w = new)
    BY <1>5 DEF Ids
  <2>8. SameBut(ev.id, R, S, a.lost, Q, S, a.lost)
    BY <1>3, <1>5 DEF SameBut
  <2> HIDE DEF R, S, Q
  <2>9. ASSUME ev.id # 0 PROVE TellsOwn(ev, R, S, a.lost, NoOrder, Q, S, a.lost)
    <3>1. ev.id # NoOrder.id
      BY <2>9 DEF NoOrder
    <3>2. ASSUME NEW s, DOMAIN s = SlotFields, ~Dead(s), Fits(s, ev.id, R, S, a.lost)
          PROVE  LET n == Told(Advanced(s, ev), ev) IN Fits(n, ev.id, Q, S, a.lost) /\ Progress(n, s)
      <4> DEFINE n == Told(Advanced(s, ev), ev)
      <4>1. /\ n.touched /\ Live(n) /\ n.qty_remain = qty /\ n.side = s.side /\ n.type = s.type
            /\ n.price = price
        BY <1>3, <3>2, LiveSlot
      <4> HIDE DEF n
      <4>2. Live(s) /\ s.side = o.side
        BY <1>3, <2>6, <3>2 DEF Fits
      <4>3. \A w \in Q : w.id = ev.id => n.qty_remain = w.qty /\ n.side = w.side /\ n.price = w.price
        BY <1>3, <1>5, <2>7, <4>1, <4>2
      <4> QED
        BY <1>3, <2>6, <2>7, <4>1, <4>2, <4>3 DEF Fits, Progress, n
    <3>3. ASSUME NEW s, Dead(s), Fits(s, ev.id, R, S, a.lost)
          PROVE  Fits(s, ev.id, Q, S, a.lost)
      BY <1>3, <2>6, <3>3 DEF Fits, Dead, Live
    <3> QED
      BY <3>1, <3>2, <3>3 DEF TellsOwn
  <2>10. OwnEvent(ev) /\ NoOrder.id \in {0, ev.id}
    BY <1>3 DEF OwnEvent, NoOrder
  <2>11. Queues(q) /\ SameBook(q, a) /\ Sees(t, base, q, Q, S, NoOrder)
    BY <2>3, <2>5, <2>8, <2>9, <2>10, OwnEventSees
  <2>12. ASSUME KnownTo(base, e, o.id) PROVE Noted(base, q)
    <3>1. KnownTo(base, a, ev.id)
      BY <1>3, <2>3, <2>5, <2>12 DEF KnownTo, SameQueue
    <3> QED
      BY <1>3, <2>3, <2>5, <2>6, <2>8, <2>9, <2>10, <3>1, OwnEventNoted
  <2> HIDE DEF q
  <2>13. DOMAIN q = EngineFields
    BY <2>11 DEF SameBook
  <2>14. Queues(p) /\ SameCore(p, q) /\ Sees(t, base, p, Q, S, NoOrder)
    BY <2>11, <2>13, TopSees
  <2>15. p.dropped = 0 => q.dropped = 0 /\ Seen(base, p) = Seen(base, q)
    BY <2>11, <2>13, TopSeen
  <2> HIDE DEF p
  <2>16. p.resting = Q /\ StopIds(p) = S
    BY <2>3, <2>4, <2>11, <2>14 DEF SameCore, SameBook, StopIds, ActiveStops
  <2>17. InView(t, base, p)
    BY <2>14, <2>16 DEF InView
  <2>18. KnownTo(base, e, o.id) => Noted(base, p)
    BY <2>12, <2>15 DEF Noted
  <2> QED
    BY <1>1, <1>7, <2>17, <2>18
<1>8. CASE ~room
  <2>1. /\ l.resting = c.resting /\ l.stops = c.stops /\ l.lost = c.lost \cup {o.id} /\ SameQueue(l, c)
    BY <1>6 DEF EngineFields, SameQueue
  <2> HIDE DEF l
  <2>2. /\ l.resting = {w \in e.resting : w.id # o.id} /\ l.stops = e.stops
        /\ l.lost = e.lost \cup {o.id} /\ SameQueue(l, e)
    BY <1>2, <2>1 DEF Removed, SameQueue
  <2>3. InView(t, base, l)
    BY <2>2, LostSees
  <2>4. l.lost # {}
    BY <2>2
  <2> QED
    BY <1>1, <1>8, <2>3, <2>4
<1> QED
  BY <1>7, <1>8

(* An event of no order. *)
LEMMA NobodysEventSees ==
  ASSUME NEW t, NEW base, NEW e, DOMAIN e = EngineFields, Queues(e), NEW R, NEW S, NEW w, Sees(t, base, e, R, S, w),
         NEW ev, ev.type # "TRADE", ev.id = 0
  PROVE  LET p == eq_push(e, ev)
         IN  Queues(p) /\ SameBook(p, e) /\ SameTrade(p, e) /\ Sees(t, base, p, R, S, w)
<1> DEFINE p == eq_push(e, ev)
<1>1. SameBook(p, e) /\ SameTrade(p, e) /\ Queued(p, e, ev)
  BY PushIs
<1> HIDE DEF p
<1>2. p.lost = e.lost
  BY <1>1 DEF SameBook
<1>3. ASSUME NEW b, Shown(t, b, R, S, e.lost, w) PROVE Shown(t, StagedEvent(b, ev), R, S, e.lost, w)
  <2>1. ev.id \notin DOMAIN b.me_to_gw
    BY <1>3 DEF Shown, Matched
  <2>2. StagedEvent(b, ev) = b
    BY <2>1, SilentEvent
  <2> QED
    BY <1>3, <2>2
<1>4. Queues(p) /\ Sees(t, base, p, R, S, w)
  BY <1>1, <1>2, <1>3, QueuedSees
<1> QED
  BY <1>1, <1>4 DEF p

(* me_submit_stop *)
LEMMA SubmitStopSees ==
  ASSUME NEW t, NEW base, NEW e, EngineTyped(e), Numbered(e), NEW type \in StopTypes, NEW side,
         NEW trigger, NEW limit, NEW qty \in Nat \ {0}, NEW ttl,
         NEW w, w = Working(e.next_order_id, side, type, limit, qty),
         Sees(t, base, e, e.resting, StopIds(e),
              IF me_submit_stop(e, type, side, trigger, limit, qty, ttl).out.id = 0 THEN NoOrder ELSE w)
  PROVE  InView(t, base, me_submit_stop(e, type, side, trigger, limit, qty, ttl))
<1> DEFINE free == Slots \ ActiveStops(e)
           slot == CHOOSE i \in free : \A j \in free : i <= j
           stop == [active |-> TRUE, id |-> e.next_order_id, side |-> side, orig_type |-> type,
                    trigger |-> trigger, limit |-> limit, qty |-> qty, ttl |-> ttl]
           out == [status |-> "OK", id |-> stop.id]
           a == [e EXCEPT !.stops[slot] = stop, !.next_order_id = @ + 1, !.out = out]
           ev == [type |-> "ACCEPTED", id |-> stop.id, order_type |-> type, qty_original |-> qty,
                  qty_remain |-> qty, qty_filled |-> 0]
           p == eq_push(a, ev)
           no == [status |-> "REJECTED", id |-> 0]
           b == [e EXCEPT !.out = no]
           er == [type |-> "REJECTED", id |-> 0, order_type |-> type, qty_original |-> qty,
                  qty_remain |-> qty, qty_filled |-> 0]
           q == eq_push(b, er)
           R == e.resting
           S == StopIds(e)
           T == S \cup {stop.id}
           r == me_submit_stop(e, type, side, trigger, limit, qty, ttl)
<1>1. DOMAIN e = EngineFields /\ Queues(e) /\ e.next_order_id \in Nat \ {0}
  BY TypedQueues DEF EngineTyped
<1>2. r = IF ValidStop(type, trigger, limit) /\ free # {} THEN p ELSE q
  BY Zenon DEF me_submit_stop, emit_order_event
<1>3. CASE ~(ValidStop(type, trigger, limit) /\ free # {})
  <2>1. /\ DOMAIN b = EngineFields /\ b.out = no /\ b.resting = R /\ b.stops = e.stops /\ b.lost = e.lost
        /\ SameQueue(b, e)
    BY <1>1 DEF EngineFields, SameQueue
  <2>2. er.type = "REJECTED" /\ er.id = 0 /\ no.id = 0
    OBVIOUS
  <2> HIDE DEF b, er, no
  <2>3. SameIds(q, b)
    BY <2>1, PushSameIds
  <2>4. r.out.id = 0
    BY <1>2, <1>3, <2>1, <2>2, <2>3 DEF SameIds
  <2> HIDE DEF r
  <2>5. Sees(t, base, e, R, S, NoOrder)
    BY <2>4 DEF r
  <2>6. InView(t, base, b)
    BY <2>1, <2>5, InViewSame DEF InView
  <2>7. Queues(b)
    BY <1>1, <2>1 DEF Queues, SameQueue
  <2>8. Queues(q) /\ SameBook(q, b) /\ Sees(t, base, q, b.resting, StopIds(b), NoOrder)
    BY <2>1, <2>2, <2>6, <2>7, NobodysEventSees DEF InView
  <2> HIDE DEF q
  <2>9. q.resting = b.resting /\ StopIds(q) = StopIds(b)
    BY <2>8 DEF SameBook, StopIds, ActiveStops
  <2>10. InView(t, base, q)
    BY <2>8, <2>9 DEF InView
  <2> QED
    BY <1>2, <1>3, <2>10 DEF r
<1>4. CASE ValidStop(type, trigger, limit) /\ free # {}
  <2>1. slot \in free
    <3>1. free \subseteq Nat
      BY DEF Slots
    <3>2. \E i \in free : \A j \in free : i <= j
      <4> HIDE DEF free
      <4> QED
        BY <1>4, <3>1, LeastOf
    <3> HIDE DEF free
    <3> QED
      BY <3>2
  <2> HIDE DEF slot
  <2>2. slot \in Slots /\ slot \notin ActiveStops(e)
    BY <2>1
  <2>3. stop.id = e.next_order_id /\ stop.active /\ out.id = stop.id
    OBVIOUS
  <2>4. ev.type = "ACCEPTED" /\ ev.id = stop.id /\ ev.qty_remain = qty
    OBVIOUS
  <2> HIDE DEF stop, ev, out
  <2>5. /\ DOMAIN a = EngineFields /\ a.resting = R /\ a.stops = [e.stops EXCEPT ![slot] = stop]
        /\ a.lost = e.lost /\ a.out = out /\ SameQueue(a, e)
    BY <1>1 DEF EngineFields, SameQueue
  <2> HIDE DEF a
  <2>6. ActiveStops(a) = ActiveStops(e) \cup {slot} /\ a.stops[slot] = stop
        /\ \A j \in ActiveStops(e) : a.stops[j] = e.stops[j]
    <3>1. DOMAIN e.stops = Slots
      BY DEF EngineTyped
    <3>2. a.stops[slot] = stop /\ \A j \in Slots : j # slot => a.stops[j] = e.stops[j]
      BY <2>2, <2>5, <3>1
    <3> QED
      BY <2>2, <2>3, <3>2 DEF ActiveStops
  <2>7. StopIds(a) = T
    BY <2>6 DEF StopIds
  <2>8. stop.id \notin Ids(R)
    <3>1. \A o \in R : o.id \in Nat /\ o.id < e.next_order_id
      BY DEF EngineTyped, Order, Numbered, Apart
    <3> QED
      BY <1>1, <2>3, <3>1 DEF Ids
  <2>9. SameIds(p, a)
    BY <2>5, PushSameIds
  <2>10. r.out.id # 0
    BY <1>1, <1>2, <1>4, <2>3, <2>5, <2>9 DEF SameIds
  <2> HIDE DEF r
  <2>11. Sees(t, base, e, R, S, w)
    BY <2>10 DEF r
  <2>12. Queues(a) /\ Sees(t, base, a, R, S, w)
    BY <1>1, <2>5, <2>11 DEF Queues, Sees, Seen, SameQueue
  <2> HIDE DEF R, S, T
  <2>13. SameBut(ev.id, R, S, a.lost, R, T, a.lost)
    BY <2>4 DEF SameBut, T
  <2>14. w.id = ev.id /\ w.type \in StopTypes /\ w.left = qty
    BY <2>3, <2>4 DEF Working
  <2>15. TellsOwn(ev, R, S, a.lost, w, R, T, a.lost)
    <3>1. ASSUME NEW s, DOMAIN s = SlotFields, ~Dead(s), Coming(s, w)
          PROVE  LET n == Told(Advanced(s, ev), ev) IN Fits(n, ev.id, R, T, a.lost) /\ Progress(n, s)
      <4> DEFINE n == Told(Advanced(s, ev), ev)
      <4>1. n.touched /\ Live(n) /\ n.type = s.type
        BY <2>4, <3>1, LiveSlot
      <4> HIDE DEF n
      <4>2. Live(s) /\ s.type \in StopTypes
        BY <2>14, <3>1 DEF Coming
      <4>3. \A o \in R : o.id # ev.id
        BY <2>4, <2>8 DEF Ids
      <4> QED
        BY <4>1, <4>2, <4>3 DEF Fits, Progress, n
    <3> QED
      BY <2>14, <3>1 DEF TellsOwn
  <2>16. OwnEvent(ev) /\ w.id \in {0, ev.id}
    BY <2>4, <2>14 DEF OwnEvent
  <2>17. SameBook(p, a) /\ Sees(t, base, p, R, T, NoOrder)
    BY <2>5, <2>12, <2>13, <2>15, <2>16, OwnEventSees
  <2> HIDE DEF p
  <2>18. p.resting = R /\ StopIds(p) = T
    BY <2>5, <2>7, <2>17 DEF SameBook, StopIds, ActiveStops
  <2>19. InView(t, base, p)
    BY <2>17, <2>18 DEF InView
  <2> QED
    BY <1>2, <1>4, <2>19 DEF r
<1> QED
  BY <1>3, <1>4

(* Going on with one fill more. *)
LEMMA StagingMore ==
  ASSUME NEW tr, NEW b, NEW id, NEW side, NEW fills, IsSeq(fills), NEW f,
         Staging(tr, b, id, side, fills)
  PROVE  \E r : /\ Staging(r, b, id, side, Append(fills, f))
                /\ r[Len(fills) + 1] = StagedEvent(tr[Len(fills)], TradeEvent(id, side, f))
<1> DEFINE N == Len(fills)
           new == StagedEvent(tr[N], TradeEvent(id, side, f))
           r == [j \in 0..(N + 1) |-> IF j = N + 1 THEN new ELSE tr[j]]
           g == Append(fills, f)
<1>1. /\ N \in Nat /\ Len(g) = N + 1 /\ g[N + 1] = f
      /\ \A j \in 1..N : g[j] = fills[j]
  BY AppendIs
<1> HIDE DEF g, new
<1>2. r[0] = b /\ r[N + 1] = new /\ \A j \in 0..N : r[j] = tr[j]
  BY <1>1 DEF Staging
<1> HIDE DEF r
<1>3. ASSUME NEW j \in 1..(N + 1) PROVE r[j] = StagedEvent(r[j - 1], TradeEvent(id, side, g[j]))
  <2>1. CASE j = N + 1
    <3>1. j - 1 = N /\ N \in 0..N
      BY <1>1, <2>1
    <3> QED
      BY <1>1, <1>2, <2>1, <3>1 DEF new
  <2>2. CASE j # N + 1
    <3>1. j \in 1..N /\ j \in 0..N /\ j - 1 \in 0..N
      BY <1>1, <2>2
    <3>2. tr[j] = StagedEvent(tr[j - 1], TradeEvent(id, side, fills[j]))
      BY <3>1, Zenon DEF Staging
    <3> QED
      BY <1>1, <1>2, <3>1, <3>2
  <2> QED
    BY <2>1, <2>2
<1>4. Staging(r, b, id, side, g)
  BY <1>1, <1>2, <1>3 DEF Staging
<1> QED
  BY <1>2, <1>4 DEF g, new

(* A turn of the fill loop. *)
LEMMA FillsShowKept ==
  ASSUME NEW R, NEW side \in Side, NEW price, NEW qty,
         NEW acc, Filling(acc, R, side, price, qty), NEW t, NEW b, NEW S, NEW lost, NEW id, NEW type,
         id \notin Ids(R), S \cap Ids(R) = {}, FillsShow(acc, t, b, S, lost, id, side, type, price)
  PROVE  FillsShow(NextFill(acc, side, price), t, b, S, lost, id, side, type, price)
<1> DEFINE a == NextFill(acc, side, price)
           able == Eligible(acc.resting, side, price)
           N == Len(acc.fills)
<1>1. IsBook(acc.resting) /\ acc.left \in Nat /\ IsSeq(acc.fills)
  BY DEF Filling
<1>2. \/ a = acc
      \/ \E o \in able : \E n \in Nat : Turn(a, acc, o, n)
  BY <1>1, NextFillIs
<1> HIDE DEF a
<1> SUFFICES ASSUME NEW o \in able, NEW n \in Nat, Turn(a, acc, o, n)
             PROVE  FillsShow(a, t, b, S, lost, id, side, type, price)
  BY <1>2 DEF a
<1>3. o \in acc.resting
  BY DEF Eligible
<1>4. o.id # id /\ o.id \notin S
  <2>1. PICK x \in R : o.id = x.id
    BY <1>3 DEF Filling
  <2> QED
    BY <2>1 DEF Ids
<1> DEFINE f == FillOf(o, n)
           w == Working(id, side, type, price, acc.left)
           u == Working(id, side, type, price, a.left)
<1>5. /\ a.fills = Append(acc.fills, f) /\ a.left = acc.left - n
      /\ a.resting = (acc.resting \ {o}) \cup (IF o.qty > n THEN {Reduced(o, n)} ELSE {})
      /\ n \in Nat \ {0} /\ n <= o.qty /\ n <= acc.left
  BY DEF Turn
<1>6. PICK tr : Staging(tr, b, id, side, acc.fills) /\ Shown(t, tr[N], acc.resting, S, lost, w)
  BY DEF FillsShow
<1>7. w.id = id /\ w.left = acc.left /\ Nearer(u, w, n)
  BY <1>5 DEF Working, Nearer
<1> HIDE DEF w, u, N
<1> DEFINE m == StagedEvent(tr[N], TradeEvent(w.id, side, f))
<1>8. Shown(t, m, a.resting, S, lost, u)
  <2> DEFINE c == tr[N]
             P == acc.resting
             Q == a.resting
  <2>1. /\ Shown(t, c, P, S, lost, w) /\ w.left \in Nat /\ IsBook(P) /\ o \in P /\ o.id # w.id /\ o.id \notin S
        /\ n \in Nat \ {0} /\ n <= o.qty /\ n <= w.left
        /\ Q = (P \ {o}) \cup (IF o.qty > n THEN {Reduced(o, n)} ELSE {})
    BY <1>1, <1>3, <1>4, <1>5, <1>6, <1>7
  <2> HIDE DEF c, P, Q
  <2>2. Shown(t, StagedEvent(c, TradeEvent(w.id, side, FillOf(o, n))), Q, S, lost, u)
    BY <1>7, <2>1, TradeShown
  <2> QED
    BY <2>2 DEF c, Q
<1> HIDE DEF f, m
<1>9. PICK r : Staging(r, b, id, side, Append(acc.fills, f)) /\ r[N + 1] = m
  BY <1>1, <1>6, <1>7, StagingMore DEF m, N
<1>10. Len(a.fills) = N + 1
  BY <1>1, <1>5, AppendIs DEF N
<1> QED
  BY <1>5, <1>8, <1>9, <1>10 DEF FillsShow, u

(* The whole match. *)
LEMMA MatchShows ==
  ASSUME NEW R, IsBook(R), NEW side \in Side, NEW price, NEW qty \in Nat,
         NEW t, NEW b, NEW S, NEW lost, NEW id, NEW type, id \notin Ids(R), S \cap Ids(R) = {},
         Shown(t, b, R, S, lost, Working(id, side, type, price, qty))
  PROVE  FillsShow(Match(R, side, price, qty), t, b, S, lost, id, side, type, price)
<1> DEFINE N == Cardinality(R)
           m == Match(R, side, price, qty)
<1>1. N \in Nat
  BY FS_CardinalityType DEF IsBook
<1>2. PICK g : FillRun(g, m, N, R, side, price, qty)
  BY <1>1, MatchIs
<1> DEFINE G == {n \in Nat : n <= N => /\ Filling(g[n], R, side, price, qty)
                                       /\ FillsShow(g[n], t, b, S, lost, id, side, type, price)}
<1>3. 0 \in G
  <2> DEFINE a == g[0]
  <2>1. a = [resting |-> R, left |-> qty, fills |-> <<>>]
    BY <1>2 DEF FillRun
  <2>2. a.resting = R /\ a.left = qty /\ a.fills = <<>> /\ Len(a.fills) = 0
    BY <2>1
  <2>3. Filling(a, R, side, price, qty)
    BY <2>1, FillingStarts
  <2> HIDE DEF a
  <2> DEFINE tr == [j \in {0} |-> b]
  <2>4. tr[0] = b
    OBVIOUS
  <2> HIDE DEF tr
  <2>5. Staging(tr, b, id, side, a.fills)
    BY <2>2, <2>4 DEF Staging
  <2>6. FillsShow(a, t, b, S, lost, id, side, type, price)
    BY <2>2, <2>4, <2>5 DEF FillsShow
  <2> QED
    BY <2>3, <2>6 DEF a
<1>4. ASSUME NEW n \in Nat, n \in G PROVE n + 1 \in G
  <2> SUFFICES ASSUME n + 1 <= N
               PROVE  /\ Filling(g[n + 1], R, side, price, qty)
                      /\ FillsShow(g[n + 1], t, b, S, lost, id, side, type, price)
    OBVIOUS
  <2>1. n <= N /\ n + 1 \in 1..N /\ (n + 1) - 1 = n
    BY <1>1
  <2>2. Filling(g[n], R, side, price, qty) /\ FillsShow(g[n], t, b, S, lost, id, side, type, price)
    BY <1>4, <2>1
  <2>3. g[n + 1] = NextFill(g[n], side, price)
    <3>1. g[n + 1] = NextFill(g[(n + 1) - 1], side, price)
      BY <1>2, <2>1, Zenon DEF FillRun
    <3> QED
      BY <2>1, <3>1
  <2> DEFINE a == g[n]
  <2>4. Filling(NextFill(a, side, price), R, side, price, qty)
    BY <2>2, FillingKept
  <2>5. FillsShow(NextFill(a, side, price), t, b, S, lost, id, side, type, price)
    BY <2>2, FillsShowKept
  <2> QED
    BY <2>3, <2>4, <2>5
<1>5. Nat \subseteq G
  <2> HIDE DEF G
  <2> QED
    BY <1>3, <1>4, SetOfNats
<1>6. N <= N
  BY <1>1
<1> QED
  BY <1>1, <1>2, <1>5, <1>6 DEF FillRun

(* One fill more is told. *)
LEMMA ShowingMore ==
  ASSUME NEW base, NEW b, NEW side, NEW n \in Nat, n < Len(b.fills), Len(b.fills) \in Nat,
         NEW tr, b.e.dropped = 0 => Staging(tr, Seen(base, b.e), b.id, side, b.fills),
         NEW x, Showing(x, b, n, base, tr)
  PROVE  Showing(NextTrade(x, b.id, side, b.fills[n + 1]), b, n + 1, base, tr)
<1> DEFINE f == b.fills[n + 1]
           e == x.e
           p == emit_trade(e, b.id, side, f)
           ev == TradeEvent(b.id, side, f)
           y == NextTrade(x, b.id, side, f)
<1>1. DOMAIN e = EngineFields /\ Queues(e) /\ SameBook(e, b.e)
  BY DEF Showing, SameBook
<1>2. SameBook(p, e) /\ Queued(p, e, ev)
  BY <1>1, EmitTradeIs
<1>3. y.e = p
  BY DEF NextTrade
<1>4. n + 1 \in 1..Len(b.fills) /\ (n + 1) - 1 = n
  OBVIOUS
<1>5. b.e.dropped = 0 => tr[n + 1] = StagedEvent(tr[n], ev)
  <2>1. b.e.dropped = 0 => tr[n + 1] = StagedEvent(tr[(n + 1) - 1], ev)
    BY <1>4, Zenon DEF Staging
  <2> QED
    BY <1>4, <2>1
<1> HIDE DEF p, y
<1>6. /\ Queues(p)
      /\ p.dropped = 0 => e.dropped = 0 /\ Seen(base, p) = StagedEvent(Seen(base, e), ev)
  <2> DEFINE q == p
  <2>1. Queues(e) /\ Queued(q, e, ev)
    BY <1>1, <1>2
  <2> HIDE DEF ev, e, f, q
  <2>2. /\ Queues(q)
        /\ q.dropped = 0 => e.dropped = 0 /\ Seen(base, q) = StagedEvent(Seen(base, e), ev)
    BY <2>1, QueuedSeen
  <2> QED
    BY <2>2 DEF q
<1>7. p.dropped = 0 => b.e.dropped = 0 /\ Seen(base, p) = tr[n + 1]
  <2> HIDE DEF ev
  <2> QED
    BY <1>5, <1>6 DEF Showing
<1>8. SameBook(p, b.e)
  BY <1>1, <1>2 DEF SameBook
<1>9. Showing(y, b, n + 1, base, tr)
  BY <1>3, <1>6, <1>7, <1>8 DEF Showing
<1> QED
  BY <1>9 DEF y

(* Every fill is told. *)
LEMMA AllShowing ==
  ASSUME NEW base, NEW b, NEW side, Len(b.fills) \in Nat, DOMAIN b.e = EngineFields, Queues(b.e),
         NEW tr, b.e.dropped = 0 => Staging(tr, Seen(base, b.e), b.id, side, b.fills)
  PROVE  Showing(TradesTold(b, side), b, Len(b.fills), base, tr)
<1> DEFINE N == Len(b.fills)
<1>1. PICK g : /\ g[0] = [e |-> b.e, filled |-> 0]
               /\ \A n \in 1..N : g[n] = NextTrade(g[n - 1], b.id, side, b.fills[n])
               /\ TradesTold(b, side) = g[N]
  BY TradedIs
<1> DEFINE G == {n \in Nat : n <= N => Showing(g[n], b, n, base, tr)}
<1>2. 0 \in G
  <2> DEFINE x == g[0]
  <2>1. x.e = b.e
    BY <1>1
  <2> HIDE DEF x
  <2>2. SameBook(x.e, b.e)
    BY <2>1 DEF SameBook
  <2>3. b.e.dropped = 0 => tr[0] = Seen(base, b.e)
    BY DEF Staging
  <2>4. Showing(x, b, 0, base, tr)
    BY <2>1, <2>2, <2>3 DEF Showing
  <2> QED
    BY <2>4 DEF x
<1>3. ASSUME NEW n \in Nat, n \in G PROVE n + 1 \in G
  <2> SUFFICES ASSUME n + 1 <= N PROVE Showing(g[n + 1], b, n + 1, base, tr)
    OBVIOUS
  <2>1. n <= N /\ n < N /\ n + 1 \in 1..N /\ (n + 1) - 1 = n
    OBVIOUS
  <2>2. Showing(g[n], b, n, base, tr)
    BY <1>3, <2>1
  <2>3. g[n + 1] = NextTrade(g[n], b.id, side, b.fills[n + 1])
    <3>1. g[n + 1] = NextTrade(g[(n + 1) - 1], b.id, side, b.fills[n + 1])
      BY <1>1, <2>1, Zenon
    <3> QED
      BY <2>1, <3>1
  <2> DEFINE x == g[n]
  <2>4. Showing(x, b, n, base, tr)
    BY <2>2
  <2> HIDE DEF x
  <2>5. Showing(NextTrade(x, b.id, side, b.fills[n + 1]), b, n + 1, base, tr)
    BY <2>1, <2>4, ShowingMore
  <2> QED
    BY <2>3, <2>5 DEF x
<1>4. Nat \subseteq G
  <2> HIDE DEF G
  <2> QED
    BY <1>2, <1>3, SetOfNats
<1>5. N <= N
  OBVIOUS
<1> QED
  BY <1>1, <1>4, <1>5

(* The engine after the trades have been told: clients see what is left of  *)
(* the book, and are busy with what is left of the order.                   *)
LEMMA TradedSees ==
  ASSUME NEW t, NEW base, NEW e, EngineTyped(e), Numbered(e), AllSound(e),
         NEW side \in Side, NEW price, NEW qty \in Nat,
         NEW m, m = Match(e.resting, side, price, qty),
         NEW b, Added(b, e, m), NEW type,
         Sees(t, base, e, e.resting, StopIds(e), Working(b.id, side, type, price, qty))
  PROVE  LET x == TradesTold(b, side)
         IN  /\ SameBook(x.e, b.e) /\ Queues(x.e)
             /\ Sees(t, base, x.e, m.resting, StopIds(e), Working(b.id, side, type, price, m.left))
<1> DEFINE x == TradesTold(b, side)
           N == Len(b.fills)
           R == e.resting
           S == StopIds(e)
<1>1. IsBook(R)
  BY BookOfEngine
<1>2. Filling(m, R, side, price, qty)
  BY <1>1, MatchFills
<1>3. b.id \notin Ids(R)
  BY DEF Added, Numbered, Apart, Ids, EngineTyped, Order
<1>4. S \cap Ids(R) = {}
  BY DEF Numbered, StopIds
<1>5. /\ b.fills = m.fills /\ b.e.eq = e.eq /\ b.e.dropped = e.dropped /\ b.e.lost = e.lost
      /\ DOMAIN b.e = EngineFields
  BY DEF Added, SameQueue
<1>6. Queues(b.e) /\ Seen(base, b.e) = Seen(base, e)
  BY <1>5, TypedQueues DEF Queues, Seen
<1>7. N \in Nat
  BY <1>2, <1>5 DEF Filling, IsSeq
<1> DEFINE w == Working(b.id, side, type, price, m.left)
<1>8. \E tr : b.e.dropped = 0 => /\ Staging(tr, Seen(base, b.e), b.id, side, b.fills)
                                 /\ Shown(t, tr[N], m.resting, S, e.lost, w)
  <2>1. CASE b.e.dropped = 0
    <3> DEFINE c == Seen(base, e)
    <3>1. Shown(t, c, R, S, e.lost, Working(b.id, side, type, price, qty))
      BY <1>5, <2>1 DEF Sees
    <3> HIDE DEF c, R, S
    <3>2. FillsShow(m, t, c, S, e.lost, b.id, side, type, price)
      BY <1>1, <1>3, <1>4, <3>1, MatchShows DEF R
    <3>3. \E tr : Staging(tr, c, b.id, side, b.fills) /\ Shown(t, tr[N], m.resting, S, e.lost, w)
      BY <1>5, <3>2 DEF FillsShow
    <3> QED
      BY <1>6, <3>3 DEF c
  <2>2. CASE b.e.dropped # 0
    BY <2>2
  <2> QED
    BY <2>1, <2>2
<1>9. PICK tr : b.e.dropped = 0 => /\ Staging(tr, Seen(base, b.e), b.id, side, b.fills)
                                   /\ Shown(t, tr[N], m.resting, S, e.lost, w)
  BY <1>8
<1>10. Showing(x, b, N, base, tr)
  BY <1>5, <1>6, <1>7, <1>9, AllShowing
<1> HIDE DEF x, w, S, N
<1>11. /\ SameBook(x.e, b.e) /\ Queues(x.e)
       /\ x.e.dropped = 0 => b.e.dropped = 0 /\ Seen(base, x.e) = tr[N]
  BY <1>10 DEF Showing
<1>12. x.e.lost = e.lost
  BY <1>5, <1>11 DEF SameBook
<1>13. Sees(t, base, x.e, m.resting, S, w)
  BY <1>9, <1>11, <1>12 DEF Sees
<1> QED
  BY <1>11, <1>13 DEF x, w, S

(* A cancelled order is dead. *)
LEMMA CancelledDead ==
  ASSUME NEW b, NEW last, Matched(b, last), Queue(b), NEW ev, ev.type = "CANCELLED"
  PROVE  LET p == StagedEvent(b, ev)
         IN  ev.id \in DOMAIN p.me_to_gw => Dead(p.slots[p.me_to_gw[ev.id]])
<1> DEFINE i == ev.id
           id == gw_from_me(b, i)
           p == StagedEvent(b, ev)
<1>1. Registry(b)
  BY DEF Matched
<1>2. CASE i \notin DOMAIN b.me_to_gw
  <2>1. p = b
    BY <1>2, SilentEvent
  <2> QED
    BY <1>2, <2>1
<1>3. CASE i \in DOMAIN b.me_to_gw
  <2>1. id = b.me_to_gw[i] /\ id \in DOMAIN b.slots /\ DOMAIN b.slots[id] = SlotFields /\ id # 0
    BY <1>1, <1>3 DEF gw_from_me, Registry
  <2> HIDE DEF id
  <2>2. CASE Dead(b.slots[id])
    <3>1. p = b
      BY <2>1, <2>2, SilentEvent
    <3> QED
      BY <2>1, <2>2, <3>1
  <2>3. CASE ~Dead(b.slots[id])
    <3> DEFINE s == Told(Advanced(b.slots[id], ev), ev)
    <3>1. Dead(s)
      BY <2>1, CancelledSlot DEF Dead
    <3>2. p = OrderEvent(b, id, ev)
      <4>1. Staged(ev)
        BY DEF Staged, bus_publish, Topic
      <4> QED
        BY <4>1, Zenon DEF StagedEvent, Translate, id
    <3>3. PICK b1 : OrderSteps(p, b, id, ev, b1)
      BY <1>1, <2>1, <2>3, <3>2, OrderEventSteps
    <3> HIDE DEF s
    <3>4. OneSlot(b1, b, id, s) /\ SameOrders(p, b1)
      BY <3>3 DEF OrderSteps, s
    <3> HIDE DEF p
    <3>5. p.me_to_gw = b.me_to_gw /\ p.slots[id] = s
      BY <2>1, <3>4 DEF OneSlot, SameOrders
    <3> QED
      BY <2>1, <3>1, <3>5 DEF p
  <2> QED
    BY <2>2, <2>3
<1> QED
  BY <1>2, <1>3

(* Step 4: what was left is cancelled, and a further event of the order is  *)
(* passed over.                                                             *)
LEMMA KillSees ==
  ASSUME NEW t, NEW base, NEW x, EngineTyped(x), NEW R, NEW S, NEW w, Sees(t, base, x, R, S, w),
         w.id # 0, w.left > 0, Gone(w.id, R, S),
         NEW k, Removed(k, x, w.id), NEW ev, ev.type = "CANCELLED", ev.id = w.id,
         NEW end, end.type \in {"FILLED", "REJECTED"}, end.id = w.id
  PROVE  LET p == eq_push(eq_push(k, ev), end)
         IN  Queues(p) /\ SameBook(p, k) /\ Sees(t, base, p, R, S, NoOrder)
<1> DEFINE c == eq_push(k, ev)
           p == eq_push(c, end)
<1>1. DOMAIN k = EngineFields /\ Queues(k) /\ k.lost = x.lost /\ Sees(t, base, k, R, S, w)
  BY TypedQueues DEF Removed, SameQueue, Queues, Sees, Seen
<1>2. SameBook(c, k) /\ Queued(c, k, ev)
  BY <1>1, PushIs
<1>3. SameBut(ev.id, R, S, k.lost, R, S, k.lost)
  BY DEF SameBut
<1>4. TellsOwn(ev, R, S, k.lost, w, R, S, k.lost)
  BY EndTells
<1>5. OwnEvent(ev) /\ w.id \in {0, ev.id}
  BY DEF OwnEvent
<1>6. Queues(c) /\ Sees(t, base, c, R, S, NoOrder)
  BY <1>1, <1>3, <1>4, <1>5, OwnEventSees
<1>7. c.dropped = 0 => k.dropped = 0 /\ Seen(base, c) = StagedEvent(Seen(base, k), ev)
  BY <1>1, <1>2, QueuedSeen
<1> HIDE DEF c
<1>8. SameBook(p, c) /\ Queued(p, c, end)
  BY <1>2, PushIs DEF SameBook
<1> HIDE DEF p
<1>9. /\ Queues(p)
      /\ p.dropped = 0 => c.dropped = 0 /\ Seen(base, p) = StagedEvent(Seen(base, c), end)
  BY <1>6, <1>8, QueuedSeen
<1>10. p.dropped = 0 => Seen(base, p) = Seen(base, c)
  <2> SUFFICES ASSUME p.dropped = 0 PROVE Seen(base, p) = Seen(base, c)
    OBVIOUS
  <2> DEFINE b == Seen(base, k)
             d == Seen(base, c)
  <2>1. k.dropped = 0 /\ d = StagedEvent(b, ev) /\ Seen(base, p) = StagedEvent(d, end)
    BY <1>7, <1>9
  <2>2. Matched(b, t.last) /\ Queue(b)
    BY <1>1, <2>1 DEF Sees, Shown
  <2> HIDE DEF b, d
  <2>3. ev.id \in DOMAIN d.me_to_gw => Dead(d.slots[d.me_to_gw[ev.id]])
    BY <2>1, <2>2, CancelledDead
  <2>4. end.type # "TRADE" /\ end.id = ev.id
    OBVIOUS
  <2>5. StagedEvent(d, end) = d
    BY <2>3, <2>4, SilentEvent
  <2> QED
    BY <2>1, <2>5 DEF d
<1>11. p.lost = c.lost /\ SameBook(p, k)
  BY <1>2, <1>8 DEF SameBook
<1>12. Sees(t, base, p, R, S, NoOrder)
  BY <1>6, <1>9, <1>10, <1>11 DEF Sees
<1> QED
  BY <1>9, <1>11, <1>12 DEF p, c

(* The order comes to rest in the book. *)
LEMMA RestSees ==
  ASSUME NEW t, NEW base, NEW x, EngineTyped(x), NEW R, NEW S, NEW w, Sees(t, base, x, R, S, w),
         w.id # 0, Gone(w.id, R, S), NEW o, o.id = w.id, o.qty = w.left, o.side = w.side, o.price = w.price,
         w.left \in Nat \ {0},
         NEW ev, ev.type \in {"ACCEPTED", "PARTIAL"}, ev.id = w.id, ev.qty_remain = w.left,
         NEW Q, Q = R \cup {o}
  PROVE  LET p == eq_push(x, ev)
         IN  Queues(p) /\ SameBook(p, x) /\ Sees(t, base, p, Q, S, NoOrder)
<1> DEFINE p == eq_push(x, ev)
<1>1. DOMAIN x = EngineFields /\ Queues(x)
  BY TypedQueues
<1>2. SameBut(ev.id, R, S, x.lost, Q, S, x.lost)
  BY DEF SameBut
<1>3. OwnEvent(ev) /\ w.id \in {0, ev.id}
  BY DEF OwnEvent
<1>4. (\A v \in Q : v.id = w.id => v = o) /\ w.id \in Ids(Q)
  BY DEF Gone, Ids
<1> HIDE DEF p
<1>5. TellsOwn(ev, R, S, x.lost, w, Q, S, x.lost)
  <2>1. ASSUME NEW s, DOMAIN s = SlotFields, ~Dead(s), Coming(s, w)
        PROVE  LET n == Told(Advanced(s, ev), ev) IN Fits(n, ev.id, Q, S, x.lost) /\ Progress(n, s)
    <3> DEFINE n == Told(Advanced(s, ev), ev)
    <3>1. ev.type # "MODIFIED" /\ ev.qty_remain # 0
      OBVIOUS
    <3>2. n.touched /\ Live(n) /\ n.qty_remain = ev.qty_remain /\ n.side = s.side /\ n.type = s.type
          /\ n.price = s.price
      BY <2>1, <3>1, LiveSlot
    <3> HIDE DEF n
    <3>3. Live(s) /\ s.side = w.side /\ (s.type # "MARKET" => s.price = w.price)
      BY <2>1 DEF Coming
    <3>4. Fits(n, w.id, Q, S, x.lost)
      BY <1>4, <3>2, <3>3 DEF Fits, Gone
    <3> QED
      BY <3>3, <3>4 DEF Progress, n
  <2> QED
    BY <2>1 DEF TellsOwn
<1>6. Queues(p) /\ SameBook(p, x) /\ Sees(t, base, p, Q, S, NoOrder)
  BY <1>1, <1>2, <1>3, <1>5, OwnEventSees DEF p
<1> QED
  BY <1>6 DEF p

(* The order is filled, or leaves for want of room. *)
LEMMA EndSees ==
  ASSUME NEW t, NEW base, NEW x, EngineTyped(x), NEW R, NEW S, NEW w, Sees(t, base, x, R, S, w),
         w.id # 0, Gone(w.id, R, S), NEW ev, ev.id = w.id,
         \/ ev.type = "REJECTED" /\ w.left > 0
         \/ ev.type = "FILLED" /\ w.left = 0
  PROVE  LET p == eq_push(x, ev)
         IN  Queues(p) /\ SameBook(p, x) /\ Sees(t, base, p, R, S, NoOrder)
<1>1. DOMAIN x = EngineFields /\ Queues(x)
  BY TypedQueues
<1>2. SameBut(ev.id, R, S, x.lost, R, S, x.lost)
  BY DEF SameBut
<1>3. OwnEvent(ev) /\ w.id \in {0, ev.id}
  BY DEF OwnEvent
<1>4. TellsOwn(ev, R, S, x.lost, w, R, S, x.lost)
  BY EndTells
<1> QED
  BY <1>1, <1>2, <1>3, <1>4, OwnEventSees

(* An engine of which R and S are seen, if it has them. *)
LEMMA SeesIsInView ==
  ASSUME NEW t, NEW base, NEW x, NEW p, SameBook(p, x), NEW R, R = x.resting, NEW S, S = StopIds(x),
         Sees(t, base, p, R, S, NoOrder)
  PROVE  DOMAIN p = EngineFields /\ InView(t, base, p)
<1>1. p.resting = R /\ StopIds(p) = S /\ DOMAIN p = EngineFields
  BY DEF SameBook, StopIds, ActiveStops
<1> QED
  BY <1>1 DEF InView

(* Steps 4 and 5 for an IOC order of which something is left. *)
LEMMA KilledSees ==
  ASSUME NEW t, NEW base, NEW x, NEW R, NEW b, NEW left, NEW side, NEW price, NEW qty, NEW filled,
         Awaiting(t, base, x, R, b, left, side, "IOC", price, qty, filled), left > 0
  PROVE  LET killed == emit_order_event(ob_cancel_order(x, b.id), "CANCELLED", b.id, "IOC", qty, 0, filled)
         IN  Viewed(t, base, Lifecycle(killed, b.st, b.id, "IOC", qty, 0, filled))
<1> DEFINE k == ob_cancel_order(x, b.id)
           ev == [type |-> "CANCELLED", id |-> b.id, order_type |-> "IOC", qty_original |-> qty,
                  qty_remain |-> 0, qty_filled |-> filled]
           killed == emit_order_event(k, "CANCELLED", b.id, "IOC", qty, 0, filled)
           c == eq_push(k, ev)
           p == Lifecycle(killed, b.st, b.id, "IOC", qty, 0, filled)
           w == Working(b.id, side, "IOC", price, left)
           S == StopIds(x)
<1>0. /\ EngineTyped(x) /\ left \in Nat /\ Awaited(x, b, R, left, side, price)
      /\ b.id \in Nat \ {0} /\ Gone(b.id, R, StopIds(x))
      /\ qty \in Nat /\ filled \in Nat /\ filled = qty - left
      /\ Sees(t, base, x, R, StopIds(x), Working(b.id, side, "IOC", price, left))
  BY DEF Awaiting
<1>1. Removed(k, x, b.id)
  BY <1>0, CancelIs
<1>2. killed = c
  BY Zenon DEF emit_order_event
<1>3. w.id = b.id /\ w.left = left
  BY DEF Working
<1> HIDE DEF w, k, c, killed
<1>4. /\ b.st = "REJECTED" => p = emit_order_event(killed, "REJECTED", b.id, "IOC", qty, qty, 0)
      /\ b.st # "REJECTED" => p = emit_order_event(killed, "FILLED", b.id, "IOC", qty, 0, filled)
  BY <1>0, LifecycleIs
<1> HIDE DEF p
<1>5. \E end : end.type \in {"FILLED", "REJECTED"} /\ end.id = b.id /\ p = eq_push(c, end)
  <2>1. ASSUME NEW type \in {"FILLED", "REJECTED"}, NEW remain, NEW n,
               p = emit_order_event(killed, type, b.id, "IOC", qty, remain, n)
        PROVE  \E end : end.type \in {"FILLED", "REJECTED"} /\ end.id = b.id /\ p = eq_push(c, end)
    <3> DEFINE end == [type |-> type, id |-> b.id, order_type |-> "IOC", qty_original |-> qty,
                       qty_remain |-> remain, qty_filled |-> n]
    <3>1. p = eq_push(c, end)
      BY <1>2, <2>1, Zenon DEF emit_order_event
    <3>2. end.type = type /\ end.id = b.id
      OBVIOUS
    <3> HIDE DEF end
    <3> QED
      BY <3>1, <3>2
  <2> QED
    BY <1>4, <2>1
<1>6. PICK end : end.type \in {"FILLED", "REJECTED"} /\ end.id = b.id /\ p = eq_push(c, end)
  BY <1>5
<1>7. ev.type = "CANCELLED" /\ ev.id = b.id
  OBVIOUS
<1> HIDE DEF ev
<1>8. Queues(p) /\ SameBook(p, k) /\ Sees(t, base, p, R, S, NoOrder)
  BY <1>0, <1>1, <1>3, <1>6, <1>7, KillSees DEF c, w
<1>9. R = k.resting
  <2>1. \A o \in R : o.id # b.id
    BY <1>0 DEF Gone, Ids
  <2> QED
    BY <1>0, <1>1, <2>1 DEF Awaited, Removed
<1>10. S = StopIds(k)
  BY <1>1 DEF Removed, StopIds, ActiveStops
<1>11. DOMAIN p = EngineFields /\ InView(t, base, p)
  BY <1>8, <1>9, <1>10, SeesIsInView
<1> QED
  BY <1>8, <1>11 DEF p, killed, k, Viewed

(* Step 5 for the others. *)
LEMMA LifecycleSees ==
  ASSUME NEW t, NEW base, NEW x, NEW R, NEW b, NEW left, NEW side, NEW type, NEW price, NEW qty, NEW filled,
         Awaiting(t, base, x, R, b, left, side, type, price, qty, filled)
  PROVE  Viewed(t, base, Lifecycle(x, b.st, b.id, type, qty, left, filled))
<1> DEFINE p == Lifecycle(x, b.st, b.id, type, qty, left, filled)
           w == Working(b.id, side, type, price, left)
           S == StopIds(x)
           event(name, remain, n) == [type |-> name, id |-> b.id, order_type |-> type, qty_original |-> qty,
                                      qty_remain |-> remain, qty_filled |-> n]
<1>0. /\ EngineTyped(x) /\ left \in Nat /\ Awaited(x, b, R, left, side, price)
      /\ b.id \in Nat \ {0} /\ Gone(b.id, R, StopIds(x))
      /\ qty \in Nat /\ filled \in Nat /\ filled = qty - left
      /\ Sees(t, base, x, R, StopIds(x), Working(b.id, side, type, price, left))
  BY DEF Awaiting
<1>1. /\ b.st = "REJECTED" => p = emit_order_event(x, "REJECTED", b.id, type, qty, qty, 0)
      /\ b.st # "REJECTED" /\ left = 0 => p = emit_order_event(x, "FILLED", b.id, type, qty, 0, filled)
      /\ b.st # "REJECTED" /\ left > 0 /\ filled > 0 =>
           p = emit_order_event(x, "PARTIAL", b.id, type, qty, left, filled)
      /\ b.st # "REJECTED" /\ left > 0 /\ filled = 0 =>
           p = emit_order_event(x, "ACCEPTED", b.id, type, qty, qty, 0)
  BY <1>0, LifecycleIs
<1>2. w.id = b.id /\ w.left = left /\ w.side = side /\ w.price = price
  BY DEF Working
<1> HIDE DEF p, w
<1>3. ASSUME NEW name, NEW remain, NEW n, p = emit_order_event(x, name, b.id, type, qty, remain, n)
      PROVE  \E ev : ev.type = name /\ ev.id = b.id /\ ev.qty_remain = remain /\ p = eq_push(x, ev)
  <2> DEFINE ev == event(name, remain, n)
  <2>1. p = eq_push(x, ev)
    BY <1>3, Zenon DEF emit_order_event
  <2>2. ev.type = name /\ ev.id = b.id /\ ev.qty_remain = remain
    OBVIOUS
  <2> HIDE DEF ev
  <2> QED
    BY <2>1, <2>2
<1>4. CASE x.resting = R /\ b.st = IF left > 0 THEN "REJECTED" ELSE "OK"
  <2>1. \E ev : /\ ev.id = b.id /\ p = eq_push(x, ev)
                /\ \/ ev.type = "REJECTED" /\ left > 0
                   \/ ev.type = "FILLED" /\ left = 0
    <3>0. left \in Nat
      BY <1>0
    <3>1. CASE left > 0
      <4>1. p = emit_order_event(x, "REJECTED", b.id, type, qty, qty, 0)
        BY <1>1, <1>4, <3>1
      <4> QED
        BY <1>3, <3>1, <4>1
    <3>2. CASE left = 0
      <4>1. p = emit_order_event(x, "FILLED", b.id, type, qty, 0, filled)
        BY <1>1, <1>4, <3>2
      <4> QED
        BY <1>3, <3>2, <4>1
    <3> QED
      BY <3>0, <3>1, <3>2
  <2>2. PICK ev : /\ ev.id = b.id /\ p = eq_push(x, ev)
                  /\ \/ ev.type = "REJECTED" /\ left > 0
                     \/ ev.type = "FILLED" /\ left = 0
    BY <2>1
  <2>3. Queues(p) /\ SameBook(p, x) /\ Sees(t, base, p, R, S, NoOrder)
    BY <1>0, <1>2, <2>2, EndSees DEF w
  <2>4. DOMAIN p = EngineFields /\ InView(t, base, p)
    BY <1>4, <2>3, SeesIsInView
  <2> QED
    BY <2>3, <2>4 DEF p, Viewed
<1>5. CASE /\ b.st = "OK" /\ left > 0
           /\ \E o \in Order : /\ o.id = b.id /\ o.qty = left /\ o.side = side /\ o.price = price
                               /\ x.resting = R \cup {o}
  <2>1. PICK o \in Order : /\ o.id = b.id /\ o.qty = left /\ o.side = side /\ o.price = price
                           /\ x.resting = R \cup {o}
    BY <1>5
  <2>2. \E ev : /\ ev.type \in {"ACCEPTED", "PARTIAL"} /\ ev.id = b.id /\ ev.qty_remain = left
                /\ p = eq_push(x, ev)
    <3>0. filled \in Nat /\ filled = qty - left /\ qty \in Nat /\ left \in Nat
      BY <1>0
    <3>1. CASE filled > 0
      <4>1. p = emit_order_event(x, "PARTIAL", b.id, type, qty, left, filled)
        BY <1>1, <1>5, <3>1
      <4> QED
        BY <1>3, <4>1
    <3>2. CASE filled = 0
      <4>1. p = emit_order_event(x, "ACCEPTED", b.id, type, qty, qty, 0) /\ qty = left
        BY <1>1, <1>5, <3>0, <3>2
      <4> QED
        BY <1>3, <4>1
    <3> QED
      BY <3>0, <3>1, <3>2
  <2>3. PICK ev : /\ ev.type \in {"ACCEPTED", "PARTIAL"} /\ ev.id = b.id /\ ev.qty_remain = left
                  /\ p = eq_push(x, ev)
    BY <2>2
  <2> DEFINE Q == R \cup {o}
             u == w
  <2>4. left \in Nat \ {0}
    BY <1>0, <1>5
  <2>5. Queues(p) /\ SameBook(p, x) /\ Sees(t, base, p, Q, S, NoOrder)
    <3>1. Sees(t, base, x, R, S, u) /\ Gone(u.id, R, S) /\ u.id # 0
      BY <1>0, <1>2 DEF w
    <3>2. o.id = u.id /\ o.qty = u.left /\ o.side = u.side /\ o.price = u.price /\ u.left \in Nat \ {0}
      BY <1>2, <2>1, <2>4
    <3>3. ev.type \in {"ACCEPTED", "PARTIAL"} /\ ev.id = u.id /\ ev.qty_remain = u.left
      BY <1>2, <2>3
    <3>4. EngineTyped(x) /\ Q = R \cup {o}
      BY <1>0
    <3> HIDE DEF u, S, Q
    <3>5. LET q == eq_push(x, ev)
          IN  Queues(q) /\ SameBook(q, x) /\ Sees(t, base, q, Q, S, NoOrder)
      BY <3>1, <3>2, <3>3, <3>4, RestSees
    <3> QED
      BY <2>3, <3>5
  <2>6. DOMAIN p = EngineFields /\ InView(t, base, p)
    BY <2>1, <2>5, SeesIsInView
  <2> QED
    BY <2>5, <2>6 DEF p, Viewed
<1> QED
  BY <1>0, <1>4, <1>5 DEF Awaited

(* Steps 4 to 6 of me_submit_order: the remainder is killed or told, then the top. *)
LEMMA SettleSees ==
  ASSUME NEW t, NEW base, NEW x, NEW R, NEW b, NEW left, NEW side, NEW type, NEW price, NEW qty, NEW filled,
         Awaiting(t, base, x, R, b, left, side, type, price, qty, filled)
  PROVE  LET r == Settle(x, b, filled, type, qty) IN r.out.id = b.id /\ InView(t, base, r.e)
<1> DEFINE r == Settle(x, b, filled, type, qty)
           kills == KillsRemainder(type, b.id, qty - filled)
           killed == emit_order_event(ob_cancel_order(x, b.id), "CANCELLED", b.id, type, qty, 0, filled)
           p == Lifecycle(IF kills THEN killed ELSE x, b.st, b.id, type, qty,
                          IF kills THEN 0 ELSE qty - filled, filled)
<1>1. r.e = maybe_emit_tob(p) /\ r.out.id = b.id
  <2> DEFINE out == [status |-> SubmitStatus(b.st, IF kills THEN 0 ELSE qty - filled, filled), id |-> b.id]
  <2>1. r = [e |-> maybe_emit_tob(p), scan |-> b.fills # <<>>, out |-> out]
    BY Zenon DEF Settle
  <2>2. out.id = b.id
    OBVIOUS
  <2> HIDE DEF out, p, r
  <2> QED
    BY <2>1, <2>2
<1>2. qty - filled = left /\ b.id # 0
  BY DEF Awaiting
<1>3. kills <=> type = "IOC" /\ left > 0
  BY <1>2 DEF KillsRemainder
<1>4. Viewed(t, base, p)
  <2>1. CASE kills
    <3>1. type = "IOC" /\ left > 0
      BY <1>3, <2>1
    <3>2. p = Lifecycle(killed, b.st, b.id, type, qty, 0, filled)
      <4> HIDE DEF killed, kills
      <4> QED
        BY <2>1
    <3>3. Awaiting(t, base, x, R, b, left, side, "IOC", price, qty, filled)
      BY <3>1
    <3> HIDE DEF p
    <3> QED
      BY <3>1, <3>2, <3>3, KilledSees
  <2>2. CASE ~kills
    <3>1. p = Lifecycle(x, b.st, b.id, type, qty, left, filled)
      <4> HIDE DEF killed, kills
      <4> QED
        BY <1>2, <2>2
    <3> HIDE DEF p
    <3> QED
      BY <3>1, LifecycleSees
  <2> QED
    BY <2>1, <2>2
<1> HIDE DEF p, r
<1>5. SameCore(r.e, p) /\ Sees(t, base, r.e, p.resting, StopIds(p), NoOrder)
  BY <1>1, <1>4, TopSees DEF InView, Viewed
<1>6. InView(t, base, r.e)
  BY <1>5 DEF InView, SameCore, StopIds, ActiveStops
<1> QED
  BY <1>1, <1>6 DEF r

(* What rests has the side and the price of the order. *)
LEMMA RestIs ==
  ASSUME NEW e, EngineTyped(e), NEW side \in Side, NEW price \in Nat, NEW qty \in Nat,
         NEW m, m = Match(e.resting, side, price, qty), m.left \in Nat,
         NEW b, b = ob_add_order(e, side, price, qty), Added(b, e, m), Rests(b, e, m)
  PROVE  \E o \in Order : /\ o.id = b.id /\ o.qty = m.left /\ o.side = side /\ o.price = price
                          /\ b.e.resting = m.resting \cup {o}
<1> DEFINE id == e.next_order_id
           n == Match(e.resting, side, price, qty)
           rest == [id |-> id, side |-> side, price |-> price, qty |-> n.left, ts |-> e.clock + 1]
           room == HasRoom(n.resting, side, price, OB_MAX_LEVELS)
           R == IF n.left > 0 /\ room THEN n.resting \cup {rest} ELSE n.resting
           h == Holding(e, R)
           a == [h EXCEPT !.next_order_id = @ + 1, !.clock = @ + 1]
           full == [e |-> e, st |-> "REJECTED", id |-> 0, fills |-> <<>>]
           c == [e |-> a, st |-> IF n.left > 0 /\ ~room THEN "REJECTED" ELSE "OK",
                 id |-> id, fills |-> n.fills]
<1>0. DOMAIN e = EngineFields /\ e.next_order_id \in Nat \ {0} /\ e.clock \in Nat
  BY DEF EngineTyped
<1>1. b.id # 0 /\ b.st = "OK" /\ m.left > 0
  BY <1>0 DEF Added, Rests
<1>2. b = c
  <2>1. b = IF Cardinality(e.resting) >= OB_MAX_ORDERS THEN full ELSE c
    BY Zenon DEF ob_add_order
  <2>2. full.id = 0
    OBVIOUS
  <2> HIDE DEF c, full
  <2> QED
    BY <1>1, <2>1, <2>2
<1>3. DOMAIN h = EngineFields /\ h.resting = R
  <2> HIDE DEF R
  <2> QED
    BY <1>0, HoldingIs
<1> HIDE DEF h, n, room, R
<1>4. a.resting = h.resting
  BY <1>3 DEF EngineFields
<1> HIDE DEF a
<1>5. c.e = a /\ c.id = id /\ c.st = IF n.left > 0 /\ ~room THEN "REJECTED" ELSE "OK"
  OBVIOUS
<1> HIDE DEF c
<1>6. n = m /\ room
  BY <1>1, <1>2, <1>5 DEF n
<1>7. rest \in Order /\ rest.id = id /\ rest.qty = n.left /\ rest.side = side /\ rest.price = price
  BY <1>0, <1>1, <1>6 DEF Order
<1> HIDE DEF rest
<1>8. b.e.resting = m.resting \cup {rest}
  BY <1>1, <1>2, <1>3, <1>4, <1>5, <1>6 DEF R
<1> QED
  BY <1>2, <1>5, <1>6, <1>7, <1>8

(* The book is full: nothing was done but to say so. *)
LEMMA FullSees ==
  ASSUME NEW t, NEW base, NEW e, EngineTyped(e), InView(t, base, e),
         NEW b, b = [e |-> e, st |-> "REJECTED", id |-> 0, fills |-> <<>>],
         NEW type, NEW side, NEW qty \in Nat
  PROVE  LET r == Booked(b, type, side, qty) IN r.out.id = 0 /\ InView(t, base, r.e)
<1> DEFINE r == Booked(b, type, side, qty)
           ev == [type |-> "REJECTED", id |-> 0, order_type |-> type, qty_original |-> qty,
                  qty_remain |-> qty, qty_filled |-> 0]
           p == eq_push(e, ev)
<1>1. b.e = e /\ b.st = "REJECTED" /\ b.id = 0 /\ b.fills = <<>> /\ Len(b.fills) = 0
  OBVIOUS
<1>2. TradesTold(b, side) = [e |-> e, filled |-> 0]
  <2>1. PICK g : g[0] = [e |-> b.e, filled |-> 0] /\ TradesTold(b, side) = g[Len(b.fills)]
    BY <1>1, TradedIs
  <2> QED
    BY <1>1, <2>1
<1>3. r = Settle(e, b, 0, type, qty)
  <2>1. TradesTold(b, side).e = e /\ TradesTold(b, side).filled = 0
    BY <1>2
  <2>2. r = Settle(TradesTold(b, side).e, b, TradesTold(b, side).filled, type, qty)
    BY Zenon DEF Booked
  <2> HIDE DEF r
  <2> QED
    BY <2>1, <2>2
<1>4. r.e = maybe_emit_tob(p) /\ r.out.id = 0
  <2> DEFINE kills == KillsRemainder(type, b.id, qty - 0)
             killed == emit_order_event(ob_cancel_order(e, b.id), "CANCELLED", b.id, type, qty, 0, 0)
             q == Lifecycle(IF kills THEN killed ELSE e, b.st, b.id, type, qty,
                            IF kills THEN 0 ELSE qty - 0, 0)
             out == [status |-> SubmitStatus(b.st, IF kills THEN 0 ELSE qty - 0, 0), id |-> b.id]
  <2>1. r = [e |-> maybe_emit_tob(q), scan |-> b.fills # <<>>, out |-> out]
    <3> HIDE DEF r
    <3> QED
      BY <1>3, Zenon DEF Settle
  <2>2. ~kills /\ qty - 0 = qty
    BY <1>1 DEF KillsRemainder
  <2>3. q = Lifecycle(e, "REJECTED", 0, type, qty, qty, 0)
    <3> HIDE DEF killed, kills
    <3> QED
      BY <1>1, <2>2
  <2>4. out.id = 0
    BY <1>1
  <2> HIDE DEF q, out, r, p
  <2>5. q = emit_order_event(e, "REJECTED", 0, type, qty, qty, 0)
    BY <2>3, LifecycleIs
  <2>6. q = p
    BY <2>5, Zenon DEF emit_order_event, p
  <2> QED
    BY <2>1, <2>4, <2>6
<1> HIDE DEF r
<1>5. DOMAIN e = EngineFields /\ Queues(e)
  BY TypedQueues
<1>6. ev.type # "TRADE" /\ ev.id = 0
  OBVIOUS
<1> HIDE DEF ev
<1>7. Queues(p) /\ SameBook(p, e) /\ Sees(t, base, p, e.resting, StopIds(e), NoOrder)
  BY <1>5, <1>6, NobodysEventSees DEF InView
<1> HIDE DEF p
<1>8. DOMAIN p = EngineFields /\ InView(t, base, p)
  BY <1>7, SeesIsInView
<1>9. SameCore(r.e, p) /\ Sees(t, base, r.e, p.resting, StopIds(p), NoOrder)
  BY <1>4, <1>7, <1>8, TopSees DEF InView
<1>10. InView(t, base, r.e)
  BY <1>9 DEF InView, SameCore, StopIds, ActiveStops
<1> QED
  BY <1>4, <1>10 DEF r

(* Refused before the book: likewise. *)
LEMMA RefusedSees ==
  ASSUME NEW t, NEW base, NEW e, EngineTyped(e), InView(t, base, e), NEW type, NEW qty
  PROVE  InView(t, base, Refused(e, type, qty))
<1> DEFINE ev == [type |-> "REJECTED", id |-> 0, order_type |-> type, qty_original |-> qty,
                  qty_remain |-> qty, qty_filled |-> 0]
           p == eq_push(e, ev)
           q == maybe_emit_tob(p)
<1>1. Refused(e, type, qty) = q
  BY Zenon DEF Refused, emit_order_event
<1>2. DOMAIN e = EngineFields /\ Queues(e)
  BY TypedQueues
<1>3. ev.type # "TRADE" /\ ev.id = 0
  OBVIOUS
<1> HIDE DEF ev
<1>4. Queues(p) /\ SameBook(p, e) /\ Sees(t, base, p, e.resting, StopIds(e), NoOrder)
  BY <1>2, <1>3, NobodysEventSees DEF InView
<1> HIDE DEF p
<1>5. DOMAIN p = EngineFields /\ InView(t, base, p)
  BY <1>4, SeesIsInView
<1>6. SameCore(q, p) /\ Sees(t, base, q, p.resting, StopIds(p), NoOrder)
  BY <1>4, <1>5, TopSees DEF InView
<1> HIDE DEF q
<1>7. InView(t, base, q)
  BY <1>6 DEF InView, SameCore, StopIds, ActiveStops
<1> QED
  BY <1>1, <1>7

(* The engine answers with the id it gave the order. *)
LEMMA SettleId ==
  ASSUME NEW x, NEW b, NEW filled, NEW type, NEW qty
  PROVE  Settle(x, b, filled, type, qty).out.id = b.id
<1> DEFINE r == Settle(x, b, filled, type, qty)
           kills == KillsRemainder(type, b.id, qty - filled)
           killed == emit_order_event(ob_cancel_order(x, b.id), "CANCELLED", b.id, type, qty, 0, filled)
           p == Lifecycle(IF kills THEN killed ELSE x, b.st, b.id, type, qty,
                          IF kills THEN 0 ELSE qty - filled, filled)
           out == [status |-> SubmitStatus(b.st, IF kills THEN 0 ELSE qty - filled, filled), id |-> b.id]
<1>1. r = [e |-> maybe_emit_tob(p), scan |-> b.fills # <<>>, out |-> out]
  BY Zenon DEF Settle
<1>2. out.id = b.id
  OBVIOUS
<1> HIDE DEF out, p, r
<1>3. r.out.id = b.id
  BY <1>1, <1>2
<1> QED
  BY <1>3 DEF r

(* Steps 2 to 5. *)
LEMMA BookedSees ==
  ASSUME NEW t, NEW base, NEW v, NEW e, EInv(v, e), NEW type, NEW side \in Side,
         NEW price \in Nat, NEW qty \in Nat \ {0},
         NEW r, r = Booked(ob_add_order(e, side, price, qty), type, side, qty),
         Sees(t, base, e, e.resting, StopIds(e), Taking(r, e, side, type, price, qty))
  PROVE  InView(t, base, r.e)
<1> DEFINE b == ob_add_order(e, side, price, qty)
           m == Match(e.resting, side, price, qty)
           x == TradesTold(b, side)
<1>0. EngineTyped(e) /\ Numbered(e) /\ AllSound(e)
  BY DEF EInv
<1>1. IsBook(e.resting)
  BY <1>0, BookOfEngine
<1>2. Filling(m, e.resting, side, price, qty) /\ m.left \in Nat /\ m.left <= qty
  BY <1>1, MatchFills DEF Filling
<1>3. \/ b = [e |-> e, st |-> "REJECTED", id |-> 0, fills |-> <<>>]
      \/ Added(b, e, m) /\ (Rests(b, e, m) \/ Leaves(b, m))
  BY <1>0, <1>2, AddIs
<1>4. r = Settle(x.e, b, x.filled, type, qty)
  BY Zenon DEF Booked
<1>5. r = Booked(b, type, side, qty)
  OBVIOUS
<1>6. ASSUME Rests(b, e, m), Added(b, e, m)
      PROVE  \E o \in Order : /\ o.id = b.id /\ o.qty = m.left /\ o.side = side /\ o.price = price
                              /\ b.e.resting = m.resting \cup {o}
  <2> DEFINE c == b
             n == m
  <2>1. Added(c, e, n) /\ Rests(c, e, n) /\ n.left \in Nat
    BY <1>2, <1>6
  <2>2. n = Match(e.resting, side, price, qty) /\ c = ob_add_order(e, side, price, qty)
    OBVIOUS
  <2> HIDE DEF c, n
  <2>3. \E o \in Order : /\ o.id = c.id /\ o.qty = n.left /\ o.side = side /\ o.price = price
                         /\ c.e.resting = n.resting \cup {o}
    BY <1>0, <2>1, <2>2, RestIs
  <2> QED
    BY <2>3 DEF c, n
<1> HIDE DEF b
<1>7. CASE b = [e |-> e, st |-> "REJECTED", id |-> 0, fills |-> <<>>]
  <2>1. ASSUME InView(t, base, e) PROVE r.out.id = 0 /\ InView(t, base, r.e)
    BY <1>0, <1>5, <1>7, <2>1, FullSees
  <2>2. r.out.id = 0
    <3>1. r.out.id = b.id
      BY <1>4, SettleId
    <3> QED
      BY <1>7, <3>1
  <2>3. InView(t, base, e)
    BY <2>2 DEF Taking, InView
  <2> QED
    BY <2>1, <2>3
<1>8. CASE Added(b, e, m) /\ (Rests(b, e, m) \/ Leaves(b, m))
  <2>1. /\ EngineTyped(x.e) /\ SameBook(x.e, b.e) /\ x.filled = qty - m.left
        /\ x.e.resting = b.e.resting /\ StopIds(x.e) = StopIds(b.e)
    <3>1. /\ EngineTyped(x.e) /\ Numbered(x.e) /\ AllSound(x.e)
          /\ SameBook(x.e, b.e) /\ KnownAs(v, x.e, m.resting)
          /\ x.filled = qty - m.left
          /\ b.fills = <<>> => SameTrade(x.e, e)
      BY <1>8, TradedKeeps
    <3> HIDE DEF m, x
    <3>2. x.e.resting = b.e.resting /\ x.e.stops = b.e.stops
      BY <3>1 DEF SameBook
    <3>3. StopIds(x.e) = StopIds(b.e)
      BY <3>2 DEF StopIds, ActiveStops
    <3> QED
      BY <3>1, <3>2, <3>3
  <2>2. /\ StopIds(b.e) = StopIds(e) /\ b.id \notin StopIds(e)
        /\ b.id \notin Ids(m.resting) /\ b.id \in Nat \ {0} /\ b.id = e.next_order_id
    <3> DEFINE n == m
    <3>1. Filling(n, e.resting, side, price, qty) /\ Added(b, e, n) /\ (Rests(b, e, n) \/ Leaves(b, n))
      BY <1>2, <1>8
    <3> HIDE DEF n
    <3>2. /\ StopIds(b.e) = StopIds(e) /\ b.id \notin StopIds(e)
          /\ b.id \notin Ids(n.resting) /\ b.id \in Nat \ {0}
      BY <1>0, <3>1, AddedKeeps
    <3> QED
      BY <3>1, <3>2 DEF n, Added
  <2>3. r.out.id = b.id
    BY <1>4, SettleId
  <2>4. Sees(t, base, e, e.resting, StopIds(e), Working(b.id, side, type, price, qty))
    BY <2>2, <2>3 DEF Taking
  <2>5. Sees(t, base, x.e, m.resting, StopIds(e), Working(b.id, side, type, price, m.left))
    <3> DEFINE n == m
    <3>1. n = Match(e.resting, side, price, qty) /\ Added(b, e, n)
      BY <1>8
    <3> HIDE DEF n
    <3>2. LET y == TradesTold(b, side)
          IN  /\ SameBook(y.e, b.e) /\ Queues(y.e)
              /\ Sees(t, base, y.e, n.resting, StopIds(e), Working(b.id, side, type, price, n.left))
      BY <1>0, <2>4, <3>1, TradedSees
    <3> QED
      BY <3>2 DEF n
  <2> HIDE DEF x
  <2>6. x.e.resting = b.e.resting /\ StopIds(x.e) = StopIds(e)
    BY <2>1, <2>2
  <2>7. Awaited(x.e, b, m.resting, m.left, side, price)
    <3>1. CASE Rests(b, e, m)
      <4>1. b.st = "OK" /\ m.left > 0
        BY <3>1 DEF Rests
      <4> HIDE DEF m
      <4> QED
        BY <1>6, <1>8, <2>6, <3>1, <4>1 DEF Awaited
    <3>2. CASE Leaves(b, m)
      <4> HIDE DEF m
      <4> QED
        BY <2>6, <3>2 DEF Leaves, Awaited
    <3> QED
      BY <1>8, <3>1, <3>2
  <2> HIDE DEF m
  <2> DEFINE y == x.e
             R == m.resting
             left == m.left
             filled == x.filled
  <2>8. filled \in Nat /\ filled = qty - left /\ left \in Nat /\ qty \in Nat
    BY <1>2, <2>1
  <2>9. Gone(b.id, R, StopIds(y))
    BY <2>2, <2>6 DEF Gone
  <2>10. Awaiting(t, base, y, R, b, left, side, type, price, qty, filled)
    BY <2>1, <2>2, <2>5, <2>6, <2>7, <2>8, <2>9 DEF Awaiting
  <2>11. r = Settle(y, b, filled, type, qty)
    BY <1>4
  <2> HIDE DEF y, R, left, filled
  <2>12. LET q == Settle(y, b, filled, type, qty) IN q.out.id = b.id /\ InView(t, base, q.e)
    BY <2>10, SettleSees
  <2> QED
    BY <2>11, <2>12
<1> QED
  BY <1>3, <1>7, <1>8

(* me_submit_order as a whole, whatever the order's type. *)
LEMMA SubmitSees ==
  ASSUME NEW t, NEW base, NEW v, NEW e, EInv(v, e), NEW type, NEW side \in Side,
         NEW price \in Nat, NEW qty \in Nat \ {0},
         NEW r, r = me_submit_order(e, type, side, price, qty),
         NEW limit, type # "MARKET" => limit = price,
         Sees(t, base, e, e.resting, StopIds(e), Taking(r, e, side, type, limit, qty))
  PROVE  InView(t, base, r.e)
<1> DEFINE at == IF type = "MARKET" THEN orders_market_sentinel(side) ELSE price
           b == Booked(ob_add_order(e, side, at, qty), type, side, qty)
           c == [e |-> Refused(e, type, qty), scan |-> FALSE, out |-> [status |-> "REJECTED", id |-> 0]]
<1>1. r = IF Accepts(e.resting, type, side, price, qty) THEN b ELSE c
  BY Zenon DEF me_submit_order
<1>2. at \in Nat
  BY EngineAssumption DEF orders_market_sentinel
<1>3. type # "MARKET" => at = limit
  OBVIOUS
<1> HIDE DEF at
<1>4. CASE Accepts(e.resting, type, side, price, qty)
  <2>1. r = b
    <3> HIDE DEF b
    <3> QED
      BY <1>1, <1>4
  <2>2. Sees(t, base, e, e.resting, StopIds(e), Taking(r, e, side, type, at, qty))
    <3>1. CASE r.out.id = 0 \/ type # "MARKET"
      BY <1>3, <3>1 DEF Taking
    <3>2. CASE r.out.id # 0 /\ type = "MARKET"
      <4> DEFINE n == e.next_order_id
                 w == Working(n, side, type, limit, qty)
                 u == Working(n, side, type, at, qty)
                 R == e.resting
                 S == StopIds(e)
      <4>1. /\ w.id = n /\ w.side = side /\ w.type = type /\ w.left = qty
            /\ u.id = n /\ u.side = side /\ u.type = type /\ u.left = qty
        BY DEF Working
      <4>2. Sees(t, base, e, R, S, w)
        BY <3>2 DEF Taking
      <4> HIDE DEF w, u, R, S
      <4>3. ASSUME NEW s, Coming(s, w) PROVE Coming(s, u)
        BY <3>2, <4>1, <4>3 DEF Coming
      <4>4. Sees(t, base, e, R, S, u)
        <5> SUFFICES ASSUME e.dropped = 0 PROVE Shown(t, Seen(base, e), R, S, e.lost, u)
          BY DEF Sees
        <5> DEFINE d == Seen(base, e)
        <5>1. Shown(t, d, R, S, e.lost, w)
          BY <4>2 DEF Sees
        <5> HIDE DEF d
        <5>2. Shows(d, R, S, e.lost, u)
          BY <4>1, <4>3, <5>1 DEF Shown, Shows
        <5>3. Streams(t, d, u)
          <6>1. \A id \in DOMAIN d.slots : ~Pending(t, d, id, u) => ~Pending(t, d, id, w)
            BY <4>1 DEF Pending
          <6> QED
            BY <5>1, <6>1, StreamsSame DEF Shown
        <5> QED
          BY <5>1, <5>2, <5>3 DEF Shown, d
      <4> QED
        BY <3>2, <4>4 DEF Taking, u, R, S
    <3> QED
      BY <3>1, <3>2
  <2>3. InView(t, base, r.e)
    <3> DEFINE q == r
    <3>1. q = Booked(ob_add_order(e, side, at, qty), type, side, qty)
      BY <2>1
    <3>2. Sees(t, base, e, e.resting, StopIds(e), Taking(q, e, side, type, at, qty))
      BY <2>2
    <3> HIDE DEF q
    <3>3. InView(t, base, q.e)
      BY <1>2, <3>1, <3>2, BookedSees
    <3> QED
      BY <3>3 DEF q
  <2> QED
    BY <2>3
<1>5. CASE ~Accepts(e.resting, type, side, price, qty)
  <2>1. r = c
    <3> HIDE DEF b, c
    <3> QED
      BY <1>1, <1>5
  <2>2. r.e = Refused(e, type, qty) /\ r.out.id = 0
    BY <2>1
  <2>3. InView(t, base, e) /\ EngineTyped(e)
    BY <2>2 DEF Taking, InView, EInv
  <2> QED
    BY <2>2, <2>3, RefusedSees
<1> QED
  BY <1>4, <1>5

-----------------------------------------------------------------------------
(* What is shown, one step of the bridge at a time. *)

(* Whatever the engine has queued, the ids stay matched as they are. *)
LEMMA SeenRegistry ==
  ASSUME NEW base, Registry(base), Queue(base), NEW e, Queues(e)
  PROVE  LET p == Seen(base, e) IN Registry(p) /\ Queue(p) /\ SameRegistry(p, base)
<1> DEFINE N == Len(e.eq)
           s == e.eq
           Done(p) == Registry(p) /\ Queue(p) /\ SameRegistry(p, base)
<1>1. N \in Nat /\ Len(s) = N
  BY DEF Queues, IsSeq
<1>2. PICK g : /\ g[0] = base
               /\ \A n \in 1..N : g[n] = StagedEvent(g[n - 1], s[n])
               /\ process_staged_events(base, s) = g[N]
  <2>0. Len(s) \in Nat
    BY <1>1
  <2> HIDE DEF s
  <2>1. \E g : /\ g[0] = base
               /\ \A n \in 1..Len(s) : g[n] = StagedEvent(g[n - 1], s[n])
               /\ process_staged_events(base, s) = g[Len(s)]
    BY <2>0, ProcessedIs, Zenon
  <2> QED
    BY <1>1, <2>1
<1> DEFINE G == {n \in Nat : n <= N => Done(g[n])}
<1>3. 0 \in G
  <2>1. SameRegistry(base, base)
    BY DEF Registry, SameRegistry, SameOrder
  <2> QED
    BY <1>2, <2>1
<1>4. ASSUME NEW n \in Nat, n \in G PROVE n + 1 \in G
  <2> SUFFICES ASSUME n + 1 <= N PROVE Done(g[n + 1])
    OBVIOUS
  <2>1. n <= N /\ n + 1 \in 1..N /\ (n + 1) - 1 = n
    BY <1>1
  <2> DEFINE x == g[n]
             y == g[n + 1]
             ev == s[n + 1]
  <2>2. y = StagedEvent(x, ev)
    BY <1>2, <2>1, Zenon
  <2>3. Done(x)
    BY <1>4, <2>1
  <2> SUFFICES Done(y)
    OBVIOUS
  <2> HIDE DEF x, y, ev, G
  <2>4. Registry(y) /\ Queue(y) /\ SameRegistry(y, x)
    BY <2>2, <2>3, StagedKeeps
  <2> QED
    BY <2>3, <2>4, SameRegistryChain
<1>5. Nat \subseteq G
  <2> HIDE DEF G
  <2> QED
    BY <1>3, <1>4, SetOfNats
<1>6. Done(g[N])
  BY <1>1, <1>5
<1> QED
  BY <1>2, <1>6 DEF Seen

(* Of an order whose id is not registered, clients see nothing. *)
LEMMA UnregisteredSees ==
  ASSUME NEW t, NEW base, Registry(base), Queue(base), NEW e, Queues(e), NEW R, NEW S,
         Sees(t, base, e, R, S, NoOrder), NEW u, u.id = 0 \/ u.id \notin DOMAIN base.me_to_gw
  PROVE  Sees(t, base, e, R, S, u)
<1> SUFFICES ASSUME e.dropped = 0 PROVE Shown(t, Seen(base, e), R, S, e.lost, u)
  BY DEF Sees
<1> DEFINE d == Seen(base, e)
<1>1. Shown(t, d, R, S, e.lost, NoOrder)
  BY DEF Sees
<1>2. d.me_to_gw = base.me_to_gw
  BY SeenRegistry DEF SameRegistry
<1> HIDE DEF d
<1>3. 0 \notin DOMAIN d.me_to_gw
  BY <1>1 DEF Shown, Matched
<1>4. NoOrder.id \notin DOMAIN d.me_to_gw /\ u.id \notin DOMAIN d.me_to_gw
  BY <1>2, <1>3 DEF NoOrder
<1>5. Shown(t, d, R, S, e.lost, u)
  BY <1>1, <1>4, ShownElse
<1> QED
  BY <1>5 DEF d

(* A stop fires: the order it becomes has a new id, which no client knows. *)
LEMMA FireSees ==
  ASSUME NEW t, NEW base, Registry(base), Queue(base), NEW v, EInv(v, me), InView(t, base, me),
         me.next_order_id \notin DOMAIN base.me_to_gw, FireStop
  PROVE  InView(t, base, me')
<1> DEFINE scan == Last(stack)
<1>1. PICK i \in Hits(scan) : Fire(i, scan)
  BY DEF FireStop
<1>2. i \in ActiveStops(me) /\ i \in Slots
  BY DEF Hits, ActiveStops
<1> HIDE DEF scan
<1> DEFINE s == me.stops[i]
           armed == emit_order_event(Disarm(me, i), "STOP_TRIGGERED", s.id, s.orig_type, s.qty, s.qty, 0)
           type == IF s.orig_type = "STOP" THEN "MARKET" ELSE "LIMIT"
           r == me_submit_order(armed, type, s.side, s.limit, s.qty)
           u == Taking(r, armed, s.side, type, s.limit, s.qty)
<1>3. me' = r.e
  BY <1>1, Zenon DEF Fire, GoOn
<1>4. EInv(v, armed) /\ Disarmed(armed, me, i)
  BY <1>2, ArmedKeeps
<1>5. s \in Stop
  BY <1>2, StopFields DEF EInv
<1>6. s.side \in Side /\ s.limit \in Nat /\ s.qty \in Nat \ {0}
  BY <1>5 DEF Stop
<1>7. InView(t, base, armed)
  <2> DEFINE ev == [type |-> "STOP_TRIGGERED", id |-> s.id, order_type |-> s.orig_type,
                    qty_original |-> s.qty, qty_remain |-> s.qty, qty_filled |-> 0]
  <2>1. armed = eq_push(Deactivate(me, i), ev)
    BY Zenon DEF Disarm, emit_order_event
  <2>2. ev.id = me.stops[i].id /\ ev.type = "STOP_TRIGGERED" /\ ev.qty_remain # 0
    BY <1>6
  <2>3. EngineTyped(me) /\ Numbered(me)
    BY DEF EInv
  <2> HIDE DEF armed, ev
  <2>4. LET p == eq_push(Deactivate(me, i), ev) IN InView(t, base, p)
    BY <1>2, <2>2, <2>3, DisarmSees
  <2> QED
    BY <2>1, <2>4
<1>8. Queues(armed) /\ armed.next_order_id = me.next_order_id
  <2> HIDE DEF armed
  <2> QED
    BY <1>4, TypedQueues DEF EInv, Disarmed
<1>9. u.id = 0 \/ u.id = me.next_order_id
  <2> HIDE DEF armed, type, s, r
  <2> QED
    BY <1>8 DEF Taking, NoOrder, Working
<1> DEFINE qty == s.qty
           side == s.side
           limit == s.limit
<1>10. r = me_submit_order(armed, type, side, limit, qty) /\ u = Taking(r, armed, side, type, limit, qty)
  OBVIOUS
<1>11. side \in Side /\ limit \in Nat /\ qty \in Nat \ {0}
  BY <1>6
<1> HIDE DEF armed, type, s, r, u, qty, side, limit
<1>12. Sees(t, base, armed, armed.resting, StopIds(armed), u)
  <2> DEFINE R == armed.resting
             S == StopIds(armed)
  <2>1. Sees(t, base, armed, R, S, NoOrder)
    BY <1>7 DEF InView
  <2> HIDE DEF R, S
  <2>2. Sees(t, base, armed, R, S, u)
    BY <1>8, <1>9, <2>1, UnregisteredSees
  <2> QED
    BY <2>2 DEF R, S
<1>13. InView(t, base, r.e)
  BY <1>4, <1>10, <1>11, <1>12, SubmitSees
<1> QED
  BY <1>3, <1>13

(* Of the call, what is told looks at the new order, and at the registry    *)
(* before it.                                                               *)
LEMMA StreamsElse ==
  ASSUME NEW t, NEW b, NEW w, Streams(t, b, w), NEW u, u.client = t.client, SinceCall(u, b),
         NEW z, \A x \in DOMAIN b.slots : ~Pending(u, b, x, z) => ~Pending(t, b, x, w)
  PROVE  Streams(u, b, z)
<1>1. Behind(u.client, b) /\ Final(u, b)
  BY DEF Streams, Final
<1>2. ASSUME Complete(u.client, b) PROVE UpToDate(u, View(u.client, b), b, z)
  <2> DEFINE d == View(u.client, b)
  <2>1. UpToDate(t, d, b, w)
    BY <1>2 DEF Streams, Surfaces
  <2> HIDE DEF d
  <2>2. UpToDate(u, d, b, z)
    BY <2>1 DEF UpToDate
  <2> QED
    BY <2>2 DEF d
<1> QED
  BY <1>1, <1>2 DEF Streams, Surfaces

(* A registry has not changed since it was what it is. *)
LEMMA SinceNow ==
  ASSUME NEW u, NEW b, u.base = b
  PROVE  SinceCall(u, b)
  BY DEF SinceCall

(* An order that an event has touched needs no answer. *)
LEMMA EndedShown ==
  ASSUME NEW t, NEW b, NEW R, NEW S, NEW lost, Shown(t, b, R, S, lost, NoOrder),
         t.call = 0 \/ b.slots[t.call].touched, NEW u, Ended(u, t, b)
  PROVE  Shown(u, b, R, S, lost, NoOrder)
<1>1. Matched(b, u.last) /\ Queue(b) /\ u.call = 0 /\ Shows(b, R, S, lost, NoOrder)
  BY DEF Shown, Ended
<1>2. 0 \notin DOMAIN b.slots
  BY <1>1 DEF Matched, Registry
<1>3. ASSUME NEW x \in DOMAIN b.slots, b.slots[x].me_id = 0 PROVE x # t.call
  <2>1. x = t.call => ~b.slots[x].touched
    BY <1>3 DEF Shown, Waiting
  <2> QED
    BY <1>2, <2>1
<1>4. Waiting(u, b)
  BY <1>1, <1>2, <1>3 DEF Shown, Waiting
<1>5. Streams(u, b, NoOrder)
  <2>1. \A x \in DOMAIN b.slots : ~Pending(u, b, x, NoOrder) => ~Pending(t, b, x, NoOrder)
    BY <1>3 DEF Pending, NoOrder
  <2>2. SinceCall(u, b) /\ u.client = t.client
    BY SinceNow DEF Ended
  <2> QED
    BY <2>1, <2>2, StreamsElse DEF Shown
<1>6. Heard(u, b)
  BY <1>1 DEF Heard
<1> QED
  BY <1>1, <1>4, <1>5, <1>6 DEF Shown

(* One that none has touched gets it. *)
LEMMA AnsweredShown ==
  ASSUME NEW t, NEW b, NEW R, NEW S, NEW lost, Shown(t, b, R, S, lost, NoOrder), t.call = call,
         NEW p, p = Answered(b), NEW u, Ended(u, t, p)
  PROVE  Shown(u, p, R, S, lost, NoOrder) /\ (call # 0 => p.evq # <<>>)
<1>1. /\ Matched(b, t.last) /\ Queue(b) /\ (t.call = 0 \/ t.call \in DOMAIN b.slots)
      /\ Waiting(t, b) /\ Shows(b, R, S, lost, NoOrder) /\ Streams(t, b, NoOrder) /\ Heard(t, b)
  BY DEF Shown
<1>2. Registry(b)
  BY <1>1 DEF Matched
<1>3. \/ p = b /\ (call = 0 \/ b.slots[call].touched)
      \/ \E b1 : AnswerSteps(p, b, b1)
  BY <1>1, <1>2, AnsweredSteps
<1>4. CASE p = b /\ (call = 0 \/ b.slots[call].touched)
  <2>1. Shown(u, b, R, S, lost, NoOrder)
    BY <1>4, EndedShown
  <2>2. call # 0 => p.evq # <<>>
    BY <1>1, <1>4 DEF Heard
  <2> QED
    BY <1>4, <2>1, <2>2
<1>5. CASE \E b1 : AnswerSteps(p, b, b1)
  <2>1. PICK b1 : AnswerSteps(p, b, b1)
    BY <1>5
  <2> DEFINE s == Declined(b.slots[call])
  <2>2. /\ call # 0 /\ call \in DOMAIN b.slots /\ ~b.slots[call].touched
        /\ OneSlot(b1, b, call, s) /\ Queue(b1) /\ SameRegistry(b1, b)
        /\ Pushed(p, b1, Snapshot(call, b1.slots[call]))
        /\ Registry(p) /\ Queue(p) /\ SameOrders(p, b1)
    BY <2>1 DEF AnswerSteps
  <2>3. SameOrder(s, b.slots[call]) /\ s.touched = TRUE /\ s.status = "REJECTED"
    BY <1>2, <2>2, DeclinedSlot DEF Registry
  <2> HIDE DEF s
  <2>4. b.slots[call].me_id = 0
    <3> DEFINE i == b.slots[call].me_id
    <3>1. ASSUME i # 0 PROVE b.slots[call].touched
      <4>1. i \in DOMAIN b.me_to_gw /\ b.me_to_gw[i] = call
        BY <1>1, <2>2, <3>1 DEF Matched
      <4>2. Fits(b.slots[call], i, R, S, lost)
        BY <1>1, <3>1, <4>1 DEF Shows, NoOrder
      <4> QED
        BY <4>2 DEF Fits
    <3> QED
      BY <2>2, <3>1
  <2>5. Progress(s, b.slots[call])
    BY <1>1, <2>2, <2>4 DEF Waiting, Progress, Live
  <2>6. SameRegistry(p, b) /\ p.me_to_gw = b.me_to_gw /\ DOMAIN p.slots = DOMAIN b.slots
        /\ (\A x \in DOMAIN b.slots : p.slots[x] = IF x = call THEN s ELSE b.slots[x])
    BY <2>2 DEF SameRegistry, SameOrders, OneSlot
  <2>7. Matched(p, u.last)
    BY <1>1, <2>2, <2>6, MatchedSame DEF Ended
  <2>8. Waiting(u, p)
    <3>1. u.call = 0 /\ 0 \notin DOMAIN p.slots
      BY <2>2 DEF Ended, Registry
    <3>2. ASSUME NEW x \in DOMAIN p.slots, p.slots[x].me_id = 0
          PROVE  p.slots[x].touched /\ p.slots[x].status = "REJECTED"
      <4>1. CASE x = call
        BY <2>3, <2>6, <4>1
      <4>2. CASE x # call
        <5>1. p.slots[x] = b.slots[x]
          BY <2>6, <4>2
        <5> QED
          BY <1>1, <2>6, <3>2, <4>2, <5>1 DEF Waiting
      <4> QED
        BY <4>1, <4>2
    <3> QED
      BY <3>1, <3>2 DEF Waiting
  <2>9. Shows(p, R, S, lost, NoOrder)
    <3>1. ASSUME NEW i \in DOMAIN b.me_to_gw PROVE p.slots[b.me_to_gw[i]] = b.slots[b.me_to_gw[i]]
      <4>1. b.me_to_gw[i] \in DOMAIN b.slots /\ b.slots[b.me_to_gw[i]].me_id = i /\ i # 0
        BY <1>1 DEF Matched, Registry
      <4> QED
        BY <2>4, <2>6, <4>1
    <3> QED
      BY <1>1, <2>6, <3>1 DEF Shows
  <2> DEFINE r == [base |-> t.base, call |-> 0, client |-> t.client, last |-> t.last]
  <2>10. r.client = t.client /\ r.base = t.base /\ r.call = 0
    OBVIOUS
  <2> HIDE DEF r
  <2>11. \A x \in DOMAIN b.slots : x # call /\ ~Pending(r, b, x, NoOrder) => ~Pending(t, b, x, NoOrder)
    BY <2>10 DEF Pending, NoOrder
  <2>12. Streams(r, p, NoOrder) /\ p.evq # <<>>
    BY <1>1, <1>2, <2>2, <2>3, <2>5, <2>10, <2>11, ToldStreams
  <2>13. Streams(u, p, NoOrder)
    <3>1. \A x \in DOMAIN p.slots : ~Pending(u, p, x, NoOrder) => ~Pending(r, p, x, NoOrder)
      BY <2>10 DEF Pending, Ended
    <3>2. SinceCall(u, p) /\ u.client = r.client
      BY <2>10, SinceNow DEF Ended
    <3> QED
      BY <2>12, <3>1, <3>2, StreamsElse
  <2>14. u.call = 0 /\ Heard(u, p)
    BY DEF Ended, Heard
  <2> QED
    BY <2>2, <2>7, <2>8, <2>9, <2>12, <2>13, <2>14 DEF Shown
<1> QED
  BY <1>3, <1>4, <1>5

(* The gateway's ids go up. *)
LEMMA LaterShown ==
  ASSUME NEW t, NEW b, NEW R, NEW S, NEW lost, NEW w, Shown(t, b, R, S, lost, w),
         NEW u, u.call = t.call, u.client = t.client, u.base = t.base, Matched(b, u.last)
  PROVE  Shown(u, b, R, S, lost, w)
<1>1. /\ Queue(b) /\ (u.call = 0 \/ u.call \in DOMAIN b.slots)
      /\ Waiting(u, b) /\ Shows(b, R, S, lost, w) /\ Heard(u, b)
  BY DEF Shown, Waiting, Heard
<1>2. Streams(u, b, w)
  <2>1. \A x \in DOMAIN b.slots : ~Pending(u, b, x, w) => ~Pending(t, b, x, w)
    BY DEF Pending
  <2>2. SinceCall(u, b)
    BY DEF Shown, Streams, Final, SinceCall
  <2> QED
    BY <2>1, <2>2, StreamsElse DEF Shown
<1> QED
  BY <1>1, <1>2 DEF Shown

(* A new order in its slot: a call begins. *)
LEMMA EnteredShown ==
  ASSUME NEW t, NEW b, NEW R, NEW S, NEW lost, Shown(t, b, R, S, lost, NoOrder), t.call = 0,
         t.last \in Nat, NEW id \in Nat, id > t.last, HasSlot(id), NEW s, DOMAIN s = SlotFields, s.me_id = 0,
         ~s.touched, s.status = "OPEN", NEW p, Enlarged(p, b, id, s),
         NEW u, u.call = id, u.client = t.client, u.last = id, u.base = p
  PROVE  Shown(u, p, R, S, lost, NoOrder)
<1>1. /\ Matched(b, t.last) /\ Queue(b) /\ Waiting(t, b) /\ Shows(b, R, S, lost, NoOrder)
      /\ Streams(t, b, NoOrder)
  BY DEF Shown
<1>2. /\ Matched(p, id) /\ Queue(p) /\ p.evq = b.evq /\ p.next_seq = b.next_seq
      /\ p.me_to_gw = b.me_to_gw /\ id \in DOMAIN p.slots /\ p.slots[id] = s
  <2> DEFINE map == <<>>
             last == t.last
  <2>1. last \in Nat /\ id > last /\ Matched(b, last)
    BY <1>1
  <2> HIDE DEF last
  <2> QED
    BY <1>1, <2>1, SlotAdded
<1>3. id \notin DOMAIN b.slots
  BY <1>1 DEF Matched
<1>4. /\ DOMAIN p.slots = DOMAIN b.slots \cup {id}
      /\ \A x \in DOMAIN b.slots : p.slots[x] = b.slots[x]
  <2> DEFINE f == Put(b.slots, id, s)
  <2>1. p = [b EXCEPT !.slots = f] /\ DOMAIN b = BridgeFields
    BY <1>1 DEF Enlarged, Queue
  <2>2. DOMAIN f = DOMAIN b.slots \cup {id} /\ \A x \in DOMAIN b.slots : f[x] = b.slots[x]
    BY <1>3 DEF Put
  <2> HIDE DEF f
  <2>3. p.slots = f
    BY <2>1 DEF BridgeFields
  <2> QED
    BY <2>2, <2>3
<1>5. 0 \notin DOMAIN b.slots
  BY <1>1 DEF Matched, Registry
<1>6. Waiting(u, p)
  BY <1>1, <1>2, <1>3, <1>4, <1>5 DEF Waiting
<1>7. Shows(p, R, S, lost, NoOrder)
  <2>1. \A i \in DOMAIN b.me_to_gw : p.slots[b.me_to_gw[i]] = b.slots[b.me_to_gw[i]]
    BY <1>1, <1>4 DEF Matched, Registry
  <2> QED
    BY <1>1, <1>2, <2>1 DEF Shows
<1>8. Streams(u, p, NoOrder)
  <2>1. Behind(u.client, p)
    BY <1>1, <1>2 DEF Streams, Behind
  <2>2. ASSUME Complete(u.client, p) PROVE UpToDate(u, View(u.client, p), p, NoOrder)
    <3> DEFINE d == View(t.client, b)
    <3>1. UpToDate(t, d, b, NoOrder) /\ View(u.client, p) = d
      BY <1>1, <1>2, <2>2 DEF Streams, Surfaces, Complete, View
    <3> HIDE DEF d
    <3>2. ASSUME NEW x \in DOMAIN p.slots, ~Pending(u, p, x, NoOrder)
          PROVE  x \in DOMAIN d.orders /\ StateTold(d.orders[x], p.slots[x])
      <4>1. x # id
        BY <1>2, <3>2 DEF Pending
      <4>2. x \in DOMAIN b.slots /\ p.slots[x] = b.slots[x]
        BY <1>4, <4>1
      <4>3. ~Pending(t, b, x, NoOrder)
        BY <1>5, <4>2 DEF Pending, NoOrder
      <4> QED
        BY <3>1, <4>2, <4>3 DEF UpToDate
    <3> QED
      BY <1>2, <3>1, <3>2 DEF UpToDate
  <2>3. Ends(p) /\ EndsOnce(p)
    <3>1. Ends(b) /\ EndsOnce(b)
      BY <1>1 DEF Streams, Final
    <3> QED
      BY <1>2, <1>4, <3>1 DEF Ends, EndsOnce
  <2>4. Final(u, p)
    BY <2>3, SinceNow DEF Final
  <2> QED
    BY <2>1, <2>2, <2>4 DEF Streams, Surfaces
<1>9. Heard(u, p)
  BY <1>2 DEF Heard
<1> QED
  BY <1>2, <1>6, <1>7, <1>8, <1>9 DEF Shown

(* The new order gets an engine id: the engine is busy with it. *)
LEMMA LinkedShown ==
  ASSUME NEW t, NEW b, NEW R, NEW S, NEW lost, Shown(t, b, R, S, lost, NoOrder), t.call \in DOMAIN b.slots,
         NEW w, w.id # 0, Coming(b.slots[t.call], w), ~b.slots[t.call].touched, b.slots[t.call].me_id = 0,
         NEW p, Linked(p, b, t.call, w.id), Matched(p, t.last), Queue(p)
  PROVE  Shown(t, p, R, S, lost, w)
<1> DEFINE id == t.call
           s == [b.slots[id] EXCEPT !.me_id = w.id]
<1>1. /\ Matched(b, t.last) /\ Queue(b) /\ Waiting(t, b) /\ Shows(b, R, S, lost, NoOrder)
      /\ Streams(t, b, NoOrder)
  BY DEF Shown
<1>2. /\ p.evq = b.evq /\ p.next_seq = b.next_seq /\ p.me_to_gw = Put(b.me_to_gw, w.id, id)
      /\ DOMAIN p.slots = DOMAIN b.slots /\ p.slots[id] = s
      /\ \A x \in DOMAIN b.slots : x # id => p.slots[x] = b.slots[x]
  BY DEF Linked
<1>3. DOMAIN b.slots[id] = SlotFields
  BY <1>1 DEF Matched, Registry
<1>4. /\ s.me_id = w.id /\ s.status = b.slots[id].status /\ s.touched = b.slots[id].touched
      /\ s.side = b.slots[id].side /\ s.type = b.slots[id].type /\ s.price = b.slots[id].price
      /\ s.qty_remain = b.slots[id].qty_remain
  BY <1>3 DEF SlotFields
<1> HIDE DEF s
<1>5. Waiting(t, p)
  BY <1>1, <1>2, <1>4 DEF Waiting
<1>6. Coming(s, w)
  BY <1>4 DEF Coming, Dead, Live
<1>7. Shows(p, R, S, lost, w)
  <2>1. ASSUME NEW i \in DOMAIN p.me_to_gw
        PROVE  IF i = w.id THEN Coming(p.slots[p.me_to_gw[i]], w) ELSE Fits(p.slots[p.me_to_gw[i]], i, R, S, lost)
    <3>1. CASE i = w.id
      <4>1. p.me_to_gw[i] = id
        BY <1>2, <3>1 DEF Put
      <4> QED
        BY <1>2, <1>6, <3>1, <4>1
    <3>2. CASE i # w.id
      <4>1. i \in DOMAIN b.me_to_gw /\ p.me_to_gw[i] = b.me_to_gw[i]
        BY <1>2, <3>2 DEF Put
      <4>2. b.me_to_gw[i] \in DOMAIN b.slots /\ b.slots[b.me_to_gw[i]].me_id = i /\ i # 0
        BY <1>1, <4>1 DEF Matched, Registry
      <4>3. p.slots[b.me_to_gw[i]] = b.slots[b.me_to_gw[i]]
        BY <1>2, <4>2
      <4>4. Fits(b.slots[b.me_to_gw[i]], i, R, S, lost)
        BY <1>1, <4>1, <4>2 DEF Shows, NoOrder
      <4> QED
        BY <3>2, <4>1, <4>3, <4>4
    <3> QED
      BY <3>1, <3>2
  <2> QED
    BY <2>1 DEF Shows
<1>8. Streams(t, p, w)
  <2>1. Behind(t.client, p)
    BY <1>1, <1>2 DEF Streams, Behind
  <2>2. ASSUME Complete(t.client, p) PROVE UpToDate(t, View(t.client, p), p, w)
    <3> DEFINE d == View(t.client, b)
    <3>1. UpToDate(t, d, b, NoOrder) /\ View(t.client, p) = d
      BY <1>1, <1>2, <2>2 DEF Streams, Surfaces, Complete, View
    <3> HIDE DEF d
    <3>2. ASSUME NEW x \in DOMAIN p.slots, ~Pending(t, p, x, w)
          PROVE  x \in DOMAIN d.orders /\ StateTold(d.orders[x], p.slots[x])
      <4>1. x # id
        BY <1>2, <1>4, <3>2 DEF Pending
      <4>2. x \in DOMAIN b.slots /\ p.slots[x] = b.slots[x]
        BY <1>2, <4>1
      <4>3. ~Pending(t, b, x, NoOrder)
        BY <4>1 DEF Pending, NoOrder
      <4> QED
        BY <3>1, <4>2, <4>3 DEF UpToDate
    <3> QED
      BY <1>2, <3>1, <3>2 DEF UpToDate
  <2>3. \A x \in DOMAIN b.slots : p.slots[x].status = b.slots[x].status
    BY <1>2, <1>4
  <2>4. Final(t, p)
    <3>1. SinceCall(t, b) /\ Ends(b) /\ EndsOnce(b)
      BY <1>1 DEF Streams, Final
    <3>2. SinceCall(t, p)
      BY <1>2, <2>3, <3>1 DEF SinceCall
    <3>3. Ends(p) /\ EndsOnce(p)
      BY <1>2, <2>3, <3>1 DEF Ends, EndsOnce
    <3> QED
      BY <3>2, <3>3 DEF Final
  <2> QED
    BY <2>1, <2>2, <2>4 DEF Streams, Surfaces
<1>9. Heard(t, p)
  BY <1>2, <1>4 DEF Heard
<1> QED
  BY <1>2, <1>5, <1>7, <1>8, <1>9 DEF Shown

(* Without an event, the registry is seen as it is. *)
LEMMA SeenNothing ==
  ASSUME NEW b, NEW e, e.eq = <<>>
  PROVE  Seen(b, e) = b
  BY ProcessedNothing DEF Seen

(* The engine at rest has told everything. *)
LEMMA AtRest ==
  ASSUME BInv, cur = NoEvent
  PROVE  Linking = bp /\ Seen(Linking, me) = bp /\ me.eq = <<>> /\ stack = <<>>
<1>1. Linking = bp
  BY DEF Linking
<1>2. me.eq = <<>> /\ stack = <<>>
  BY DEF BInv, Calling
<1> QED
  BY <1>1, <1>2, SeenNothing

(* There is no call in progress when the bridge is free. *)
LEMMA FreeCalls ==
  ASSUME BInv, Free
  PROVE  call = 0 /\ cur = NoEvent
  BY DEF BInv, Calling, Free

(* Nothing was submitted yet. *)
LEMMA VInvInit ==
  ASSUME BridgeInit
  PROVE  VInv
<1> DEFINE t == Context
           last == gateway.next_server_order_id
<1>1. BInv
  BY BInvInit
<1>2. /\ bp = [slots |-> NoEntries, me_to_gw |-> NoEntries, evq |-> <<>>, next_seq |-> 0]
      /\ call = 0 /\ client = ClientInit /\ cur = NoEvent
      /\ gateway = [gateway_init EXCEPT !.next_server_order_id = id_base]
      /\ me.resting = {} /\ me.lost = {} /\ me.stops = [i \in Slots |-> NoStop]
  BY DEF BridgeInit, InitFrom, EngineInit
<1>3. DOMAIN NoEntries = {} /\ Len(<<>>) = 0
  BY DEF NoEntries
<1>4. /\ DOMAIN bp.slots = {} /\ DOMAIN bp.me_to_gw = {} /\ bp.evq = <<>> /\ bp.next_seq = 0
      /\ Len(bp.evq) = 0
  BY <1>2, <1>3
<1>5. StopIds(me) = {}
  <2>1. ActiveStops(me) = {}
    BY <1>2 DEF ActiveStops, NoStop
  <2> QED
    BY <2>1 DEF StopIds
<1>6. Linking = bp /\ Seen(bp, me) = bp
  BY <1>1, <1>2, AtRest
<1>7. /\ DOMAIN client = ClientFields /\ client.seq = 0 /\ client.gap = FALSE /\ client.ladder = {}
  BY <1>2 DEF ClientInit, ClientFields
<1>8. View(client, bp) = client
  BY <1>4, AllPolledNothing DEF View
<1>9. t.call = 0 /\ t.client = client /\ t.last = last /\ t.base = bp
  BY <1>2 DEF Context
<1>10. Matched(bp, last) /\ Queue(bp) /\ Behind(client, bp)
  BY <1>1 DEF BInv, Following
<1> HIDE DEF t, last
<1>11. Surfaces(t, bp, NoOrder)
  <2>1. UpTo(client, 0)
    BY <1>7 DEF UpTo
  <2> QED
    BY <1>4, <1>8, <1>9, <2>1 DEF Surfaces, UpToDate
<1>12. Final(t, bp)
  <2>1. SinceCall(t, bp)
    BY <1>9, SinceNow
  <2>2. Ends(bp) /\ EndsOnce(bp)
    BY <1>4 DEF Ends, EndsOnce
  <2> QED
    BY <2>1, <2>2 DEF Final
<1>13. Shown(t, bp, {}, {}, {}, NoOrder)
  <2>1. Waiting(t, bp) /\ Shows(bp, {}, {}, {}, NoOrder) /\ Heard(t, bp)
    BY <1>4, <1>9 DEF Waiting, Shows, Heard
  <2> QED
    BY <1>9, <1>10, <1>11, <1>12, <2>1 DEF Shown, Streams
<1>14. InView(Context, Linking, me)
  BY <1>2, <1>5, <1>6, <1>13 DEF InView, Sees, t
<1>15. LadderKept
  <2>1. Ladder({}) = {}
    BY DEF Ladder
  <2> QED
    BY <1>2, <1>7, <2>1 DEF LadderKept
<1>16. Aimed
  <2>1. gateway.out_ring = <<>>
    BY <1>2 DEF gateway_init
  <2> QED
    BY <1>2, <2>1 DEF Aimed, Free
<1> QED
  BY <1>14, <1>15, <1>16 DEF VInv

(* What the message handed over has done. *)
LEMMA EnterIs ==
  ASSUME BInv, NEW m \in NewOrders \cup Requests, NEW add, Enter(m, add)
  PROVE  LET now == gateway'.next_server_order_id
             last == gateway.next_server_order_id
             t == Translated(m)
         IN  /\ Free /\ Named(m) /\ call = 0 /\ cur' = NoEvent /\ stack' = <<>> /\ me.eq = <<>>
             /\ me' = me /\ client' = client /\ last \in Nat /\ now \in {last, last + 1}
             /\ gateway'.out_ring \in {<<>>, <<t>>}
             /\ gateway'.out_ring = <<t>> => t.action = m.action
             /\ \/ call' = 0 /\ bp' = bp
                \/ /\ call' = last + 1 /\ now = last + 1 /\ HasSlot(call') /\ m.action = "NEW"
                   /\ gateway'.out_ring = <<t>>
                   /\ Enlarged(bp', bp, call', Registered(m))
<1> DEFINE t == Translated(m)
           last == gateway.next_server_order_id
           now == gateway'.next_server_order_id
           s == Registered(m)
           S == Put(bp.slots, call', s)
<1>1. /\ Free /\ Named(m) /\ Submit(t, add)
      /\ call' = IF gateway'.out_ring # <<>> /\ m.action = "NEW" /\ HasSlot(now) THEN now ELSE 0
      /\ bp' = IF call' = 0 THEN bp ELSE [bp EXCEPT !.slots = S]
      /\ client' = client
  BY Zenon DEF Enter
<1>2. PInv /\ Calling /\ Matched(bp, last)
  BY DEF BInv
<1>3. stage_a_ingress(t) => t \in Posted /\ t.action = m.action /\ (m.action = "NEW" => t = m)
  BY <1>1, <1>2, TranslatedIsPosted
<1> HIDE DEF t, s, S
<1>4. /\ \/ gateway'.out_ring = <<>> /\ now \in {last, last + 1}
         \/ gateway'.out_ring = <<t>> /\ now = last + 1 /\ stage_a_ingress(t)
      /\ me' = me /\ stack' = stack /\ cur' = cur
  BY <1>1, <1>2, EnteredRing
<1>5. last \in Nat /\ last >= id_base /\ id_base \in Nat
  BY <1>2, BridgeAssumption DEF Calling
<1>6. /\ gateway'.out_ring \in {<<>>, <<t>>} /\ now \in {last, last + 1}
      /\ gateway'.out_ring = <<t>> => t.action = m.action
  <2>1. <<t>> # <<>>
    OBVIOUS
  <2> QED
    BY <1>3, <1>4, <2>1
<1>7. call = 0 /\ cur = NoEvent /\ stack = <<>> /\ me.eq = <<>>
  BY <1>1, <1>2 DEF Free, Calling
<1>8. ASSUME call' # 0
      PROVE  /\ call' = last + 1 /\ now = last + 1 /\ HasSlot(call') /\ m.action = "NEW"
             /\ gateway'.out_ring = <<t>> /\ Enlarged(bp', bp, call', s)
  <2>1. gateway'.out_ring # <<>> /\ m.action = "NEW" /\ HasSlot(now) /\ call' = now
    BY <1>1, <1>8
  <2>2. Enlarged(bp', bp, call', s)
    BY <1>1, <1>8 DEF Enlarged, S
  <2> QED
    BY <1>4, <2>1, <2>2
<1>9. ASSUME call' = 0 PROVE bp' = bp
  BY <1>1, <1>9
<1> QED
  BY <1>1, <1>4, <1>5, <1>6, <1>7, <1>8, <1>9 DEF t, s

(* A message is handed over: a new order waits. *)
LEMMA EnterShows ==
  ASSUME BInv, VInv, NEW m \in NewOrders \cup Requests, NEW add, Enter(m, add)
  PROVE  VInv'
<1> DEFINE now == gateway'.next_server_order_id
           last == gateway.next_server_order_id
           t == Translated(m)
           s == Registered(m)
           c == Context
           d == Context'
<1>1. /\ Free /\ Named(m) /\ call = 0 /\ cur' = NoEvent /\ stack' = <<>> /\ me.eq = <<>>
      /\ me' = me /\ client' = client /\ last \in Nat /\ now \in {last, last + 1}
      /\ gateway'.out_ring \in {<<>>, <<t>>}
      /\ gateway'.out_ring = <<t>> => t.action = m.action
      /\ \/ call' = 0 /\ bp' = bp
         \/ /\ call' = last + 1 /\ now = last + 1 /\ HasSlot(call') /\ m.action = "NEW"
            /\ gateway'.out_ring = <<t>>
            /\ Enlarged(bp', bp, call', s)
  BY EnterIs
<1>2. BInv'
  BY EnterKeeps
<1>3. Linking = bp /\ Seen(bp, me) = bp
  BY <1>1, AtRest DEF Free
<1>4. Linking' = bp' /\ Seen(bp', me') = bp'
  BY <1>1, SeenNothing DEF Linking
<1>5. /\ c.call = 0 /\ c.client = client /\ c.base = bp /\ c.last = last
      /\ d.call = call' /\ d.client = client /\ d.base = bp' /\ d.last = now
  BY <1>1 DEF Context
<1>6. Matched(bp, last) /\ Matched(bp', now)
  BY <1>2 DEF BInv
<1> HIDE DEF c, d, t, now, last
<1>7. ASSUME me.dropped = 0 PROVE Shown(d, bp', me.resting, StopIds(me), me.lost, NoOrder)
  <2> DEFINE R == me.resting
             S == StopIds(me)
             L == me.lost
  <2>1. Shown(c, bp, R, S, L, NoOrder)
    BY <1>3, <1>7 DEF VInv, InView, Sees, c
  <2> HIDE DEF R, S, L
  <2>2. CASE call' = 0 /\ bp' = bp
    BY <1>5, <1>6, <2>1, <2>2, LaterShown DEF R, S, L
  <2>3. ASSUME call' = last + 1, now = last + 1, HasSlot(call'), Enlarged(bp', bp, call', s)
        PROVE  Shown(d, bp', R, S, L, NoOrder)
    <3> DEFINE id == call'
               p == bp'
    <3>1. id \in Nat /\ id > last /\ HasSlot(id) /\ Enlarged(p, bp, id, s) /\ d.last = id /\ d.call = id
      BY <1>1, <1>5, <2>3
    <3>2. DOMAIN s = SlotFields /\ s.me_id = 0 /\ ~s.touched /\ s.status = "OPEN"
      BY DEF Registered, SlotFields
    <3> HIDE DEF id, s
    <3>3. c.last \in Nat /\ id > c.last
      BY <1>1, <1>5, <3>1
    <3>4. d.base = p /\ d.client = c.client /\ c.call = 0
      BY <1>5
    <3> HIDE DEF p
    <3>5. Shown(d, p, R, S, L, NoOrder)
      BY <2>1, <3>1, <3>2, <3>3, <3>4, EnteredShown
    <3> QED
      BY <3>5 DEF p
  <2> QED
    BY <1>1, <2>2, <2>3 DEF R, S, L
<1>8. InView(d, Linking', me')
  BY <1>1, <1>4, <1>7 DEF InView, Sees
<1>9. Aimed'
  <2>1. SUFFICES ASSUME ~Free', Request'.action # "NEW"
                 PROVE  Request'.target_order_id \in DOMAIN bp'.me_to_gw /\ stack' = <<>> /\ call' = 0
    BY DEF Aimed
  <2>2. gateway'.out_ring = <<t>>
    BY <1>1, <2>1 DEF Free
  <2>3. Request' = t
    BY <1>1, <2>2 DEF Request
  <2>4. m.action # "NEW"
    BY <1>1, <2>1, <2>2, <2>3
  <2>5. call' = 0 /\ bp' = bp
    BY <1>1, <2>4
  <2> DEFINE x == m.target_order_id
             i == bp.slots[x].me_id
  <2>6. x \in DOMAIN bp.slots /\ i # 0
    BY <1>1, <2>4 DEF Named, Known
  <2>7. i \in DOMAIN bp.me_to_gw
    BY <1>6, <2>6 DEF Matched
  <2>8. t = [m EXCEPT !.target_order_id = i]
    BY <2>4, Zenon DEF t, Translated
  <2>9. \E k, a, y : m = Message(k, 1, 0, "LIMIT", "BID", a[1], 0, a[2], y)
                    \/ m = Message(k, 1, 0, "LIMIT", "BID", 0, 0, 0, y)
    <3>1. m \notin NewOrders
      BY <2>4, PipelineAssumption
    <3> QED
      BY <3>1 DEF Requests
  <2>10. "target_order_id" \in DOMAIN m
    BY <2>9 DEF Message
  <2> HIDE DEF i
  <2>11. t.target_order_id = i
    BY <2>8, <2>10
  <2> QED
    BY <1>1, <2>3, <2>5, <2>7, <2>11
<1>10. me'.dropped = 0 => LadderKept'
  <2>1. SUFFICES ASSUME me.dropped = 0, InRegistry', me.lost = {}, call' = 0, bp'.evq = <<>>
                 PROVE  client.ladder = Ladder(me.resting)
    BY <1>1, <1>4 DEF LadderKept
  <2>2. bp' = bp
    BY <1>1, <2>1
  <2>3. InRegistry
    <3>1. gateway'.next_server_order_id - id_base <= PIPELINE_MAX_ID_MAP
          /\ me.next_order_id - 1 <= PIPELINE_MAX_ID_MAP
      BY <1>1, <2>1 DEF InRegistry
    <3>2. last - id_base <= PIPELINE_MAX_ID_MAP
      BY <1>1, <3>1, PipelineAssumption, BridgeAssumption DEF now
    <3> QED
      BY <3>1, <3>2 DEF InRegistry, last
  <2> QED
    BY <1>1, <1>3, <2>1, <2>2, <2>3 DEF VInv, LadderKept
<1> QED
  BY <1>8, <1>9, <1>10 DEF VInv, d

(* A refused message is answered. *)
LEMMA DroppedShows ==
  ASSUME BInv, VInv, NEW ev, Dropped(ev)
  PROVE  VInv'
<1> DEFINE c == Context
           d == Context'
           R == me.resting
           S == StopIds(me)
           L == me.lost
           p == Answered(bp)
<1>1. /\ Drop(ev) /\ Takes(ev) /\ me' = me /\ stack' = stack /\ id_map' = id_map /\ cur' = cur
      /\ bp' = Answered(process_staged_events(Captured(bp, id_map, id_map'), <<>>))
      /\ call' = 0 /\ client' = client
  BY DEF Dropped, Drop, Finish
<1>2. PInv /\ Calling
  BY DEF BInv
<1>3. /\ gateway'.out_ring = <<>> /\ gateway'.next_server_order_id = gateway.next_server_order_id
      /\ cur = NoEvent
  BY <1>1, <1>2, TakesOnly
<1>4. bp' = p
  <2>1. Captured(bp, id_map, id_map') = bp
    BY <1>1 DEF Captured
  <2> QED
    BY <1>1, <2>1, ProcessedNothing
<1>5. Linking = bp /\ Seen(bp, me) = bp /\ me.eq = <<>>
  BY <1>3, AtRest
<1>6. Linking' = bp' /\ Seen(bp', me') = bp'
  BY <1>1, <1>3, <1>5, SeenNothing DEF Linking
<1>7. c.call = call /\ Ended(d, c, p)
  BY <1>1, <1>3, <1>4 DEF Context, Ended
<1>8. call = 0 => p = bp
  BY DEF Answered
<1> HIDE DEF c, d, p, R, S, L
<1>9. ASSUME me.dropped = 0
      PROVE  Shown(d, p, R, S, L, NoOrder) /\ (call # 0 => p.evq # <<>>)
  <2>1. Shown(c, bp, R, S, L, NoOrder)
    BY <1>5, <1>9 DEF VInv, InView, Sees, c, R, S, L
  <2> QED
    BY <1>7, <2>1, AnsweredShown DEF p
<1>10. InView(d, Linking', me')
  BY <1>1, <1>4, <1>6, <1>9 DEF InView, Sees, R, S, L
<1>11. Aimed'
  BY <1>1, <1>3 DEF Aimed, Free
<1>12. me'.dropped = 0 => LadderKept'
  <2>1. SUFFICES ASSUME me.dropped = 0, InRegistry', me.lost = {}, bp'.evq = <<>>
                 PROVE  client.ladder = Ladder(me.resting)
    BY <1>1, <1>6 DEF LadderKept
  <2>2. call = 0 /\ bp' = bp
    BY <1>4, <1>8, <1>9, <2>1
  <2>3. InRegistry
    BY <1>1, <1>3, <2>1 DEF InRegistry
  <2> QED
    BY <1>5, <2>1, <2>2, <2>3 DEF VInv, LadderKept
<1> QED
  BY <1>10, <1>11, <1>12 DEF VInv, d

(* The call ends: its new order is answered if the engine has not. *)
LEMMA ReturnedShows ==
  ASSUME BInv, VInv, Returned
  PROVE  VInv'
<1> DEFINE c == Context
           d == Context'
           R == me.resting
           S == StopIds(me)
           L == me.lost
           b == Seen(Linking, me)
           p == Answered(b)
<1>1. /\ Settled /\ cur # NoEvent /\ stack = <<>>
      /\ bp' = Answered(process_staged_events(Captured(bp, id_map, id_map'), me.eq))
      /\ call' = 0 /\ client' = client
  BY DEF Returned, Finish, Settled, Idle
<1>2. /\ id_map' = Expected /\ cur' = NoEvent /\ gateway' = gateway
      /\ me' = [me EXCEPT !.eq = <<>>, !.out = NoResult]
  BY <1>1, Zenon DEF Settled, Expected
<1>3. bp' = p
  BY <1>1, <1>2 DEF Linking, Seen
<1>4. DOMAIN me = EngineFields
  BY DEF BInv, PInv, EngineSound, EInv, EngineTyped
<1>5. /\ me'.eq = <<>> /\ me'.resting = me.resting /\ me'.stops = me.stops /\ me'.lost = me.lost
      /\ me'.dropped = me.dropped /\ me'.next_order_id = me.next_order_id
  BY <1>2, <1>4 DEF EngineFields
<1>6. StopIds(me') = StopIds(me)
  BY <1>5 DEF StopIds, ActiveStops
<1>7. Linking' = bp' /\ Seen(bp', me') = bp'
  BY <1>2, <1>5, SeenNothing DEF Linking
<1>8. c.call = call /\ Ended(d, c, p)
  BY <1>1, <1>2, <1>3 DEF Context, Ended
<1>9. call = 0 => p = b
  BY DEF Answered
<1> HIDE DEF c, d, p, R, S, L, b
<1>10. ASSUME me.dropped = 0
       PROVE  Shown(d, p, R, S, L, NoOrder) /\ (call # 0 => p.evq # <<>>)
  <2>1. Shown(c, b, R, S, L, NoOrder)
    BY <1>10 DEF VInv, InView, Sees, c, R, S, L, b
  <2> QED
    BY <1>8, <2>1, AnsweredShown DEF p
<1>11. InView(d, Linking', me')
  BY <1>3, <1>5, <1>6, <1>7, <1>10 DEF InView, Sees, R, S, L
<1>12. Aimed'
  <2>1. gateway'.out_ring = <<>>
    BY <1>1, <1>2 DEF BInv, Calling
  <2> QED
    BY <1>2, <2>1 DEF Aimed, Free
<1>13. me'.dropped = 0 => LadderKept'
  <2>1. SUFFICES ASSUME me.dropped = 0, InRegistry', me.lost = {}, bp'.evq = <<>>
                 PROVE  client.ladder = Ladder(me.resting)
    BY <1>1, <1>5, <1>7 DEF LadderKept
  <2>2. call = 0 /\ b.evq = <<>>
    BY <1>3, <1>9, <1>10, <2>1
  <2>3. InRegistry
    BY <1>2, <1>5, <2>1 DEF InRegistry
  <2> QED
    BY <2>1, <2>2, <2>3 DEF VInv, LadderKept, b
<1> QED
  BY <1>11, <1>12, <1>13 DEF VInv, d

(* The client has polled: it has the orders, and the book. *)
LEMMA DrainShows ==
  ASSUME BInv, VInv, Drain
  PROVE  VInv'
<1> DEFINE c == Context
           d == Context'
           R == me.resting
           S == StopIds(me)
           L == me.lost
           x == View(client, bp)
           B == Ladder(me.resting)
           k == client'
           p == bp'
<1>1. /\ Free /\ bp.evq # <<>> /\ call' = call
      /\ k = [x EXCEPT !.ladder = B]
      /\ p = [bp EXCEPT !.evq = <<>>]
      /\ UNCHANGED <<me, stack, gateway, id_map, cur>>
  BY Zenon DEF Drain, Refreshed, View, pvars
<1>2. BInv'
  BY DrainKeeps
<1>3. /\ Matched(p, gateway.next_server_order_id) /\ Queue(p) /\ Behind(k, p)
      /\ Queue(bp) /\ Following(client, bp) /\ DOMAIN bp = BridgeFields
  BY <1>1, <1>2 DEF BInv, Following, Queue
<1>4. call = 0 /\ cur = NoEvent /\ me.eq = <<>> /\ Linking = bp /\ Seen(bp, me) = bp
  BY <1>1, FreeCalls, AtRest
<1>5. /\ p.slots = bp.slots /\ p.me_to_gw = bp.me_to_gw /\ p.evq = <<>> /\ p.next_seq = bp.next_seq
  BY <1>1, <1>3 DEF BridgeFields
<1>6. Len(p.evq) = 0
  <2>1. Len(<<>>) = 0
    OBVIOUS
  <2> QED
    BY <1>5, <2>1
<1>7. Linking' = p /\ Seen(p, me') = p
  BY <1>1, <1>4, SeenNothing DEF Linking
<1>8. /\ c.call = 0 /\ c.client = client
      /\ d.call = 0 /\ d.client = k /\ d.base = p /\ d.last = gateway.next_server_order_id
  BY <1>1, <1>4 DEF Context
<1>9. Polling(x, bp.next_seq) /\ (x.gap = FALSE => Complete(client, bp))
  BY <1>1, <1>3, QueuePolled DEF x
<1>10. VInv
  OBVIOUS
<1> HIDE DEF c, d, k, p, x, B, R, S, L
<1>11. /\ DOMAIN k = ClientFields /\ k.seq = x.seq /\ k.gap = x.gap /\ k.orders = x.orders /\ k.ladder = B
  BY <1>1, <1>9 DEF Polling, ClientFields
<1>12. View(k, p) = k
  BY <1>5, AllPolledNothing DEF View
<1>13. ASSUME me.dropped = 0 PROVE Shown(d, p, R, S, L, NoOrder)
  <2>1. Shown(c, bp, R, S, L, NoOrder)
    BY <1>4, <1>13 DEF VInv, InView, Sees, c, R, S, L
  <2>2. Waiting(d, p) /\ Shows(p, R, S, L, NoOrder)
    <3>1. Waiting(c, bp) /\ Shows(bp, R, S, L, NoOrder)
      BY <2>1 DEF Shown
    <3> QED
      BY <1>5, <1>8, <3>1 DEF Waiting, Shows
  <2>3. Surfaces(d, p, NoOrder)
    <3>1. SUFFICES ASSUME Complete(k, p) PROVE UpToDate(d, k, p, NoOrder)
      BY <1>8, <1>12 DEF Surfaces
    <3>2. k.gap = FALSE
      <4>1. ~k.gap
        BY <3>1 DEF Complete
      <4>2. k.gap \in BOOLEAN
        BY <1>9, <1>11, Zenon DEF Polling
      <4> QED
        BY <4>1, <4>2, Zenon
    <3>3. UpToDate(c, x, bp, NoOrder)
      BY <1>8, <1>9, <1>11, <2>1, <3>2 DEF Shown, Streams, Surfaces, x
    <3>4. UpTo(k, p.next_seq)
      BY <1>5, <1>9, <1>11, <3>2 DEF UpTo, Polling
    <3>5. ASSUME NEW id \in DOMAIN p.slots, ~Pending(d, p, id, NoOrder)
          PROVE  id \in DOMAIN k.orders /\ StateTold(k.orders[id], p.slots[id])
      <4>1. id \in DOMAIN bp.slots /\ ~Pending(c, bp, id, NoOrder)
        BY <1>5, <1>8, <3>5 DEF Pending
      <4> QED
        BY <1>5, <1>11, <3>3, <4>1 DEF UpToDate
    <3> QED
      BY <3>4, <3>5 DEF UpToDate
  <2>4. Final(d, p)
    <3>1. SinceCall(d, p)
      BY <1>8, SinceNow
    <3>2. Ends(p) /\ EndsOnce(p)
      BY <1>6 DEF Ends, EndsOnce
    <3> QED
      BY <3>1, <3>2 DEF Final
  <2>5. Heard(d, p)
    BY <1>8 DEF Heard
  <2> QED
    BY <1>3, <1>8, <2>2, <2>3, <2>4, <2>5 DEF Shown, Streams
<1>14. InView(d, Linking', me')
  BY <1>1, <1>7, <1>13 DEF InView, Sees, R, S, L
<1>15. Aimed'
  BY <1>1 DEF Aimed, Free
<1>16. LadderKept'
  BY <1>1, <1>11 DEF LadderKept, B, k
<1> QED
  BY <1>14, <1>15, <1>16 DEF VInv, d

(* A new order in work without a slot means that the registry is full. *)
LEMMA NewHasSlot ==
  ASSUME BInv, ~Free, Request.action = "NEW", InRegistry
  PROVE  call # 0
<1> DEFINE last == gateway.next_server_order_id
<1>1. last \in Nat /\ last > id_base /\ (call = 0 => ~HasSlot(last))
  BY DEF BInv, Calling
<1>2. last - id_base <= PIPELINE_MAX_ID_MAP
  BY DEF InRegistry
<1> HIDE DEF last
<1> QED
  BY <1>1, <1>2, PipelineAssumption, BridgeAssumption DEF HasSlot

(* Engine ids that clients' orders have are below the engine's next. *)
LEMMA KnownBelow ==
  ASSUME NEW owner, NEW n \in Nat, Ordered(owner, n), NEW map, Begins(map, owner), NEW b, KnownIn(b, map)
  PROVE  n \notin DOMAIN b.me_to_gw
<1>1. ASSUME n \in DOMAIN b.me_to_gw PROVE FALSE
  <2>1. PICK k \in 1..Len(map) : map[k][1] = n
    BY <1>1 DEF KnownIn
  <2>2. k \in 1..Len(owner) /\ owner[k] = map[k]
    BY DEF Begins, Ordered
  <2>3. owner[k][1] \in Nat /\ owner[k][1] < n
    BY <2>2 DEF Ordered
  <2> QED
    BY <2>1, <2>2, <2>3
<1> QED
  BY <1>1

(* The registry that the engine in work will be told to. *)
LEMMA LinkingIs ==
  ASSUME BInv, cur # NoEvent
  PROVE  /\ Matched(Linking, gateway.next_server_order_id) /\ Registry(Linking) /\ Queue(Linking)
         /\ me.next_order_id \notin DOMAIN Linking.me_to_gw
<1>1. Linking = Captured(bp, id_map, Expected)
  BY DEF Linking
<1>2. /\ Matched(Linking, gateway.next_server_order_id) /\ Queue(Linking) /\ KnownIn(Linking, Expected)
  BY <1>1, CapturedKeeps
<1>3. Begins(Expected, hist.owner)
  BY ExpectedIs
<1>4. Ordered(hist.owner, me.next_order_id) /\ me.next_order_id \in Nat
  BY DEF BInv, PInv, EngineSound, EInv, EngineTyped
<1>5. me.next_order_id \notin DOMAIN Linking.me_to_gw
  BY <1>2, <1>3, <1>4, KnownBelow
<1> QED
  BY <1>2, <1>5 DEF Matched

(* The cascade shows what it does. *)
LEMMA CascadedShows ==
  ASSUME BInv, VInv, Cascade,
         UNCHANGED <<gateway, accounts, last_trade_price, id_map, cur, stepping, ack, hist,
                     bp, call, client>>
  PROVE  VInv'
<1> DEFINE c == Context
<1>1. stack # <<>>
  BY DEF Cascade, FireStop, ScanDone
<1>2. PInv /\ Calling
  BY DEF BInv
<1>3. cur # NoEvent /\ ~Free /\ Request = cur
  BY <1>1, <1>2 DEF Calling, Free, Request
<1>4. PICK v : EInv(v, me)
  BY <1>2 DEF PInv, EngineSound
<1>5. Registry(Linking) /\ Queue(Linking) /\ me.next_order_id \notin DOMAIN Linking.me_to_gw
  BY <1>3, LinkingIs
<1>6. Context' = Context
  BY DEF Context
<1>7. InView(c, Linking, me)
  BY DEF VInv
<1> HIDE DEF c
<1>8. me'.out = me.out /\ InView(c, Linking, me')
  <2>1. CASE FireStop
    BY <1>4, <1>5, <1>7, <2>1, FireKeeps, FireSees
  <2>2. CASE ScanDone
    <3>1. me' = me
      BY <2>2 DEF ScanDone
    <3> QED
      BY <1>7, <3>1
  <2> QED
    BY <2>1, <2>2 DEF Cascade
<1>9. Linking' = Linking
  <2>1. Expected' = Expected
    BY <1>8 DEF Expected
  <2> QED
    BY <2>1 DEF Linking, Captured
<1>10. cur.action = "NEW"
  BY <1>1, <1>3 DEF VInv, Aimed
<1>11. Aimed'
  BY <1>3, <1>10 DEF Aimed, Request
<1>12. LadderKept'
  <2>1. ASSUME InRegistry' PROVE call # 0
    <3>1. InRegistry
      <4>1. me'.next_order_id >= me.next_order_id /\ me.next_order_id \in Nat \ {0}
            /\ me'.next_order_id \in Nat \ {0}
        BY <1>2, CascadeIds
      <4> QED
        BY <2>1, <4>1, PipelineAssumption DEF InRegistry
    <3> QED
      BY <1>3, <1>10, <3>1, NewHasSlot
  <2> QED
    BY <2>1 DEF LadderKept
<1> QED
  BY <1>6, <1>8, <1>9, <1>11, <1>12 DEF VInv, c

(* What clients know when the engine gets a new order: its id, if there is  *)
(* a slot for it.                                                           *)
LEMMA RegisteredSees ==
  ASSUME BInv, VInv, NEW ev, Dispatch(ev), UNCHANGED <<bp, call, client>>, ev.action = "NEW", ev.qty \in Nat \ {0}
  PROVE  Sees(Context, Linking', me, me.resting, StopIds(me),
              IF me'.out.id = 0 THEN NoOrder
              ELSE Working(me.next_order_id, ev.side, ev.type, ev.price, ev.qty))
<1> DEFINE n == me.next_order_id
           i == me'.out.id
           w == IF i = 0 THEN NoOrder ELSE Working(n, ev.side, ev.type, ev.price, ev.qty)
           c == Context
           last == gateway.next_server_order_id
           x == <<i, ev.account_id>>
           map == Expected'
           p == Linking'
           R == me.resting
           S == StopIds(me)
           L == me.lost
<1>1. Takes(ev) /\ id_map' = id_map /\ cur' = ev
  BY Zenon DEF Dispatch
<1>2. /\ PInv /\ Calling /\ Matched(bp, last) /\ Queue(bp) /\ KnownIn(bp, id_map)
      /\ Ordered(hist.owner, n) /\ Begins(id_map, hist.owner)
  BY DEF BInv
<1>3. Request = ev /\ cur = NoEvent /\ ~Free
  BY <1>1, <1>2, TakesOnly
<1>4. GivenId(me', me)
  BY <1>2, DispatchIds
<1>5. n \in Nat \ {0} /\ Queues(me) /\ DOMAIN me = EngineFields
  BY <1>2, TypedQueues DEF PInv, EngineSound, EInv, EngineTyped
<1>6. i = 0 \/ i = n
  BY <1>4 DEF GivenId
<1>7. Seen(bp, me) = bp /\ Linking = bp /\ me.eq = <<>>
  BY <1>3, AtRest
<1>8. Sees(c, bp, me, R, S, NoOrder)
  BY <1>7 DEF VInv, InView
<1>9. Registry(bp) /\ (call = 0 \/ call \in DOMAIN bp.slots)
  BY <1>2 DEF Matched, Calling
<1>10. p = Captured(bp, id_map, map)
  <2>1. ev # NoEvent
    BY DEF NoEvent
  <2> QED
    BY <1>1, <2>1 DEF Linking, Captured
<1>11. map = id_map \/ (i # 0 /\ map = Append(id_map, x))
  BY <1>1 DEF Expected, id_map_remember
<1>12. n \notin DOMAIN bp.me_to_gw
  BY <1>2, <1>5, KnownBelow
<1>13. c.call = call /\ c.last = last
  BY DEF Context
<1> HIDE DEF c, map, p, R, S, L
<1>14. CASE p = bp
  <2>1. w.id = 0 \/ w.id \notin DOMAIN bp.me_to_gw
    BY <1>12 DEF NoOrder, Working
  <2> HIDE DEF w
  <2>2. Sees(c, bp, me, R, S, w)
    BY <1>2, <1>5, <1>8, <1>9, <2>1, UnregisteredSees
  <2> QED
    BY <1>14, <2>2 DEF w, c, p, R, S
<1>15. ASSUME i # 0, map = Append(id_map, x), call # 0, call \in DOMAIN bp.slots, Linked(p, bp, call, Last(map)[1])
       PROVE  Sees(c, p, me, R, S, w)
  <2>1. IsSeq(id_map) /\ Len(id_map) \in Nat
    BY <1>2 DEF Begins
  <2>2. Last(map)[1] = i /\ i = n
    <3>1. Len(map) = Len(id_map) + 1 /\ map[Len(id_map) + 1] = x
      BY <1>15, <2>1, AppendIs
    <3>2. Last(map) = x
      BY <3>1 DEF Last
    <3> QED
      BY <1>6, <1>15, <3>2
  <2>3. w = Working(n, ev.side, ev.type, ev.price, ev.qty) /\ w.id = n
    BY <1>15 DEF Working
  <2>4. Linked(p, bp, call, w.id)
    BY <1>15, <2>2, <2>3
  <2>5. bp.slots[call] = Registered(ev)
    BY <1>2, <1>3, <1>15 DEF Calling
  <2>6. Coming(bp.slots[call], w) /\ ~bp.slots[call].touched /\ bp.slots[call].me_id = 0
    <3> DEFINE s == Registered(ev)
    <3>1. /\ s.touched = FALSE /\ s.me_id = 0 /\ s.qty_remain = ev.qty /\ s.side = ev.side
          /\ s.type = ev.type /\ s.price = ev.price /\ s.status = "OPEN"
      BY DEF Registered
    <3>2. /\ w.left = ev.qty /\ w.side = ev.side /\ w.type = ev.type /\ w.price = ev.price
      BY <2>3 DEF Working
    <3> HIDE DEF s, w
    <3>3. ~Dead(s) /\ Live(s)
      BY <3>1 DEF Dead, Live
    <3>4. Coming(s, w)
      BY <3>1, <3>2, <3>3 DEF Coming
    <3> QED
      BY <2>5, <3>1, <3>4 DEF s
  <2>7. \A k \in 1..Len(id_map) : id_map[k][1] # n
    <3>1. SUFFICES ASSUME NEW k \in 1..Len(id_map) PROVE id_map[k][1] # n
      OBVIOUS
    <3>2. k \in 1..Len(hist.owner) /\ hist.owner[k] = id_map[k]
      BY <1>2 DEF Begins, Ordered
    <3>3. hist.owner[k][1] \in Nat /\ hist.owner[k][1] < n
      BY <1>2, <3>2 DEF Ordered
    <3> QED
      BY <1>5, <3>2, <3>3
  <2> DEFINE slot == call
             m == id_map
             a == bp.slots[slot].account_id
             j == w.id
  <2>8. /\ Matched(bp, last) /\ Queue(bp) /\ KnownIn(bp, m) /\ IsSeq(m) /\ Len(m) \in Nat
        /\ slot \in DOMAIN bp.slots /\ bp.slots[slot].me_id = 0
        /\ j \in Nat \ {0} /\ (\A k \in 1..Len(m) : m[k][1] # j) /\ Linked(p, bp, slot, j)
    BY <1>2, <1>5, <1>15, <2>1, <2>3, <2>4, <2>6, <2>7
  <2> HIDE DEF slot, m, a, w, j, last
  <2>9. Matched(p, last) /\ Queue(p)
    BY <2>8, LinkedKeeps DEF a
  <2>10. Seen(p, me) = p
    BY <1>7, SeenNothing
  <2>11. ASSUME me.dropped = 0 PROVE Shown(c, p, R, S, L, w)
    <3>1. Shown(c, bp, R, S, L, NoOrder)
      BY <1>7, <1>8, <2>11 DEF Sees, L
    <3>2. c.call \in DOMAIN bp.slots /\ Coming(bp.slots[c.call], w) /\ ~bp.slots[c.call].touched
          /\ bp.slots[c.call].me_id = 0 /\ Linked(p, bp, c.call, w.id) /\ Matched(p, c.last) /\ w.id # 0
      BY <1>5, <1>13, <1>15, <2>3, <2>4, <2>6, <2>9
    <3> QED
      BY <2>9, <3>1, <3>2, LinkedShown
  <2> QED
    BY <2>10, <2>11 DEF Sees, L
<1>16. p = bp \/ Sees(c, p, me, R, S, w)
  <2>1. CASE map = id_map
    BY <1>10, <2>1 DEF Captured
  <2>2. CASE i # 0 /\ map = Append(id_map, x)
    <3>1. p = bp \/ (call # 0 /\ call \in DOMAIN bp.slots /\ Linked(p, bp, call, Last(map)[1]))
      BY <1>9, <1>10, CapturedIs
    <3> QED
      BY <1>15, <2>2, <3>1
  <2> QED
    BY <1>11, <2>1, <2>2
<1> QED
  BY <1>14, <1>16 DEF c, p, R, S

(* The engine takes a new order: what it tells shows what it did. *)
LEMMA MatchNewSees ==
  ASSUME NEW t, NEW base, NEW v, EInv(v, me), NEW ev \in Posted, ev.action = "NEW", match_new(ev),
         Sees(t, base, me, me.resting, StopIds(me),
              IF me'.out.id = 0 THEN NoOrder
              ELSE Working(me.next_order_id, ev.side, ev.type, ev.price, ev.qty))
  PROVE  InView(t, base, me')
<1> DEFINE type == ev.type
           side == ev.side
           price == ev.price
           trigger == ev.trigger_price
           qty == ev.qty
           R == me.resting
           S == StopIds(me)
           w == Working(me.next_order_id, side, type, price, qty)
<1>1. /\ type \in {"LIMIT", "MARKET", "IOC", "FOK", "STOP", "STOP_LIMIT"}
      /\ side \in Side /\ price \in Nat /\ qty \in Nat \ {0}
  BY PostedTypes
<1>2. EngineTyped(me) /\ Numbered(me)
  BY DEF EInv
<1>3. Sees(t, base, me, R, S, IF me'.out.id = 0 THEN NoOrder ELSE w)
  OBVIOUS
<1>4. CASE type \in {"STOP", "STOP_LIMIT"}
  <2> DEFINE ttl == FALSE
             p == me_submit_stop(me, type, side, trigger, price, qty, ttl)
  <2>1. me' = p
    BY <1>4, Zenon DEF match_new
  <2>2. type \in StopTypes
    BY <1>4 DEF StopTypes
  <2>3. Sees(t, base, me, R, S, IF p.out.id = 0 THEN NoOrder ELSE w)
    BY <1>3, <2>1
  <2> HIDE DEF type, side, price, trigger, qty, ttl
  <2>4. InView(t, base, p)
    BY <1>1, <1>2, <2>2, <2>3, SubmitStopSees
  <2> QED
    BY <2>1, <2>4
<1>5. CASE type \notin {"STOP", "STOP_LIMIT"}
  <2> DEFINE r == me_submit_order(me, type, side, price, qty)
             s == [r EXCEPT !.e.out = r.out]
             x == [r.e EXCEPT !.out = r.out]
  <2>1. me' = s.e
    BY <1>5, Zenon DEF match_new, GoOn
  <2>2. type \in {"LIMIT", "MARKET", "IOC", "FOK"}
    BY <1>1, <1>5
  <2>3. type # "MARKET" => price = price
    OBVIOUS
  <2> HIDE DEF type, side, price, trigger, qty, S
  <2>4. Submitted(v, r, me)
    BY <1>1, <2>2, SubmitKeeps
  <2> HIDE DEF r
  <2>5. DOMAIN r = {"e", "scan", "out"} /\ EInv(v, r.e)
    BY <2>4 DEF Submitted
  <2>6. s = [r EXCEPT !.e = x]
    BY Zenon
  <2>7. s.e = x
    <3> HIDE DEF x, s
    <3> QED
      BY <2>5, <2>6
  <2> HIDE DEF s
  <2>8. SameBook(x, r.e) /\ SameQueue(x, r.e) /\ x.out = r.out
    <3>1. ResultSet(x, r.e, r.out)
      BY DEF ResultSet
    <3> HIDE DEF x
    <3> QED
      BY <2>5, <3>1, ResultSetKeeps
  <2> HIDE DEF x
  <2>9. me' = x /\ me'.out.id = r.out.id
    BY <2>1, <2>7, <2>8
  <2> DEFINE u == Taking(r, me, side, type, price, qty)
  <2>10. u = IF me'.out.id = 0 THEN NoOrder ELSE w
    BY <2>9 DEF Taking
  <2> HIDE DEF w, u
  <2>11. Sees(t, base, me, R, S, u)
    BY <1>3, <2>10
  <2>12. InView(t, base, r.e)
    <3>1. Sees(t, base, me, me.resting, StopIds(me), Taking(r, me, side, type, price, qty))
      BY <2>11 DEF u, S
    <3>2. r = me_submit_order(me, type, side, price, qty)
      BY DEF r
    <3> HIDE DEF R
    <3> QED
      BY <1>1, <3>1, <3>2, SubmitSees
  <2>13. InView(t, base, x)
    BY <2>8, <2>12, InViewSame DEF SameBook
  <2> QED
    BY <2>9, <2>13
<1> QED
  BY <1>4, <1>5

(* A cancel is told, or changes nothing. *)
LEMMA MatchCancelSees ==
  ASSUME NEW t, NEW base, EngineTyped(me), Numbered(me), NEW ev, match_cancel(ev), InView(t, base, me),
         KnownTo(base, me, ev.target_order_id)
  PROVE  InView(t, base, me') /\ (me' = me \/ Noted(base, me'))
<1> DEFINE at == Target(ev)
           o == CHOOSE o \in at : TRUE
           id == ev.target_order_id
<1>1. me' = IF at = {} THEN me_cancel_stop(me, id) ELSE me_cancel_order(me, o)
  BY Zenon DEF match_cancel
<1>2. at # {} => o \in me.resting /\ o.id = id
  <2>1. at # {} => o \in at
    OBVIOUS
  <2>2. \A x \in at : x \in me.resting /\ x.id = id
    BY DEF Target
  <2> HIDE DEF at, o
  <2> QED
    BY <2>1, <2>2
<1> HIDE DEF at, o, id
<1>3. CASE at = {}
  <2>1. me' = me_cancel_stop(me, id)
    BY <1>1, <1>3
  <2> QED
    BY <2>1, CancelStopSees, CancelStopNoted DEF id
<1>4. CASE at # {}
  <2>1. me' = me_cancel_order(me, o)
    BY <1>1, <1>4
  <2>2. KnownTo(base, me, o.id) /\ o \in me.resting
    BY <1>2, <1>4 DEF id
  <2> QED
    BY <2>1, <2>2, CancelOrderSees
<1> QED
  BY <1>3, <1>4

(* A modification is told, loses the order or changes nothing. *)
LEMMA MatchModifySees ==
  ASSUME NEW t, NEW base, EngineTyped(me), Numbered(me), NEW ev \in Posted, ev.action = "MODIFY",
         match_modify(ev), InView(t, base, me), KnownTo(base, me, ev.target_order_id)
  PROVE  InView(t, base, me') /\ (me' = me \/ Noted(base, me') \/ me'.lost # {})
<1> DEFINE at == Target(ev)
           o == CHOOSE o \in at : TRUE
           price == ev.price
           qty == ev.qty
<1>1. me' = IF at = {} \/ price <= 0 \/ qty = 0 THEN me ELSE me_modify_order(me, o, price, qty)
  BY Zenon DEF match_modify
<1>2. at # {} => o \in me.resting /\ o.id = ev.target_order_id
  <2>1. at # {} => o \in at
    OBVIOUS
  <2>2. \A x \in at : x \in me.resting /\ x.id = ev.target_order_id
    BY DEF Target
  <2> HIDE DEF at, o
  <2> QED
    BY <2>1, <2>2
<1>3. price \in Nat /\ qty \in Nat \ {0}
  BY PostedTypes
<1> HIDE DEF at, o, price, qty
<1>4. CASE me' = me
  BY <1>4
<1>5. CASE me' # me
  <2>1. at # {} /\ me' = me_modify_order(me, o, price, qty)
    BY <1>1, <1>5
  <2>2. KnownTo(base, me, o.id) /\ o \in me.resting
    BY <1>2, <2>1
  <2> QED
    BY <1>3, <2>1, <2>2, ModifyOrderSees
<1> QED
  BY <1>4, <1>5

(* A message reaches the engine. *)
LEMMA DispatchedShows ==
  ASSUME BInv, VInv, NEW ev, Dispatch(ev), UNCHANGED <<bp, call, client>>
  PROVE  VInv'
<1> DEFINE c == Context
           R == me.resting
           S == StopIds(me)
           p == Linking'
<1>1. /\ Takes(ev) /\ id_map' = id_map /\ cur' = ev
      /\ \/ ev.action = "NEW" /\ match_new(ev)
         \/ ev.action = "CANCEL" /\ match_cancel(ev)
         \/ ev.action = "MODIFY" /\ match_modify(ev)
  BY Zenon DEF Dispatch
<1>2. PInv
  BY DEF BInv
<1>3. /\ Request = ev /\ cur = NoEvent /\ ~Free /\ gateway'.out_ring = <<>>
      /\ gateway'.next_server_order_id = gateway.next_server_order_id
  BY <1>1, <1>2, TakesOnly DEF BInv
<1>4. ev \in Posted /\ (ev.action = "NEW" => GivenId(me', me))
  BY <1>2, DispatchIds
<1>5. PICK v : EInv(v, me)
  BY <1>2 DEF PInv, EngineSound
<1>6. EngineTyped(me) /\ Numbered(me)
  BY <1>5 DEF EInv
<1>7. Seen(bp, me) = bp /\ Linking = bp
  BY <1>3, AtRest
<1>8. InView(c, bp, me)
  BY <1>7 DEF VInv
<1>9. Context' = Context
  BY <1>3 DEF Context
<1>10. ev # NoEvent
  BY <1>1 DEF NoEvent
<1>11. cur' # NoEvent /\ ~Free' /\ Request' = ev
  BY <1>1, <1>10 DEF Free, Request
<1>12. p = Captured(bp, id_map, Expected')
  BY <1>1, <1>10 DEF Linking, Captured
<1>13. p = bp \/ ev.action = "NEW"
  <2>1. ASSUME ev.action # "NEW" PROVE Expected' = id_map
    BY <1>1, <2>1 DEF Expected
  <2> QED
    BY <1>12, <2>1 DEF Captured
<1>14. ev.action # "NEW" =>
         KnownTo(bp, me, ev.target_order_id) /\ stack = <<>> /\ call = 0
         /\ ev.target_order_id \in DOMAIN bp.me_to_gw
  BY <1>3, <1>7 DEF VInv, Aimed, KnownTo
<1> HIDE DEF c, p
<1>15. ASSUME ev.action = "NEW" PROVE InView(c, p, me') /\ Aimed' /\ LadderKept'
  <2>1. match_new(ev) /\ ev.qty \in Nat \ {0}
    BY <1>1, <1>4, <1>15, PostedTypes
  <2>2. Sees(c, p, me, me.resting, StopIds(me),
             IF me'.out.id = 0 THEN NoOrder
             ELSE Working(me.next_order_id, ev.side, ev.type, ev.price, ev.qty))
    BY <1>15, <2>1, RegisteredSees DEF c, p
  <2>3. InView(c, p, me')
    BY <1>4, <1>5, <1>15, <2>1, <2>2, MatchNewSees
  <2>4. Aimed'
    BY <1>11, <1>15 DEF Aimed
  <2>5. ASSUME InRegistry' PROVE call # 0
    <3>1. me.next_order_id \in Nat /\ me'.next_order_id \in {me.next_order_id, me.next_order_id + 1}
      BY <1>4, <1>6, <1>15 DEF GivenId, EngineTyped
    <3>2. InRegistry
      BY <1>3, <2>5, <3>1, PipelineAssumption DEF InRegistry
    <3> QED
      BY <1>3, <1>15, <3>2, NewHasSlot
  <2> QED
    BY <2>3, <2>4, <2>5 DEF LadderKept
<1>16. ASSUME ev.action # "NEW"
       PROVE  InView(c, p, me') /\ Aimed' /\ (me'.dropped = 0 => LadderKept')
  <2>1. p = bp
    BY <1>13, <1>16
  <2>2. InView(c, bp, me') /\ (me' = me \/ Noted(bp, me') \/ me'.lost # {})
    <3>1. CASE ev.action = "CANCEL" /\ match_cancel(ev)
      BY <1>6, <1>8, <1>14, <1>16, <3>1, MatchCancelSees
    <3>2. CASE ev.action = "MODIFY" /\ match_modify(ev)
      BY <1>4, <1>6, <1>8, <1>14, <1>16, <3>2, MatchModifySees
    <3> QED
      BY <1>1, <1>16, <3>1, <3>2
  <2>3. stack' = stack
    BY <1>1, <1>16 DEF match_cancel, match_modify
  <2>4. Aimed'
    BY <1>11, <1>14, <1>16, <2>3 DEF Aimed
  <2>5. ASSUME me'.dropped = 0, InRegistry', me'.lost = {}, Seen(p, me').evq = <<>>
        PROVE  client.ladder = Ladder(me'.resting)
    <3>1. me' = me
      BY <2>1, <2>2, <2>5 DEF Noted
    <3>2. InRegistry
      BY <1>3, <2>5, <3>1 DEF InRegistry
    <3> QED
      BY <1>7, <1>14, <1>16, <2>1, <2>5, <3>1, <3>2 DEF VInv, LadderKept
  <2>6. me'.dropped = 0 => LadderKept'
    BY <2>5 DEF LadderKept, p
  <2> QED
    BY <2>1, <2>2, <2>4, <2>6
<1> QED
  BY <1>9, <1>15, <1>16 DEF VInv, c, p

(* Every step of the bridge keeps what clients see. *)
LEMMA VInvStep ==
  ASSUME BInv, VInv, [BridgeNext]_bvars
  PROVE  VInv'
<1>1. CASE UNCHANGED bvars
  <2>1. UNCHANGED <<me, stack, gateway, accounts, id_map, cur, ack, hist, bp, call, client>>
    BY <1>1 DEF bvars, pvars
  <2>2. Context' = Context /\ Linking' = Linking
    BY <2>1 DEF Context, Linking, Captured, Expected
  <2>3. Aimed' /\ (LadderKept => LadderKept')
    BY <2>1, <2>2 DEF VInv, Aimed, Free, Request, LadderKept, InRegistry
  <2> QED
    BY <2>1, <2>2, <2>3 DEF VInv
<1>2. ASSUME NEW m \in NewOrders \cup Requests, NEW add \in 0..1, Enter(m, add) PROVE VInv'
  BY <1>2, EnterShows
<1>3. ASSUME NEW ev \in ToSet(gateway.out_ring), Dropped(ev) PROVE VInv'
  BY <1>3, DroppedShows
<1>4. ASSUME NEW ev \in ToSet(gateway.out_ring), Dispatch(ev), UNCHANGED <<bp, call, client>>
      PROVE  VInv'
  BY <1>4, DispatchedShows
<1>5. CASE Cascade /\ UNCHANGED <<gateway, accounts, last_trade_price, id_map, cur, stepping, ack,
                                  hist, bp, call, client>>
  BY <1>5, CascadedShows
<1>6. CASE Returned
  BY <1>6, ReturnedShows
<1>7. CASE Drain
  BY <1>7, DrainShows
<1> QED
  BY <1>1, <1>2, <1>3, <1>4, <1>5, <1>6, <1>7, Zenon DEF BridgeNext

(* Clients see what the engine has, as far as its queue has dropped no      *)
(* event.                                                                   *)
LEMMA ViewsKept == BridgeSpec => [](BInv /\ VInv)
<1>1. BridgeInit => BInv /\ VInv
  BY BInvInit, VInvInit
<1>2. BInv /\ VInv /\ [BridgeNext]_bvars => (BInv /\ VInv)'
  BY BInvStep, VInvStep
<1> QED
  BY <1>1, <1>2, PTL DEF BridgeSpec

-----------------------------------------------------------------------------
(* The theorems of what clients see. *)

(* Between the calls, clients see what the engine has. *)
LEMMA BetweenShown ==
  ASSUME BInv, VInv, Between
  PROVE  /\ Shown(Context, bp, me.resting, StopIds(me), me.lost, NoOrder)
         /\ call = 0 /\ cur = NoEvent /\ Linking = bp /\ Seen(bp, me) = bp
<1>1. call = 0 /\ cur = NoEvent /\ me.dropped = 0
  BY FreeCalls DEF Between
<1>2. Linking = bp /\ Seen(bp, me) = bp
  BY <1>1, AtRest
<1> QED
  BY <1>1, <1>2 DEF VInv, InView, Sees

(* The order an engine id stands for is shown, with its account. *)
LEMMA EngineIdIs ==
  ASSUME BInv, NEW id \in DOMAIN bp.slots, bp.slots[id].me_id # 0
  PROVE  LET i == bp.slots[id].me_id
         IN  /\ i \in DOMAIN bp.me_to_gw /\ bp.me_to_gw[i] = id
             /\ bp.slots[id].account_id = id_map_lookup_account(hist.owner, i)
<1> DEFINE i == bp.slots[id].me_id
           owner == hist.owner
<1>1. /\ Matched(bp, gateway.next_server_order_id) /\ KnownIn(bp, id_map)
      /\ Ordered(owner, me.next_order_id) /\ Begins(id_map, owner)
  BY DEF BInv
<1>2. i \in DOMAIN bp.me_to_gw /\ bp.me_to_gw[i] = id
  BY <1>1 DEF Matched
<1>3. PICK k \in 1..Len(id_map) : id_map[k][1] = i /\ id_map[k][2] = bp.slots[id].account_id
  BY <1>1, <1>2 DEF KnownIn
<1>4. k \in 1..Len(owner) /\ owner[k] = id_map[k] /\ Len(owner) \in Nat
  BY <1>1 DEF Begins, Ordered
<1> HIDE DEF owner
<1>5. k \in Places(owner, i)
  BY <1>3, <1>4 DEF Places
<1>6. ASSUME NEW j \in Places(owner, i) PROVE k <= j
  <2>1. j \in 1..Len(owner) /\ owner[j][1] = i
    BY DEF Places
  <2>2. j < k => owner[j][1] < owner[k][1]
    BY <1>1, <1>4, <2>1 DEF Ordered
  <2>3. i \in Nat /\ owner[k][1] = i
    BY <1>1, <1>3, <1>4 DEF Ordered
  <2> QED
    BY <1>4, <2>1, <2>2, <2>3
<1>7. id_map_lookup_account(owner, i) = owner[k][2]
  <2> HIDE DEF i
  <2> QED
    BY <1>5, <1>6, LookupIs
<1> QED
  BY <1>2, <1>3, <1>4, <1>7 DEF owner

(* As long as every id has had a slot, the orders that the engine has given *)
(* an id are registered.                                                    *)
LEMMA OwnedKnown ==
  ASSUME BInv, cur = NoEvent, InRegistry, NEW k \in 1..Len(hist.owner)
  PROVE  hist.owner[k][1] \in DOMAIN bp.me_to_gw
<1> DEFINE owner == hist.owner
           N == Len(owner)
<1>1. /\ Ordered(owner, me.next_order_id) /\ AllKnown(bp, id_map) /\ Recorded(Expected, owner)
      /\ me.next_order_id \in Nat
  BY DEF BInv, PInv, EngineSound, EInv, EngineTyped
<1>2. Expected = id_map
  BY DEF Expected, NoEvent
<1>3. N \in Nat /\ N \in 1..N /\ N <= owner[N][1] /\ owner[N][1] \in Nat /\ owner[N][1] < me.next_order_id
  <2>1. N \in Nat
    BY <1>1 DEF Ordered
  <2>2. N \in 1..N
    BY <2>1
  <2> QED
    BY <1>1, <2>1, <2>2 DEF Ordered
<1>4. N <= PIPELINE_MAX_ID_MAP
  <2>1. me.next_order_id - 1 <= PIPELINE_MAX_ID_MAP
    BY DEF InRegistry
  <2> DEFINE x == owner[N][1]
  <2>2. N <= x /\ x \in Nat /\ x < me.next_order_id
    BY <1>3
  <2> HIDE DEF x, N
  <2> QED
    BY <1>1, <1>3, <2>1, <2>2, PipelineAssumption
<1>5. Len(id_map) = N /\ \A i \in 1..N : id_map[i] = owner[i]
  <2>1. Len(id_map) = Lesser(N, PIPELINE_MAX_ID_MAP) /\ \A i \in 1..Len(id_map) : id_map[i] = owner[i]
    BY <1>1, <1>2 DEF Recorded
  <2>2. Lesser(N, PIPELINE_MAX_ID_MAP) = N
    BY <1>3, <1>4, PipelineAssumption DEF Lesser
  <2> QED
    BY <2>1, <2>2
<1>6. id_map[k] = owner[k] /\ k \in 1..Len(id_map)
  BY <1>5
<1> QED
  BY <1>1, <1>6 DEF AllKnown

(* The order a client is shown under its id is the order the engine keeps   *)
(* under another, whatever orders, trades, cancels, modifications, cascades *)
(* and refusals came before: with the quantity, price, side and owner it    *)
(* has there, and live exactly as long as it rests or is dormant; and every *)
(* order of a client that rests is shown.                                   *)
THEOREM ViewsMatchEngineAlways == BridgeSpec => []ViewsMatchEngine
<1>1. BInv /\ VInv => ViewsMatchEngine
  <2> SUFFICES ASSUME BInv, VInv, Between, InRegistry PROVE
        /\ \A k \in 1..Len(hist.owner) :
             (\E o \in me.resting : o.id = hist.owner[k][1]) => hist.owner[k][1] \in DOMAIN bp.me_to_gw
        /\ \A id \in DOMAIN bp.slots :
          LET s == bp.slots[id] IN
          /\ RestingAs(s) \cup DormantAs(s) # {} => Live(s)
          /\ \A o \in RestingAs(s) :
               /\ s.qty_remain = o.qty /\ s.side = o.side
               /\ s.type # "MARKET" => s.price = o.price
               /\ s.account_id = id_map_lookup_account(hist.owner, o.id)
          /\ Live(s) => \/ RestingAs(s) \cup DormantAs(s) # {}
                        \/ s.me_id \in me.lost \/ s.type \in {"STOP", "STOP_LIMIT"}
    BY Zenon DEF ViewsMatchEngine
  <2> DEFINE R == me.resting
             S == StopIds(me)
             L == me.lost
  <2>1. Shown(Context, bp, R, S, L, NoOrder) /\ call = 0 /\ cur = NoEvent
    BY BetweenShown
  <2>2. EngineTyped(me)
    BY DEF BInv, PInv, EngineSound, EInv
  <2>3. \A k \in 1..Len(hist.owner) : hist.owner[k][1] \in DOMAIN bp.me_to_gw
    BY <2>1, OwnedKnown
  <2>4. 0 \notin Ids(R) /\ 0 \notin S
    <3>1. \A o \in R : o.id # 0
      BY <2>2 DEF EngineTyped, Order
    <3>2. \A i \in ActiveStops(me) : me.stops[i].id # 0
      <4>1. SUFFICES ASSUME NEW i \in Slots, me.stops[i].active PROVE me.stops[i].id # 0
        BY DEF ActiveStops
      <4> DEFINE x == me.stops[i]
      <4>2. x \in Stop \cup {NoStop} /\ x.active
        BY <2>2, <4>1 DEF EngineTyped
      <4> HIDE DEF x
      <4>3. x # NoStop
        BY <4>2 DEF NoStop
      <4>4. x \in Stop
        BY <4>2, <4>3
      <4> QED
        BY <4>4 DEF Stop, x
    <3> QED
      BY <3>1, <3>2 DEF Ids, StopIds
  <2>5. ASSUME NEW id \in DOMAIN bp.slots
        PROVE  LET s == bp.slots[id] IN
               /\ RestingAs(s) \cup DormantAs(s) # {} => Live(s)
               /\ \A o \in RestingAs(s) :
                    /\ s.qty_remain = o.qty /\ s.side = o.side
                    /\ s.type # "MARKET" => s.price = o.price
                    /\ s.account_id = id_map_lookup_account(hist.owner, o.id)
               /\ Live(s) => \/ RestingAs(s) \cup DormantAs(s) # {}
                             \/ s.me_id \in L \/ s.type \in {"STOP", "STOP_LIMIT"}
    <3> DEFINE s == bp.slots[id]
               i == s.me_id
    <3>1. /\ RestingAs(s) = {o \in R : o.id = i}
          /\ RestingAs(s) # {} <=> i \in Ids(R)
          /\ DormantAs(s) # {} <=> i \in S
      BY DEF RestingAs, DormantAs, Ids, StopIds
    <3>2. CASE i = 0
      <4>1. RestingAs(s) = {} /\ DormantAs(s) = {}
        BY <2>4, <3>1, <3>2
      <4>2. id # 0
        BY DEF BInv, Matched, Registry
      <4>3. s.status = "REJECTED"
        BY <2>1, <3>2, <4>2 DEF Shown, Waiting, Context
      <4>4. ~Live(s)
        BY <4>3 DEF Live
      <4> HIDE DEF s
      <4> QED
        BY <4>1, <4>4 DEF s
    <3>3. CASE i # 0
      <4>1. /\ i \in DOMAIN bp.me_to_gw /\ bp.me_to_gw[i] = id
            /\ s.account_id = id_map_lookup_account(hist.owner, i)
        BY <3>3, EngineIdIs
      <4>2. Fits(s, i, R, S, L)
        BY <2>1, <3>3, <4>1 DEF Shown, Shows, NoOrder
      <4> HIDE DEF s, i
      <4>3. RestingAs(s) \cup DormantAs(s) # {} => Live(s)
        BY <3>1, <4>2 DEF Fits, Ids
      <4>4. \A o \in RestingAs(s) :
              /\ s.qty_remain = o.qty /\ s.side = o.side /\ (s.type # "MARKET" => s.price = o.price)
              /\ s.account_id = id_map_lookup_account(hist.owner, o.id)
        BY <3>1, <4>1, <4>2 DEF Fits
      <4>5. Live(s) => \/ RestingAs(s) \cup DormantAs(s) # {}
                       \/ i \in L \/ s.type \in {"STOP", "STOP_LIMIT"}
        BY <3>1, <4>2 DEF Fits, StopTypes
      <4> QED
        BY <4>3, <4>4, <4>5 DEF s, i
    <3> QED
      BY <3>2, <3>3
  <2> QED
    BY <2>3, <2>5
<1> QED
  BY <1>1, ViewsKept, PTL

(* Those who keep views of the orders by the events know the state of every *)
(* order once the queue is polled, if it has dropped none: of resting       *)
(* orders that trade, which the engine tells nothing of, and of orders      *)
(* refused before the engine, too.                                          *)
THEOREM StreamTellsViewsAlways == BridgeSpec => []StreamTellsViews
<1>1. BInv /\ VInv => StreamTellsViews
  <2> SUFFICES ASSUME BInv, VInv, Between, bp.evq = <<>>, ~client.gap, NEW id \in DOMAIN bp.slots
               PROVE  LET s == bp.slots[id] IN
                      /\ id \in DOMAIN client.orders
                      /\ <<s.status, s.price, s.qty_remain, s.qty_filled>> =
                           LET ev == client.orders[id]
                           IN  <<ev.status, ev.price, ev.qty_remain, ev.qty_filled>>
    BY Zenon DEF StreamTellsViews
  <2>1. Shown(Context, bp, me.resting, StopIds(me), me.lost, NoOrder) /\ call = 0
    BY BetweenShown
  <2>2. Following(client, bp) /\ Queue(bp) /\ id # 0
    BY DEF BInv, Matched, Registry
  <2>3. Complete(client, bp)
    <3>1. Len(<<>>) = 0
      OBVIOUS
    <3> QED
      BY <2>2, <3>1 DEF Following, Behind, Complete, Queue
  <2>4. View(client, bp) = client
    BY AllPolledNothing DEF View
  <2>5. UpToDate(Context, client, bp, NoOrder)
    BY <2>1, <2>3, <2>4 DEF Shown, Streams, Surfaces, Context
  <2>6. ~Pending(Context, bp, id, NoOrder)
    BY <2>1, <2>2 DEF Pending, Context, NoOrder
  <2> QED
    BY <2>5, <2>6 DEF UpToDate, StateTold
<1> QED
  BY <1>1, ViewsKept, PTL

(* Whoever keeps the ladder by the deltas has the book whenever there is    *)
(* nothing to poll, although a delta is pushed only when the bridge had an  *)
(* event to tell, unless a modification has lost an order.                  *)
THEOREM LadderToldAlways == BridgeSpec => []LadderTold
<1>1. BInv /\ VInv => LadderTold
  <2> SUFFICES ASSUME BInv, VInv, Between, InRegistry, bp.evq = <<>>, me.lost = {}
               PROVE  client.ladder = Ladder(me.resting)
    BY Zenon DEF LadderTold
  <2>1. call = 0 /\ Linking = bp /\ Seen(bp, me) = bp /\ me.dropped = 0
    BY BetweenShown DEF Between
  <2> QED
    BY <2>1 DEF VInv, LadderKept
<1> QED
  BY <1>1, ViewsKept, PTL

(* At rest, the status told by an event in the queue is final if it can be. *)
LEMMA StreamEndsOnce ==
  ASSUME BInv, VInv, cur = NoEvent, me.dropped = 0
  PROVE  EndsOnce(bp)
<1>1. Linking = bp /\ Seen(bp, me) = bp
  BY AtRest
<1> QED
  BY <1>1 DEF VInv, InView, Sees, Shown, Streams, Final

(* The answer changes the new order alone. *)
LEMMA AnsweredElse ==
  ASSUME NEW b, Registry(b), Queue(b), call = 0 \/ call \in DOMAIN b.slots, NEW id \in DOMAIN b.slots, id # call
  PROVE  Answered(b).slots[id] = b.slots[id]
<1> DEFINE p == Answered(b)
<1>1. p = b \/ \E b1 : AnswerSteps(p, b, b1)
  BY AnsweredSteps
<1> HIDE DEF p
<1>2. ASSUME NEW b1, AnswerSteps(p, b, b1) PROVE p.slots[id] = b.slots[id]
  <2>1. OneSlot(b1, b, call, Declined(b.slots[call])) /\ SameOrders(p, b1)
    BY <1>2 DEF AnswerSteps
  <2> QED
    BY <2>1 DEF OneSlot, SameOrders
<1> QED
  BY <1>1, <1>2 DEF p

(* The new order is open. *)
LEMMA CallLive ==
  ASSUME BInv, call # 0
  PROVE  Live(bp.slots[call])
<1>1. bp.slots[call] = Registered(Request)
  BY DEF BInv, Calling
<1> QED
  BY <1>1 DEF Registered, Live

(* The step that ends a call changes no final status. *)
LEMMA ReturnedLasts ==
  ASSUME BInv, VInv, Returned, me'.dropped = 0
  PROVE  Lasting
<1> DEFINE b == Seen(Linking, me)
           c == Context
<1>1. Settled /\ cur # NoEvent
      /\ bp' = Answered(process_staged_events(Captured(bp, id_map, id_map'), me.eq))
  BY DEF Returned, Finish, Settled
<1>2. id_map' = Expected /\ me' = [me EXCEPT !.eq = <<>>, !.out = NoResult]
  BY <1>1, Zenon DEF Settled, Expected
<1>3. bp' = Answered(b)
  BY <1>1, <1>2 DEF Linking, Seen
<1>4. me.dropped = 0
  <2>1. DOMAIN me = EngineFields
    BY DEF BInv, PInv, EngineSound, EInv, EngineTyped
  <2> QED
    BY <1>2, <2>1 DEF EngineFields
<1>5. c.base = bp /\ c.call = call
  BY DEF Context
<1> HIDE DEF b, c
<1>6. Shown(c, b, me.resting, StopIds(me), me.lost, NoOrder)
  BY <1>4 DEF VInv, InView, Sees, b, c
<1>7. Registry(b) /\ Queue(b) /\ (call = 0 \/ call \in DOMAIN b.slots) /\ SinceCall(c, b)
  BY <1>5, <1>6 DEF Shown, Matched, Streams, Final
<1>8. ASSUME NEW id \in DOMAIN bp.slots, ~Live(bp.slots[id])
      PROVE  bp'.slots[id].status = bp.slots[id].status
  <2>1. id # call
    <3>1. 0 \notin DOMAIN bp.slots
      BY DEF BInv, Matched, Registry
    <3> QED
      BY <1>8, <3>1, CallLive
  <2>2. id \in DOMAIN b.slots /\ b.slots[id].status = bp.slots[id].status
    BY <1>5, <1>7, <1>8 DEF SinceCall
  <2>3. bp'.slots[id] = b.slots[id]
    BY <1>3, <1>7, <2>1, <2>2, AnsweredElse
  <2> QED
    BY <2>2, <2>3
<1> QED
  BY <1>8 DEF Lasting

(* So does no other step. *)
LEMMA StepLasts ==
  ASSUME BInv, VInv, [BridgeNext]_bvars, bp' # bp, me'.dropped = 0
  PROVE  Lasting /\ cur' = NoEvent
<1>1. ASSUME NEW m \in NewOrders \cup Requests, NEW add, Enter(m, add)
      PROVE  Lasting /\ cur' = NoEvent
  <2> DEFINE s == Registered(m)
             id == call'
             p == bp'
  <2>1. /\ cur' = NoEvent
        /\ Enlarged(p, bp, id, s) /\ id = gateway.next_server_order_id + 1
        /\ gateway.next_server_order_id \in Nat
    BY <1>1, EnterIs
  <2>2. Matched(bp, gateway.next_server_order_id)
    BY DEF BInv
  <2>3. id \notin DOMAIN bp.slots
    BY <2>1, <2>2 DEF Matched
  <2>4. DOMAIN bp = BridgeFields
    BY <2>2 DEF Matched, Registry
  <2> HIDE DEF s, id, p
  <2>5. p.slots = Put(bp.slots, id, s)
    BY <2>1, <2>4 DEF Enlarged, BridgeFields
  <2>6. \A x \in DOMAIN bp.slots : p.slots[x] = bp.slots[x]
    BY <2>3, <2>5 DEF Put
  <2> QED
    BY <2>1, <2>6 DEF Lasting, p
<1>2. ASSUME NEW ev, Dropped(ev) PROVE Lasting /\ cur' = NoEvent
  <2>1. /\ Takes(ev) /\ cur' = cur /\ id_map' = id_map
        /\ bp' = Answered(process_staged_events(Captured(bp, id_map, id_map'), <<>>))
    BY <1>2 DEF Dropped, Drop, Finish
  <2>2. bp' = Answered(bp)
    BY <2>1, ProcessedNothing DEF Captured
  <2>3. cur' = NoEvent
    BY <2>1, TakesOnly DEF BInv
  <2>4. Registry(bp) /\ Queue(bp) /\ (call = 0 \/ call \in DOMAIN bp.slots) /\ 0 \notin DOMAIN bp.slots
    BY DEF BInv, Matched, Registry, Calling
  <2>5. ASSUME NEW id \in DOMAIN bp.slots, ~Live(bp.slots[id]) PROVE bp'.slots[id] = bp.slots[id]
    <3>1. id # call
      BY <2>4, <2>5, CallLive
    <3> QED
      BY <2>2, <2>4, <3>1, AnsweredElse
  <2> QED
    BY <2>3, <2>5 DEF Lasting
<1>3. CASE Returned
  <2>1. cur' = NoEvent
    BY <1>3 DEF Returned, Settled
  <2> QED
    BY <1>3, <2>1, ReturnedLasts
<1>4. CASE Drain
  <2>1. Free /\ cur' = cur /\ bp' = [bp EXCEPT !.evq = <<>>]
    BY <1>4 DEF Drain, pvars
  <2>2. DOMAIN bp = BridgeFields
    BY DEF BInv, Queue
  <2>3. bp'.slots = bp.slots
    BY <2>1, <2>2 DEF BridgeFields
  <2> QED
    BY <2>1, <2>3 DEF Lasting, Free
<1> QED
  BY <1>1, <1>2, <1>3, <1>4 DEF BridgeNext, bvars

(* An order that is filled, cancelled or rejected stays so: in the          *)
(* registry, and from one event in the queue to every later one.            *)
THEOREM TerminalIsFinalAlways == BridgeSpec => TerminalIsFinal
<1> DEFINE Final1 == me'.dropped = 0 =>
       /\ \A id \in DOMAIN bp.slots : ~Live(bp.slots[id]) => bp'.slots[id].status = bp.slots[id].status
       /\ \A i, j \in 1..Len(bp'.evq) :
            LET e == bp'.evq[i][2]
                f == bp'.evq[j][2]
            IN  (i < j /\ e.kind = "ORDER" /\ f.kind = "ORDER" /\ e.order_id = f.order_id /\ ~Live(e))
                  => f.status = e.status
<1>1. BInv /\ VInv /\ cur = NoEvent /\ me.dropped = 0 => EndsOnce(bp)
  BY StreamEndsOnce
<1>2. (BInv /\ VInv /\ cur = NoEvent /\ me.dropped = 0)' => EndsOnce(bp)'
  BY <1>1, PTL
<1>3. BInv /\ VInv /\ (BInv /\ VInv)' /\ [BridgeNext]_bvars => [Final1]_bp
  <2> SUFFICES ASSUME BInv, VInv, (BInv /\ VInv)', [BridgeNext]_bvars, bp' # bp, me'.dropped = 0
               PROVE  /\ \A id \in DOMAIN bp.slots :
                           ~Live(bp.slots[id]) => bp'.slots[id].status = bp.slots[id].status
                      /\ \A i, j \in 1..Len(bp'.evq) :
                           LET e == bp'.evq[i][2]
                               f == bp'.evq[j][2]
                           IN  (i < j /\ e.kind = "ORDER" /\ f.kind = "ORDER"
                                  /\ e.order_id = f.order_id /\ ~Live(e))
                                 => f.status = e.status
    BY Zenon
  <2>1. Lasting /\ cur' = NoEvent
    BY StepLasts
  <2>2. EndsOnce(bp')
    BY <1>2, <2>1
  <2> QED
    BY <2>1, <2>2 DEF Lasting, EndsOnce, IsOrder
<1> QED
  BY <1>3, ViewsKept, PTL DEF BridgeSpec, TerminalIsFinal

-----------------------------------------------------------------------------
(* The bounds of what the bridge keeps. *)

(* Admission spends no token, and pushes only if there is room. *)
LEMMA AdmittedMetered ==
  ASSUME NEW g, DOMAIN g = GatewayFields, Metered(g), IsSeq(g.out_ring), NEW m
  PROVE  Metered(Admitted(g, m).g)
<1> DEFINE id == g.next_server_order_id + 1
           f == [g EXCEPT !.next_server_order_id = id]
           known == idem_insert(f, m, id)
           pushed == gw_ring_push(known, m)
           dup == Answer(g, "DUPLICATE", g.idem[Key(m)])
           late == Answer(known, "THROTTLED", 0)
           ok == Answer(pushed, "ACCEPTED", id)
           r == Admitted(g, m)
<1>1. r = IF idem_find(g, m) THEN dup ELSE IF RingFull(g) THEN late ELSE ok
  BY Zenon DEF Admitted
<1>2. DOMAIN f = GatewayFields /\ f.tokens = g.tokens /\ f.out_ring = g.out_ring
  BY DEF GatewayFields
<1>3. DOMAIN known = GatewayFields /\ known.tokens = g.tokens /\ known.out_ring = g.out_ring
  <2> DEFINE y == [k \in DOMAIN f.idem \cup {Key(m)} |-> IF k = Key(m) THEN id ELSE f.idem[k]]
             h == [f EXCEPT !.idem = y]
  <2>1. known = f \/ known = h
    <3>1. \/ known = f
          \/ known = [f EXCEPT !.idem = [k \in DOMAIN @ \cup {Key(m)} |-> IF k = Key(m) THEN id ELSE @[k]]]
      <4> HIDE DEF f, id
      <4> QED
        BY Zenon DEF idem_insert
    <3> QED
      BY <3>1
  <2> HIDE DEF y, f, known
  <2> QED
    BY <1>2, <2>1 DEF GatewayFields
<1> HIDE DEF known, f
<1>4. pushed.tokens = g.tokens /\ pushed.out_ring = Append(g.out_ring, m)
  <2>1. pushed = [known EXCEPT !.out_ring = Append(known.out_ring, m)]
    BY DEF gw_ring_push
  <2> QED
    BY <1>3, <2>1 DEF GatewayFields
<1> HIDE DEF pushed
<1>5. dup.g = g /\ late.g = known /\ ok.g = pushed
  BY DEF Answer
<1> HIDE DEF dup, late, ok, r
<1>6. ASSUME ~RingFull(g) PROVE Metered(pushed)
  <2>1. Len(g.out_ring) \in Nat /\ Len(Append(g.out_ring, m)) = Len(g.out_ring) + 1
    BY AppendIs
  <2>2. Len(g.out_ring) < GW_RING_CAP - 1
    BY <1>6, <2>1, GatewayAssumption DEF RingFull
  <2> QED
    BY <1>4, <2>1, <2>2, GatewayAssumption DEF Metered
<1>7. Metered(known)
  BY <1>3 DEF Metered
<1> QED
  BY <1>1, <1>5, <1>6, <1>7 DEF r

(* gateway_submit stays within its bounds. *)
LEMMA SubmitMetered ==
  ASSUME NEW g, DOMAIN g = GatewayFields, Metered(g), IsSeq(g.out_ring), NEW m, NEW add \in Nat
  PROVE  Metered(gateway_submit(g, m, add).g)
<1> DEFINE r == gateway_submit(g, m, add)
           f == rl_refill(g, add)
           n == f.tokens - 1
           t == [f EXCEPT !.tokens = n]
           bad == Answer(g, "REJECTED", 0)
           killed == Answer(g, "KILLED", 0)
           late == Answer(f, "THROTTLED", 0)
           s == Admitted(t, m)
<1>1. r = IF ~stage_a_ingress(m) THEN bad ELSE IF g.kill_switch /\ m.action = "NEW" THEN killed
          ELSE IF f.tokens = 0 THEN late ELSE s
  BY Zenon DEF gateway_submit
<1>2. DOMAIN f = GatewayFields /\ f.tokens \in 0..max_tokens /\ f.out_ring = g.out_ring
  <2> DEFINE k == IF g.tokens + add > max_tokens THEN max_tokens ELSE g.tokens + add
  <2>1. f = [g EXCEPT !.tokens = k]
    BY DEF rl_refill
  <2>2. k \in 0..max_tokens
    BY GatewayAssumption DEF Metered
  <2> HIDE DEF k, f
  <2> QED
    BY <2>1, <2>2 DEF GatewayFields
<1> HIDE DEF f
<1>3. ASSUME f.tokens # 0 PROVE Metered(s.g)
  <2>1. n \in 0..max_tokens
    BY <1>2, <1>3, GatewayAssumption
  <2> HIDE DEF n
  <2>2. DOMAIN t = GatewayFields /\ t.tokens = n /\ t.out_ring = g.out_ring
    BY <1>2 DEF GatewayFields
  <2> HIDE DEF t
  <2> QED
    BY <2>1, <2>2, AdmittedMetered DEF Metered
<1>4. bad.g = g /\ killed.g = g /\ late.g = f
  BY DEF Answer
<1>5. Metered(f)
  BY <1>2 DEF Metered
<1> HIDE DEF bad, killed, late, s, r
<1> QED
  BY <1>1, <1>3, <1>4, <1>5 DEF r

(* A fill at a price within the range. *)
LEMMA FillCheap ==
  ASSUME NEW acc, DOMAIN acc = Accounts, \A b \in Accounts : PortfolioTyped(acc[b]), Cheap(acc),
         NEW a, NEW side \in Side, NEW ev, ev.price \in 0..MAX_PRICE, ev.qty \in Nat \ {0}
  PROVE  LET t == Fill(acc, a, side, ev)
         IN  DOMAIN t = Accounts /\ (\A b \in Accounts : PortfolioTyped(t[b])) /\ Cheap(t)
<1> DEFINE t == Fill(acc, a, side, ev)
           q == portfolio_on_fill(acc[a], side, ev.price, ev.qty)
           M == MAX_PRICE
<1>1. /\ DOMAIN t = Accounts
      /\ \A b \in Accounts : t[b] = IF b = a THEN q ELSE acc[b]
  BY FillIs
<1>2. M \in Nat
  BY EngineAssumption
<1>3. ASSUME a \in Accounts PROVE PortfolioTyped(q) /\ q.avg_price \in 0..M
  <2> DEFINE p == acc[a]
             price == ev.price
             qty == ev.qty
  <2>1. PortfolioTyped(p) /\ p.avg_price \in 0..M /\ price \in 0..M /\ qty \in Nat \ {0}
    BY <1>3 DEF Cheap
  <2> HIDE DEF p, price, qty, M
  <2>2. LET z == portfolio_on_fill(p, side, price, qty) IN PortfolioTyped(z) /\ z.avg_price \in 0..M
    BY <1>2, <2>1, FillAverage
  <2> QED
    BY <2>2 DEF p, price, qty
<1> HIDE DEF t, q
<1>4. ASSUME NEW b \in Accounts PROVE PortfolioTyped(t[b]) /\ t[b].avg_price \in 0..MAX_PRICE
  BY <1>1, <1>3, <1>4 DEF Cheap
<1>5. DOMAIN t = Accounts /\ (\A b \in Accounts : PortfolioTyped(t[b])) /\ Cheap(t)
  BY <1>1, <1>4 DEF Cheap
<1> QED
  BY <1>5 DEF t

(* A trade. *)
LEMMA TradeCheap ==
  ASSUME NEW acc, DOMAIN acc = Accounts, \A b \in Accounts : PortfolioTyped(acc[b]), Cheap(acc),
         NEW map, NEW ev, TradeSound(ev), Fit(ev)
  PROVE  Cheap(AccountsAfter(map, acc, ev))
<1>1. CASE ev.type # "TRADE"
  BY <1>1 DEF AccountsAfter
<1>2. CASE ev.type = "TRADE"
  <2> DEFINE a == id_map_lookup_account(map, ev.id)
             b == id_map_lookup_account(map, ev.resting_id)
             side == ev.side
             opp == Opp(side)
             t == Fill(acc, a, side, ev)
             u == Fill(t, b, opp, ev)
  <2>1. AccountsAfter(map, acc, ev) = u
    BY <1>2, Zenon DEF AccountsAfter, apply_trade
  <2>2. side \in Side /\ opp \in Side /\ ev.price \in 0..MAX_PRICE /\ ev.qty \in Nat \ {0}
    BY <1>2, EngineAssumption DEF TradeSound, Fit, PriceRange, Side, Opp
  <2> HIDE DEF a, b, side, opp
  <2>3. DOMAIN t = Accounts /\ (\A x \in Accounts : PortfolioTyped(t[x])) /\ Cheap(t)
    BY <2>2, FillCheap
  <2> HIDE DEF t
  <2>4. Cheap(u)
    BY <2>2, <2>3, FillCheap
  <2> QED
    BY <2>1, <2>4
<1> QED
  BY <1>1, <1>2

(* The trades of a step. *)
LEMMA DrainedCheap ==
  ASSUME NEW map, Recorded(map, hist.owner), Books(accounts, hist), IsSeq(me.eq),
         \A n \in 1..Len(me.eq) : TradeSound(me.eq[n]) /\ Fit(me.eq[n]), Cheap(accounts)
  PROVE  Cheap(Drained(map).accounts)
<1> DEFINE N == Len(me.eq)
<1>1. N \in Nat
  BY DEF IsSeq
<1>2. PICK g : /\ g[0].accounts = accounts
               /\ \A n \in 1..N : g[n] = EventApplied(g[n - 1], map, me.eq[n])
               /\ \A n \in 0..N : Draining(g[n], hist)
               /\ Drained(map) = g[N]
  BY <1>1, DrainedSteps, Zenon
<1> HIDE DEF N
<1> DEFINE G == {n \in Nat : n <= N => Cheap(g[n].accounts)}
<1>3. 0 \in G
  BY <1>2
<1>4. ASSUME NEW n \in Nat, n \in G PROVE n + 1 \in G
  <2> SUFFICES ASSUME n + 1 <= N PROVE Cheap(g[n + 1].accounts)
    OBVIOUS
  <2>1. n <= N /\ n \in 0..N /\ n + 1 \in 1..N /\ (n + 1) - 1 = n
    BY <1>1
  <2> DEFINE d == g[n]
             acc == d.accounts
             ev == me.eq[n + 1]
  <2>2. g[n + 1] = EventApplied(d, map, ev)
    <3>1. g[n + 1] = EventApplied(g[(n + 1) - 1], map, me.eq[n + 1])
      BY <1>2, <2>1, Zenon
    <3> QED
      BY <2>1, <3>1
  <2>3. g[n + 1].accounts = AccountsAfter(map, acc, ev)
    BY <2>2, AppliedAccounts
  <2>4. DOMAIN acc = Accounts /\ (\A b \in Accounts : PortfolioTyped(acc[b]))
    BY <1>2, <2>1 DEF Draining, Books
  <2>5. Cheap(acc)
    BY <1>4, <2>1
  <2>6. TradeSound(ev) /\ Fit(ev)
    BY <2>1 DEF N
  <2> HIDE DEF acc, ev, d
  <2> QED
    BY <2>3, <2>4, <2>5, <2>6, TradeCheap
<1>5. Nat \subseteq G
  <2> HIDE DEF G
  <2> QED
    BY <1>3, <1>4, SetOfNats
<1>6. N <= N
  BY <1>1
<1> QED
  BY <1>1, <1>2, <1>5, <1>6

(* What is reserved has no price. *)
LEMMA ReservedCheap ==
  ASSUME NEW h, Books(accounts, h), NEW ev, Cheap(accounts)
  PROVE  Cheap(Reserved(ev))
<1>1. ASSUME NEW a \in Accounts PROVE Reserved(ev)[a].avg_price = accounts[a].avg_price
  <2>1. SamePosition(accounts[a], Reserved(ev)[a])
    BY ReservedSame
  <2> QED
    BY <2>1 DEF SamePosition
<1> QED
  BY <1>1 DEF Cheap

(* One slot whose remainder is a number. *)
LEMMA OneSlotCounted ==
  ASSUME NEW b, Counted(b), NEW p, NEW id, NEW s, OneSlot(p, b, id, s),
         id \in DOMAIN b.slots => s.qty_remain \in Nat
  PROVE  Counted(p)
BY DEF Counted, OneSlot

(* The queue is not the registry. *)
LEMMA SameCounted ==
  ASSUME NEW b, Counted(b), NEW p, SameOrders(p, b)
  PROVE  Counted(p)
BY DEF Counted, SameOrders

(* A fill takes no more than there is. *)
LEMMA FilledCounted ==
  ASSUME NEW b, Registry(b), Counted(b), NEW id, NEW qty \in Nat, NEW p,
         OneSlot(p, b, id, Filled(b.slots[id], qty))
  PROVE  Counted(p)
<1> DEFINE s == b.slots[id]
           t == Filled(s, qty)
<1>1. ASSUME id \in DOMAIN b.slots PROVE t.qty_remain \in Nat
  <2>1. DOMAIN s = SlotFields /\ s.qty_remain \in Nat
    BY <1>1 DEF Registry, Counted
  <2> HIDE DEF s
  <2>2. t.qty_remain = IF s.qty_remain >= qty THEN s.qty_remain - qty ELSE 0
    BY <2>1, FilledSlot
  <2> QED
    BY <2>1, <2>2
<1> HIDE DEF t
<1> QED
  BY <1>1, OneSlotCounted DEF t

(* An event keeps the remainders numbers. *)
LEMMA StagedCounted ==
  ASSUME NEW b, Registry(b), Queue(b), Counted(b), NEW ev, Fit(ev), TradeSound(ev)
  PROVE  Counted(StagedEvent(b, ev))
<1> DEFINE p == StagedEvent(b, ev)
           agg == gw_from_me(b, ev.id)
           rest == gw_from_me(b, ev.resting_id)
<1>1. \/ p = b
      \/ ev.type = "TRADE" /\ p = Traded(b, agg, rest, ev)
      \/ ev.type \notin {"TRADE", "BOOK_UPDATED"} /\ p = OrderEvent(b, agg, ev)
  BY DEF StagedEvent, Translate, Staged, bus_publish, Topic
<1>2. agg = 0 \/ agg \in DOMAIN b.slots
  BY DEF gw_from_me, Registry
<1> HIDE DEF p, agg, rest
<1>3. ASSUME ev.type = "TRADE", p = Traded(b, agg, rest, ev) PROVE Counted(p)
  <2>1. PICK b1, b2, b3 : TradeSteps(p, b, agg, rest, ev, b1, b2, b3)
    BY <1>3, TradedSteps
  <2>2. /\ OneSlot(b1, b, agg, Filled(b.slots[agg], ev.qty)) /\ Registry(b1)
        /\ OneSlot(b2, b1, rest, Filled(b1.slots[rest], ev.qty))
        /\ SameOrders(b3, b2) /\ SameOrders(p, b3)
    BY <2>1 DEF TradeSteps
  <2>3. ev.qty \in Nat
    BY <1>3 DEF TradeSound
  <2>4. Counted(b1)
    BY <2>2, <2>3, FilledCounted
  <2>5. Counted(b2)
    BY <2>2, <2>3, <2>4, FilledCounted
  <2>6. Counted(b3)
    BY <2>2, <2>5, SameCounted
  <2> QED
    BY <2>2, <2>6, SameCounted
<1>4. ASSUME ev.type \notin {"TRADE", "BOOK_UPDATED"}, p = OrderEvent(b, agg, ev) PROVE Counted(p)
  <2>1. p = b \/ (agg \in DOMAIN b.slots /\ \E b1 : OrderSteps(p, b, agg, ev, b1))
    BY <1>2, <1>4, OrderEventSteps
  <2>2. ASSUME agg \in DOMAIN b.slots, NEW b1, OrderSteps(p, b, agg, ev, b1) PROVE Counted(p)
    <3> DEFINE s == b.slots[agg]
               t == Told(Advanced(s, ev), ev)
    <3>1. OneSlot(b1, b, agg, t) /\ SameOrders(p, b1)
      BY <2>2 DEF OrderSteps
    <3>2. DOMAIN s = SlotFields
      BY <2>2 DEF Registry
    <3>3. ev.qty_remain \in Nat
      BY <1>4 DEF Fit
    <3>4. t.qty_remain \in {0, ev.qty_remain}
      BY <3>2, ToldSlot
    <3> HIDE DEF t
    <3>5. Counted(b1)
      BY <3>1, <3>3, <3>4, OneSlotCounted
    <3> QED
      BY <3>1, <3>5, SameCounted
  <2> QED
    BY <2>1, <2>2
<1> QED
  BY <1>1, <1>3, <1>4 DEF p

(* The events of a step. *)
LEMMA ProcessedCounted ==
  ASSUME NEW b, Registry(b), Queue(b), Counted(b), NEW evs, Len(evs) \in Nat,
         \A n \in 1..Len(evs) : TradeSound(evs[n]) /\ Fit(evs[n])
  PROVE  Counted(process_staged_events(b, evs))
<1> DEFINE N == Len(evs)
<1>1. PICK g : /\ g[0] = b
               /\ \A n \in 1..N : g[n] = StagedEvent(g[n - 1], evs[n])
               /\ process_staged_events(b, evs) = g[N]
  BY ProcessedIs
<1> HIDE DEF N
<1>2. N \in Nat
  BY DEF N
<1> DEFINE G == {n \in Nat : n <= N => Registry(g[n]) /\ Queue(g[n]) /\ Counted(g[n])}
<1>3. 0 \in G
  BY <1>1
<1>4. ASSUME NEW n \in Nat, n \in G PROVE n + 1 \in G
  <2> SUFFICES ASSUME n + 1 <= N
               PROVE  Registry(g[n + 1]) /\ Queue(g[n + 1]) /\ Counted(g[n + 1])
    OBVIOUS
  <2> DEFINE d == g[n]
             ev == evs[n + 1]
  <2>1. n <= N /\ n + 1 \in 1..N /\ (n + 1) - 1 = n
    BY <1>2
  <2>2. g[n + 1] = StagedEvent(d, ev)
    <3>1. g[n + 1] = StagedEvent(g[(n + 1) - 1], evs[n + 1])
      BY <1>1, <2>1, Zenon
    <3> QED
      BY <2>1, <3>1
  <2>3. Registry(d) /\ Queue(d) /\ Counted(d)
    BY <1>4, <2>1
  <2>4. TradeSound(ev) /\ Fit(ev)
    BY <2>1 DEF N
  <2> HIDE DEF d, ev
  <2>5. Registry(StagedEvent(d, ev)) /\ Queue(StagedEvent(d, ev))
    BY <2>3, StagedKeeps
  <2> QED
    BY <2>2, <2>3, <2>4, <2>5, StagedCounted
<1>5. Nat \subseteq G
  <2> HIDE DEF G
  <2> QED
    BY <1>3, <1>4, SetOfNats
<1>6. N <= N
  BY <1>2
<1> QED
  BY <1>1, <1>2, <1>5, <1>6

(* The engine id of an order is not its remainder. *)
LEMMA CapturedCounted ==
  ASSUME NEW b, Registry(b), Counted(b), call = 0 \/ call \in DOMAIN b.slots, NEW before, NEW after
  PROVE  Counted(Captured(b, before, after))
<1> DEFINE p == Captured(b, before, after)
           i == Last(after)[1]
<1>1. p = b \/ (call \in DOMAIN b.slots /\ Linked(p, b, call, i))
  BY CapturedIs
<1> HIDE DEF p, i
<1>2. ASSUME call \in DOMAIN b.slots, Linked(p, b, call, i) PROVE Counted(p)
  <2>1. /\ DOMAIN p.slots = DOMAIN b.slots
        /\ \A x \in DOMAIN b.slots : x # call => p.slots[x] = b.slots[x]
        /\ p.slots[call] = [b.slots[call] EXCEPT !.me_id = i]
    BY <1>2 DEF Linked
  <2>2. DOMAIN b.slots[call] = SlotFields
    BY <1>2 DEF Registry
  <2>3. p.slots[call].qty_remain = b.slots[call].qty_remain
    BY <2>1, <2>2 DEF SlotFields
  <2> QED
    BY <2>1, <2>3 DEF Counted
<1> QED
  BY <1>1, <1>2 DEF p

(* A refusal leaves the remainder. *)
LEMMA AnsweredCounted ==
  ASSUME NEW b, Registry(b), Queue(b), Counted(b), call = 0 \/ call \in DOMAIN b.slots
  PROVE  Counted(Answered(b))
<1> DEFINE p == Answered(b)
<1>1. p = b \/ \E b1 : AnswerSteps(p, b, b1)
  BY AnsweredSteps
<1> HIDE DEF p
<1>2. ASSUME NEW b1, AnswerSteps(p, b, b1) PROVE Counted(p)
  <2> DEFINE s == b.slots[call]
             t == Declined(s)
  <2>1. OneSlot(b1, b, call, t) /\ SameOrders(p, b1) /\ call \in DOMAIN b.slots
    BY <1>2 DEF AnswerSteps
  <2>2. DOMAIN s = SlotFields /\ s.qty_remain \in Nat
    BY <2>1 DEF Registry, Counted
  <2>3. t.qty_remain = s.qty_remain
    BY <2>2, DeclinedSlot
  <2> HIDE DEF t
  <2>4. Counted(b1)
    BY <2>1, <2>2, <2>3, OneSlotCounted
  <2> QED
    BY <2>1, <2>4, SameCounted
<1> QED
  BY <1>1, <1>2 DEF p

(* The prices of what is in the ring. *)
LEMMA PostedPrices ==
  ASSUME NEW ev \in Posted
  PROVE  /\ ev.action = "NEW" => ev.price \in 0..MAX_PRICE
         /\ ev.action = "MODIFY" => ev.price \in PriceRange
<1>1. CASE ev \in {m \in NewOrders : stage_a_ingress(m)}
  <2>1. ev.action = "NEW" /\ ev.price \in Nat /\ ev.price <= MAX_PRICE
    BY <1>1, PipelineAssumption, PriceAssumption
  <2> QED
    BY <2>1, EngineAssumption
<1>2. CASE ev \in {Message("CANCEL", 1, 0, "LIMIT", "BID", 0, 0, 0, id) : id \in Nat}
  BY <1>2 DEF Message
<1>3. CASE ev \in {Message("MODIFY", 1, 0, "LIMIT", "BID", a[1], 0, a[2], id) :
                      a \in Amendments, id \in Nat}
  <2>1. PICK a \in Amendments : ev.action = "MODIFY" /\ ev.price = a[1]
    BY <1>3 DEF Message
  <2>2. a \in (1..MAX_PRICE) \X (Nat \ {0})
    BY PipelineAssumption
  <2>3. a[1] \in 1..MAX_PRICE
    BY <2>2
  <2> QED
    BY <2>1, <2>3 DEF PriceRange
<1> QED
  BY <1>1, <1>2, <1>3 DEF Posted

(* A new order in the engine stays within the bounds ... *)
LEMMA MatchNewBounded ==
  ASSUME NEW v, EInv(v, me), Bounded(me), NEW ev \in Posted, ev.action = "NEW", match_new(ev)
  PROVE  Bounded(me')
<1> DEFINE type == ev.type
           side == ev.side
           price == ev.price
           trigger == ev.trigger_price
           qty == ev.qty
<1>1. /\ type \in {"LIMIT", "MARKET", "IOC", "FOK", "STOP", "STOP_LIMIT"}
      /\ side \in Side /\ price \in 0..MAX_PRICE /\ qty \in Nat \ {0}
  BY PostedTypes, PostedPrices
<1>2. CASE type \in {"STOP", "STOP_LIMIT"}
  <2> DEFINE ttl == FALSE
  <2>1. me' = me_submit_stop(me, type, side, trigger, price, qty, ttl)
    BY <1>2, Zenon DEF match_new
  <2> HIDE DEF type, side, price, trigger, qty, ttl
  <2> QED
    BY <1>1, <2>1, SubmitStopBounded
<1>3. CASE type \notin {"STOP", "STOP_LIMIT"}
  <2> DEFINE r == me_submit_order(me, type, side, price, qty)
             s == [r EXCEPT !.e.out = r.out]
             x == [r.e EXCEPT !.out = r.out]
  <2>1. me' = s.e
    BY <1>3, Zenon DEF match_new, GoOn
  <2>2. type \in {"LIMIT", "MARKET", "IOC", "FOK"}
    BY <1>1, <1>3
  <2> HIDE DEF type, side, price, trigger, qty
  <2>3. Submitted(v, r, me) /\ Bounded(r.e)
    BY <1>1, <2>2, SubmitKeeps, SubmitBounded
  <2> HIDE DEF r
  <2>4. DOMAIN r = {"e", "scan", "out"}
    BY <2>3 DEF Submitted
  <2>5. s = [r EXCEPT !.e = x]
    BY Zenon
  <2>6. s.e = x
    <3> HIDE DEF x, s
    <3> QED
      BY <2>4, <2>5
  <2> HIDE DEF s
  <2>7. ResultSet(x, r.e, r.out)
    BY DEF ResultSet
  <2> HIDE DEF x
  <2> QED
    BY <2>1, <2>3, <2>6, <2>7, ResultSetBounded
<1> QED
  BY <1>2, <1>3

(* ... and a cancel ... *)
LEMMA MatchCancelBounded ==
  ASSUME Bounded(me), NEW ev, match_cancel(ev)
  PROVE  Bounded(me')
<1> DEFINE at == Target(ev)
           o == CHOOSE o \in at : TRUE
<1>1. me' = IF at = {} THEN me_cancel_stop(me, ev.target_order_id) ELSE me_cancel_order(me, o)
  BY Zenon DEF match_cancel
<1> HIDE DEF o, at
<1> QED
  BY <1>1, CancelStopBounded, CancelOrderBounded

(* ... and a modification. *)
LEMMA MatchModifyBounded ==
  ASSUME NEW v, EInv(v, me), Bounded(me), NEW ev \in Posted, ev.action = "MODIFY", match_modify(ev)
  PROVE  Bounded(me')
<1> DEFINE at == Target(ev)
           o == CHOOSE o \in at : TRUE
           price == ev.price
           qty == ev.qty
<1>1. me' = IF at = {} \/ price <= 0 \/ qty = 0 THEN me ELSE me_modify_order(me, o, price, qty)
  BY Zenon DEF match_modify
<1>2. at \subseteq me.resting
  BY DEF Target
<1>3. price \in PriceRange /\ qty \in Nat \ {0}
  BY PostedTypes, PostedPrices
<1> HIDE DEF at, price, qty
<1>4. ASSUME at # {} PROVE Bounded(me_modify_order(me, o, price, qty))
  <2>1. o \in me.resting
    BY <1>2, <1>4
  <2>2. o \in Order
    BY <2>1 DEF EInv, EngineTyped, IsBook
  <2> HIDE DEF o
  <2> QED
    BY <1>3, <2>2, ModifyOrderBounded
<1> QED
  BY <1>1, <1>4

-----------------------------------------------------------------------------
(* The bounds, one step of the bridge at a time. *)

(* Nothing rests, and nothing is told. *)
LEMMA BoundsInit ==
  ASSUME BridgeInit
  PROVE  BoundsInv
<1>1. /\ EngineInit /\ gateway = [gateway_init EXCEPT !.next_server_order_id = id_base]
      /\ accounts = [a \in Accounts |-> portfolio_init(max_position, max_order_notional)]
      /\ bp = [slots |-> NoEntries, me_to_gw |-> NoEntries, evq |-> <<>>, next_seq |-> 0]
  BY DEF BridgeInit, InitFrom
<1>2. Bounded(me)
  BY <1>1, BoundedStarts
<1>3. Metered(gateway)
  <2>1. Len(<<>>) = 0
    OBVIOUS
  <2>2. gateway.tokens = max_tokens /\ gateway.out_ring = <<>>
    BY <1>1 DEF gateway_init
  <2> QED
    BY <2>1, <2>2, GatewayAssumption DEF Metered
<1>4. Cheap(accounts)
  <2>1. ASSUME NEW a \in Accounts PROVE accounts[a].avg_price = 0
    BY <1>1 DEF portfolio_init
  <2> QED
    BY <2>1, EngineAssumption DEF Cheap
<1>5. Counted(bp)
  BY <1>1 DEF Counted, NoEntries
<1> QED
  BY <1>2, <1>3, <1>4, <1>5 DEF BoundsInv

(* A submission. *)
LEMMA EnterBounds ==
  ASSUME BInv, BoundsInv, NEW m \in NewOrders \cup Requests, NEW add \in 0..1, Enter(m, add)
  PROVE  BoundsInv'
<1> DEFINE t == Translated(m)
           s == Registered(m)
           S == Put(bp.slots, call', s)
<1>1. /\ Free /\ Submit(t, add)
      /\ call' = 0 \/ m.action = "NEW"
      /\ bp' = IF call' = 0 THEN bp ELSE [bp EXCEPT !.slots = S]
  BY Zenon DEF Enter
<1> HIDE DEF t, s, S
<1>2. /\ gateway' = gateway_submit(gateway, t, add).g
      /\ me' = me /\ accounts' = accounts
  BY <1>1, Zenon DEF Submit
<1>3. Metered(gateway')
  <2>1. DOMAIN gateway = GatewayFields
    BY DEF BInv, PInv, Cached
  <2>2. gateway.out_ring = <<>>
    BY <1>1 DEF Free
  <2>3. IsSeq(<<>>)
    BY DEF IsSeq
  <2>4. IsSeq(gateway.out_ring) /\ Metered(gateway) /\ add \in Nat
    BY <2>2, <2>3 DEF BoundsInv
  <2> QED
    BY <1>2, <2>1, <2>4, SubmitMetered
<1>4. Counted(bp')
  <2>1. Counted(bp) /\ DOMAIN bp = BridgeFields
    BY DEF BoundsInv, BInv, Queue
  <2>2. ASSUME call' # 0 PROVE Counted(bp')
    <3>1. m.action = "NEW"
      BY <1>1, <2>2
    <3>2. m \in NewOrders
      BY <3>1 DEF Requests, Message
    <3>3. m.qty \in Nat
      BY <3>2, PipelineAssumption
    <3>4. s.qty_remain \in Nat
      BY <3>3 DEF s, Registered
    <3>5. bp'.slots = S
      BY <1>1, <2>1, <2>2 DEF BridgeFields
    <3>6. \A id \in DOMAIN S : S[id] = IF id = call' THEN s ELSE bp.slots[id]
      BY DEF S, Put
    <3>7. DOMAIN S = DOMAIN bp.slots \cup {call'}
      BY DEF S, Put
    <3> QED
      BY <2>1, <3>4, <3>5, <3>6, <3>7 DEF Counted
  <2> QED
    BY <1>1, <2>1, <2>2
<1> QED
  BY <1>2, <1>3, <1>4 DEF BoundsInv

(* The ring's message is taken. *)
LEMMA TakesMetered ==
  ASSUME BInv, BoundsInv, NEW ev, Takes(ev)
  PROVE  Metered(gateway')
<1> DEFINE t == Tail(gateway.out_ring)
<1>1. gateway' = [gateway EXCEPT !.out_ring = t]
  BY Zenon DEF Takes, gw_ring_pop
<1> HIDE DEF t
<1>2. DOMAIN gateway = GatewayFields
  BY DEF BInv, PInv, Cached
<1>3. gateway'.tokens = gateway.tokens
  BY <1>1, <1>2 DEF GatewayFields
<1>4. gateway'.out_ring = <<>>
  BY TakesOnly DEF BInv
<1>5. Len(<<>>) = 0
  OBVIOUS
<1> QED
  BY <1>3, <1>4, <1>5, GatewayAssumption DEF Metered, BoundsInv

(* A message that is refused. *)
LEMMA DroppedBounds ==
  ASSUME BInv, BoundsInv, NEW ev, Dropped(ev)
  PROVE  BoundsInv'
<1>1. /\ Takes(ev) /\ me' = me /\ accounts' = accounts /\ id_map' = id_map
      /\ bp' = Answered(process_staged_events(Captured(bp, id_map, id_map'), <<>>))
  BY DEF Dropped, Drop, Finish
<1>2. Captured(bp, id_map, id_map') = bp
  BY <1>1 DEF Captured
<1>3. bp' = Answered(bp)
  BY <1>1, <1>2, ProcessedNothing
<1>4. Registry(bp) /\ Queue(bp) /\ (call = 0 \/ call \in DOMAIN bp.slots)
  BY DEF BInv, Matched, Calling
<1>5. Counted(bp')
  BY <1>3, <1>4, AnsweredCounted DEF BoundsInv
<1>6. Metered(gateway')
  BY <1>1, TakesMetered
<1> QED
  BY <1>1, <1>5, <1>6 DEF BoundsInv

(* A message goes to the engine. *)
LEMMA DispatchedBounds ==
  ASSUME BInv, BoundsInv, NEW ev, Dispatch(ev), bp' = bp
  PROVE  BoundsInv'
<1>1. /\ Takes(ev) /\ accounts' = Reserved(ev)
      /\ \/ ev.action = "NEW" /\ match_new(ev)
         \/ ev.action = "CANCEL" /\ match_cancel(ev)
         \/ ev.action = "MODIFY" /\ match_modify(ev)
  BY Zenon DEF Dispatch
<1>2. PInv /\ Books(accounts, hist) /\ Bounded(me) /\ Cheap(accounts) /\ Counted(bp)
  BY DEF BInv, PInv, BoundsInv
<1>3. ev \in Posted
  BY <1>1, <1>2, TakesKeeps
<1>4. PICK v : EInv(v, me)
  BY <1>2 DEF PInv, EngineSound
<1>5. Bounded(me')
  <2>1. CASE ev.action = "NEW" /\ match_new(ev)
    BY <1>2, <1>3, <1>4, <2>1, MatchNewBounded
  <2>2. CASE ev.action = "CANCEL" /\ match_cancel(ev)
    BY <1>2, <2>2, MatchCancelBounded
  <2>3. CASE ev.action = "MODIFY" /\ match_modify(ev)
    BY <1>2, <1>3, <1>4, <2>3, MatchModifyBounded
  <2> QED
    BY <1>1, <2>1, <2>2, <2>3
<1>6. Metered(gateway')
  BY <1>1, TakesMetered
<1>7. Cheap(accounts')
  BY <1>1, <1>2, ReservedCheap
<1> QED
  BY <1>2, <1>5, <1>6, <1>7 DEF BoundsInv

(* The cascade. *)
LEMMA CascadedBounds ==
  ASSUME BInv, BoundsInv, Cascade, UNCHANGED <<gateway, accounts, bp>>
  PROVE  BoundsInv'
<1>1. PICK v : EInv(v, me)
  BY DEF BInv, PInv, EngineSound
<1>2. Bounded(me')
  <2>1. CASE FireStop
    BY <1>1, <2>1, FiredBounded DEF BoundsInv
  <2>2. CASE ScanDone
    BY <2>2 DEF ScanDone, BoundsInv
  <2> QED
    BY <2>1, <2>2 DEF Cascade
<1> QED
  BY <1>2 DEF BoundsInv

(* The call ends. *)
LEMMA ReturnedBounds ==
  ASSUME BInv, BoundsInv, Returned
  PROVE  BoundsInv'
<1> DEFINE map == Expected
           b == Captured(bp, id_map, map)
           p == process_staged_events(b, me.eq)
           d == Drained(map)
<1>1. /\ Settled /\ cur # NoEvent
      /\ bp' = Answered(process_staged_events(Captured(bp, id_map, id_map'), me.eq))
  BY DEF Returned, Finish, Settled
<1>2. /\ id_map' = map /\ accounts' = d.accounts
      /\ HandedOver(me', me, NoResult) /\ gateway' = gateway
  BY <1>1, SettledIs, Zenon
<1>3. bp' = Answered(p)
  BY <1>1, <1>2
<1>4. PInv /\ Calling /\ Bounded(me) /\ Metered(gateway) /\ Cheap(accounts) /\ Counted(bp)
  BY DEF BInv, BoundsInv
<1>5. /\ Recorded(map, hist.owner) /\ Books(accounts, hist) /\ IsSeq(me.eq) /\ Len(me.eq) \in Nat
      /\ \A n \in 1..Len(me.eq) : TradeSound(me.eq[n]) /\ Fit(me.eq[n])
  BY <1>4, EventsSound DEF PInv, Bounded
<1>6. /\ Matched(b, gateway.next_server_order_id) /\ Queue(b)
      /\ (call = 0 \/ call \in DOMAIN b.slots)
  BY <1>1, CapturedKeeps
<1>7. Registry(b) /\ Registry(bp) /\ (call = 0 \/ call \in DOMAIN bp.slots)
  BY <1>4, <1>6 DEF BInv, Matched, Calling
<1>8. Counted(b)
  <2> HIDE DEF map
  <2> QED
    BY <1>4, <1>7, CapturedCounted
<1> HIDE DEF map, b
<1>9. Cheap(d.accounts)
  BY <1>4, <1>5, DrainedCheap
<1>10. Counted(p)
  BY <1>5, <1>6, <1>7, <1>8, ProcessedCounted
<1>11. Registry(p) /\ Queue(p) /\ (call = 0 \/ call \in DOMAIN p.slots)
  <2>1. Following(client, b)
    <3>1. b.evq = bp.evq /\ b.next_seq = bp.next_seq
      BY <1>1, CapturedKeeps DEF map, b
    <3> QED
      BY <3>1, FollowsSame DEF BInv
  <2>2. Translating(p, b, client)
    BY <1>5, <1>6, <1>7, <2>1, StepPolls
  <2> QED
    BY <1>6, <2>2 DEF Translating, SameRegistry
<1> HIDE DEF p, d
<1>12. Counted(bp')
  BY <1>3, <1>10, <1>11, AnsweredCounted
<1>13. Bounded(me')
  BY <1>2, <1>4, HandedOverBounded
<1> QED
  BY <1>2, <1>4, <1>9, <1>12, <1>13 DEF BoundsInv

(* Every step keeps the bounds. *)
LEMMA BoundsStep ==
  ASSUME BInv, BoundsInv, [BridgeNext]_bvars
  PROVE  BoundsInv'
<1>1. CASE UNCHANGED bvars
  BY <1>1 DEF bvars, pvars, BoundsInv
<1>2. ASSUME NEW m \in NewOrders \cup Requests, NEW add \in 0..1, Enter(m, add) PROVE BoundsInv'
  BY <1>2, EnterBounds
<1>3. ASSUME NEW ev \in ToSet(gateway.out_ring), Dropped(ev) PROVE BoundsInv'
  BY <1>3, DroppedBounds
<1>4. ASSUME NEW ev \in ToSet(gateway.out_ring), Dispatch(ev), UNCHANGED <<bp, call, client>>
      PROVE  BoundsInv'
  BY <1>4, DispatchedBounds
<1>5. CASE Cascade /\ UNCHANGED <<gateway, accounts, last_trade_price, id_map, cur, stepping, ack,
                                  hist, bp, call, client>>
  BY <1>5, CascadedBounds
<1>6. CASE Returned
  BY <1>6, ReturnedBounds
<1>7. CASE Drain
  <2> DEFINE p == bp'
  <2>1. p = [bp EXCEPT !.evq = <<>>] /\ UNCHANGED <<me, gateway, accounts>>
    BY <1>7, Zenon DEF Drain, pvars
  <2>2. DOMAIN bp = BridgeFields
    BY DEF BInv, Queue
  <2>3. p.slots = bp.slots
    BY <2>1, <2>2 DEF BridgeFields
  <2> QED
    BY <2>1, <2>3 DEF BoundsInv, Counted
<1> QED
  BY <1>1, <1>2, <1>3, <1>4, <1>5, <1>6, <1>7, Zenon DEF BridgeNext

-----------------------------------------------------------------------------
(* The state of the whole library: rings, token bucket, id map and poll     *)
(* queue stay within their capacities whatever is submitted, the prices     *)
(* that rest and that positions average to stay in range, the poll queue is *)
(* numbered without a gap, and the ids of gateway and engine are matched    *)
(* one to one.                                                              *)
THEOREM BridgeTypeCorrect == BridgeSpec => []TypeOK
<1>1. BridgeInit => BoundsInv
  BY BoundsInit
<1>2. BInv /\ BoundsInv /\ [BridgeNext]_bvars => BoundsInv'
  BY BoundsStep
<1>3. BInv /\ BoundsInv => TypeOK
  <2> SUFFICES ASSUME BInv, BoundsInv PROVE TypeOK
    OBVIOUS
  <2>1. PICK v : EInv(v, me)
    BY DEF BInv, PInv, EngineSound
  <2>2. ASSUME NEW o \in me.resting
        PROVE  o.price \in 1..MAX_PRICE /\ o.qty > 0 /\ o.id < me.next_order_id
    <3>1. o \in Order /\ o.id < me.next_order_id
      BY <2>1 DEF EInv, EngineTyped, Numbered, Apart
    <3>2. o.qty \in Nat \ {0}
      BY <3>1 DEF Order
    <3> QED
      BY <3>1, <3>2 DEF BoundsInv, Bounded, PriceRange
  <2>3. Len(id_map) <= PIPELINE_MAX_ID_MAP
    <3>1. Begins(id_map, hist.owner) /\ Recorded(Expected, hist.owner)
      BY DEF BInv, PInv
    <3>2. Len(Expected) <= PIPELINE_MAX_ID_MAP
      BY <3>1, PipelineAssumption DEF Recorded, Lesser
    <3>3. Expected = id_map \/ \E x : Expected = Append(id_map, x)
      BY DEF Expected, id_map_remember
    <3>4. \A x : Len(Append(id_map, x)) = Len(id_map) + 1 /\ Len(id_map) \in Nat
      BY <3>1, AppendIs DEF Begins
    <3> QED
      BY <3>2, <3>3, <3>4, PipelineAssumption
  <2>4. /\ Len(me.eq) < ME_EVENT_QUEUE_CAP /\ Len(gateway.out_ring) < GW_RING_CAP
        /\ gateway.tokens \in 0..max_tokens
        /\ \A a \in Accounts : accounts[a].avg_price \in 0..MAX_PRICE
    BY DEF BoundsInv, Bounded, Metered, Cheap
  <2>5. /\ Len(bp.evq) < BRIDGE_EVENT_QUEUE_CAP
        /\ \A i \in 1..Len(bp.evq) : bp.evq[i][1] = bp.next_seq - Len(bp.evq) + i
    BY DEF BInv, Queue
  <2>6. /\ \A id \in DOMAIN bp.slots : HasSlot(id) /\ bp.slots[id].qty_remain \in Nat
        /\ \A id \in DOMAIN bp.slots : bp.slots[id].me_id # 0 => bp.me_to_gw[bp.slots[id].me_id] = id
        /\ \A i \in DOMAIN bp.me_to_gw : bp.slots[bp.me_to_gw[i]].me_id = i
        /\ call = 0 \/ call \in DOMAIN bp.slots
    BY DEF BInv, Matched, Calling, BoundsInv, Counted
  <2> QED
    BY <2>2, <2>3, <2>4, <2>5, <2>6, Zenon DEF TypeOK
<1> QED
  BY <1>1, <1>2, <1>3, BridgeInvariant, PTL DEF BridgeSpec
=============================================================================
