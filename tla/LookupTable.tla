----------------------------- MODULE LookupTable -----------------------------
(***************************************************************************)
(* The id lookup of engine/orderbook.c: one open-addressing hash table,    *)
(* g_lookup, that every book of the process inserts its resting orders     *)
(* into and finds them through.  Linear probing; a removal leaves no       *)
(* tombstone but inserts the rest of the probe cluster again.              *)
(*                                                                         *)
(* Each book numbers its orders from 1 and keeps them in the slots of its  *)
(* own pool.  A book is here what the table can see of it: which order is  *)
(* in which slot, the stack of free slots, and the next id.                *)
(***************************************************************************)
EXTENDS Integers, Sequences, FiniteSets, SequencesExt

CONSTANTS
  Books,       \* the books of the process
  LOOKUP_CAP,  \* slots of the table: twice OB_MAX_ORDERS
  POOL,        \* OB_MAX_ORDERS: slots of one book's pool
  MAX_ID       \* bound: ids a book hands out between two inits

ASSUME LookupAssumption ==
  POOL \in Nat \ {0} /\ LOOKUP_CAP \in Nat /\ POOL < LOOKUP_CAP /\ MAX_ID \in Nat

VARIABLES
  hash,   \* lookup_slot: id -> home position; any function, fixed at the start
  table,  \* g_lookup->slots: position -> [key, pool_idx], key 0 is empty
  live,   \* the books between their ob_init and ob_destroy
  slots,  \* per book: pool slot -> id of the order in it, 0 if free
  free,   \* per book: order_free_stack, the top last
  next    \* per book: next_order_id

vars == <<hash, table, live, slots, free, next>>

Positions == 0..(LOOKUP_CAP - 1)
OB_NULL_IDX == -1

Empty == [key |-> 0, pool_idx |-> 0]
EmptyTable == [i \in Positions |-> Empty]

(* The position k probes after the home position of id. *)
At(id, k) == (hash[id] + k) % LOOKUP_CAP

(* lookup_insert: the first empty position from home on.  With none empty  *)
(* the loop would not end, and here there is no such k.                    *)
lookup_insert(t, id, idx) ==
  LET k == CHOOSE n \in Positions :
             /\ t[At(id, n)].key = 0
             /\ \A m \in 0..(n - 1) : t[At(id, m)].key # 0
  IN  [t EXCEPT ![At(id, k)] = [key |-> id, pool_idx |-> idx]]

(* The number of probes after which the search for id ends, at its key or  *)
(* at an empty position; LOOKUP_CAP if it meets neither.                   *)
Probes(t, id) ==
  LET stops == {n \in Positions : t[At(id, n)].key \in {0, id}}
  IN  IF stops = {} THEN LOOKUP_CAP ELSE CHOOSE n \in stops : \A m \in stops : n <= m

Found(t, id) == Probes(t, id) < LOOKUP_CAP /\ t[At(id, Probes(t, id))].key = id

lookup_find(t, id) ==
  IF Found(t, id) THEN t[At(id, Probes(t, id))].pool_idx ELSE OB_NULL_IDX

(* Mutant: the removed position is cleared, the cluster behind it stays. *)
lookup_remove_Leaves(t, id) ==
  IF Found(t, id) THEN [t EXCEPT ![At(id, Probes(t, id))] = Empty] ELSE t

(* Mutant: the entry is inserted again and stays where it was, too. *)
Moved_Copies(t, j) == lookup_insert(t, t[j].key, t[j].pool_idx)

(* The entry at position j taken out and inserted again. *)
Moved(t, j) == lookup_insert([t EXCEPT ![j] = Empty], t[j].key, t[j].pool_idx)

(* A turn of lookup_remove's loop, at position j; it changes nothing once   *)
(* the loop has met an empty position.                                     *)
Rescanned(acc, j) ==
  IF acc.over \/ acc.t[j].key = 0 THEN [t |-> acc.t, over |-> TRUE]
  ELSE [t |-> Moved(acc.t, j), over |-> FALSE]

(* lookup_remove: clear the position, then move each entry of the rest of  *)
(* the cluster.                                                            *)
lookup_remove(t, id) ==
  LET at == At(id, Probes(t, id))
      after[d \in 0..(LOOKUP_CAP - 1)] ==
        IF d = 0 THEN [t |-> [t EXCEPT ![at] = Empty], over |-> FALSE]
        ELSE Rescanned(after[d - 1], (at + d) % LOOKUP_CAP)
  IN  IF Found(t, id) THEN after[LOOKUP_CAP - 1].t ELSE t

-----------------------------------------------------------------------------
FreshSlots == [i \in 0..(POOL - 1) |-> 0]
FreshFree == [i \in 1..POOL |-> i - 1]

Init ==
  /\ hash \in [1..MAX_ID -> Positions]
  /\ table = EmptyTable
  /\ live = {}
  /\ slots = [b \in Books |-> FreshSlots]
  /\ free = [b \in Books |-> FreshFree]
  /\ next = [b \in Books |-> 1]

(* ob_init: the book starts afresh, and lookup_init wipes the table. *)
BookInit(b) ==
  /\ b \notin live
  /\ live' = live \cup {b}
  /\ table' = EmptyTable
  /\ slots' = [slots EXCEPT ![b] = FreshSlots]
  /\ free' = [free EXCEPT ![b] = FreshFree]
  /\ next' = [next EXCEPT ![b] = 1]
  /\ UNCHANGED hash

(* ob_destroy frees the table; ob_init allocates a zeroed one. *)
BookDestroy(b) ==
  /\ b \in live
  /\ live' = live \ {b}
  /\ table' = EmptyTable
  /\ UNCHANGED <<hash, slots, free, next>>

(* An order comes to rest: it takes the slot on top of the free stack. *)
Rest(b) ==
  LET id == next[b]
      oi == Last(free[b])
  IN
  /\ b \in live /\ free[b] # <<>> /\ id <= MAX_ID
  /\ slots' = [slots EXCEPT ![b][oi] = id]
  /\ free' = [free EXCEPT ![b] = Front(@)]
  /\ next' = [next EXCEPT ![b] = id + 1]
  /\ table' = lookup_insert(table, id, oi)
  /\ UNCHANGED <<hash, live>>

(* The order that the lookup names for id leaves the book, by a cancel or  *)
(* by a complete fill.  A cancel of an id that is not found does nothing.  *)
Leave(b, id) ==
  LET oi == lookup_find(table, id) IN
  /\ b \in live /\ oi # OB_NULL_IDX
  /\ table' = lookup_remove(table, id)
  /\ slots' = [slots EXCEPT ![b][oi] = 0]
  /\ free' = [free EXCEPT ![b] = Append(@, oi)]
  /\ UNCHANGED <<hash, live, next>>

Next ==
  \E b \in Books :
    \/ BookInit(b)
    \/ BookDestroy(b)
    \/ Rest(b)
    \/ \E id \in 1..MAX_ID : Leave(b, id)

Spec == Init /\ [][Next]_vars

-----------------------------------------------------------------------------
(* The lookup of a book is exact: for every id it gives the slot of that   *)
(* book's order with this id, and nothing for an id the book does not      *)
(* hold, whatever the hash and whatever was removed before                 *)
(* (engine/orderbook.c:137-167; orderbook.h:166 promises "per-book lookup  *)
(* table (order id -> pool index)").                                       *)
PerBookLookup ==
  \A b \in live, id \in 1..MAX_ID :
    LET at == {i \in 0..(POOL - 1) : slots[b][i] = id}
        oi == lookup_find(table, id)
    IN  IF at = {} THEN oi = OB_NULL_IDX ELSE oi \in at

(* Some position of the table is always empty: lookup_insert's and         *)
(* lookup_remove's loops have no other reason to end.                      *)
ProbesEnd == \E i \in Positions : table[i].key = 0
==============================================================================
