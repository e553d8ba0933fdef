------------------------------- MODULE Gateway -------------------------------
(***************************************************************************)
(* The order gateway, pipeline/gateway.c: checks of form, kill switch,     *)
(* rate limit, idempotency and the ring to the rest of the pipeline.  A    *)
(* gateway is a value; gateway_submit gives the gateway and the            *)
(* acknowledgement after a submission.                                     *)
(***************************************************************************)
EXTENDS Integers, Sequences, FiniteSets

CONSTANTS
  GW_RING_CAP,  \* slots of the ring, one of which stays empty
  GW_IDEM_CAP,  \* slots of the idempotency cache
  max_tokens    \* burst size of the rate limiter

ASSUME GatewayAssumption ==
  GW_RING_CAP \in Nat \ {0} /\ GW_IDEM_CAP \in Nat /\ max_tokens \in Nat

gateway_init ==
  [out_ring |-> <<>>, tokens |-> max_tokens, kill_switch |-> FALSE,
   next_server_order_id |-> 0,
   idem |-> [key \in {} |-> 0]]  \* <<account, client order id>> -> server id

(* Stage A: is the message well-formed?  (Source, side and type are members *)
(* of their enumerations in the model.)                                     *)
stage_a_ingress(m) ==
  /\ m.account_id # 0
  /\ m.action = "NEW" => m.qty # 0
  /\ m.action \in {"CANCEL", "MODIFY"} => m.target_order_id # 0

(* Mutant: the cache does not tell accounts apart. *)
Key_AnyAccount(m) == <<0, m.client_order_id>>

Key(m) == <<m.account_id, m.client_order_id>>

(* Client order id 0 means: no idempotency key. *)
idem_find(g, m) == m.client_order_id # 0 /\ Key(m) \in DOMAIN g.idem

(* A full cache forgets the order instead of refusing it. *)
idem_insert(g, m, id) ==
  IF m.client_order_id = 0 \/ Cardinality(DOMAIN g.idem) >= GW_IDEM_CAP THEN g
  ELSE [g EXCEPT !.idem = [k \in DOMAIN @ \cup {Key(m)} |-> IF k = Key(m) THEN id ELSE @[k]]]

(* rl_refill with the tokens that the time since the last refill is worth. *)
rl_refill(g, add) ==
  [g EXCEPT !.tokens = IF @ + add > max_tokens THEN max_tokens ELSE @ + add]

gw_ring_push(g, ev) == [g EXCEPT !.out_ring = Append(@, ev)]

RingFull(g) == Len(g.out_ring) >= GW_RING_CAP - 1

gw_ring_pop(g) == [g EXCEPT !.out_ring = Tail(@)]

Answer(g, status, id) == [g |-> g, ack |-> [status |-> status, server_order_id |-> id]]

(* The message that passed the kill switch and the rate limit.  Its ack is *)
(* remembered before the ring is found to be full, and the server id and   *)
(* the token are spent.                                                    *)
Admitted(g, m) ==
  LET id == g.next_server_order_id + 1
      known == idem_insert([g EXCEPT !.next_server_order_id = id], m, id)
  IN
  IF idem_find(g, m) THEN Answer(g, "DUPLICATE", g.idem[Key(m)])
  ELSE IF RingFull(g) THEN Answer(known, "THROTTLED", 0)
  ELSE Answer(gw_ring_push(known, m), "ACCEPTED", id)

(* gateway_submit.  The kill switch stops new orders only. *)
gateway_submit(g, m, add) ==
  LET filled == rl_refill(g, add)
  IN
  IF ~stage_a_ingress(m) THEN Answer(g, "REJECTED", 0)
  ELSE IF g.kill_switch /\ m.action = "NEW" THEN Answer(g, "KILLED", 0)
  ELSE IF filled.tokens = 0 THEN Answer(filled, "THROTTLED", 0)
  ELSE Admitted([filled EXCEPT !.tokens = @ - 1], m)
==============================================================================
