---------------------------- MODULE PipelineProps ----------------------------
(***************************************************************************)
(* What must be true of Pipeline: attribution of fills, the identity of    *)
(* profit and cash, idempotent admission.                                  *)
(***************************************************************************)
EXTENDS Pipeline

(* The accounts are up to date with the engine between two events. *)
Quiet == cur = NoEvent /\ me.eq = <<>>

(* Every fill of an order that an account submitted, and no other, is in   *)
(* its position and its cash: fills on arrival too, of orders that were    *)
(* then refused a place or cancelled.  The orders that stops turn into are *)
(* nobody's, and a full id map records nothing (pipeline.c:31, 170-192).   *)
FillsReachTheirAccount ==
  Quiet /\ me.dropped = 0 /\ Len(hist.owner) <= PIPELINE_MAX_ID_MAP =>
    \A a \in Accounts : /\ accounts[a].net_qty = hist.net[a]
                        /\ accounts[a].cash = hist.cash[a]

(* The realised profit and the position at its average price account for   *)
(* the cash, up to the rounding of the average price, in whatever order an *)
(* account opens, adds to, reduces, closes and flips its position          *)
(* (portfolio_on_fill).                                                    *)
ProfitExplainsCash ==
  \A a \in Accounts :
    LET p == accounts[a]
    IN  Abs(p.cash + p.avg_price * p.net_qty - p.realised_pnl) <= hist.slack[a]

(* While the cache has room, no two messages of one account with the same  *)
(* client order id are admitted, and a duplicate is answered with the id   *)
(* of an earlier message of its own account and client order id, if that   *)
(* was admitted at all (gateway_submit, also after throttling and with the *)
(* kill switch thrown and released).                                       *)
AdmittedOnce ==
  /\ Cardinality(DOMAIN gateway.idem) < GW_IDEM_CAP =>
       \A v, w \in hist.served : v[2] = w[2] => v = w
  /\ \A v \in hist.served : v[1] = ack.server_order_id => v[2] = ack.key
==============================================================================
