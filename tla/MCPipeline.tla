------------------------------ MODULE MCPipeline ------------------------------
(* Instances of Pipeline for TLC.  The band is 10 %: after a trade at 10   *)
(* an order at 12 is out of it.  Account 3 is never added.                 *)
EXTENDS PipelineProps

TwoAccounts == {1, 2}

Limit(a, c, s, p, q) == Message("NEW", a, c, "LIMIT", s, p, 0, q, 0)

Quotes == {Limit(1, 0, s, p, 1) : s \in Side, p \in {10, 11}}
          \cup {Limit(1, 0, "ASK", 10, 2), Limit(2, 0, "BID", 10, 2), Limit(2, 0, "ASK", 11, 2)}

MCNewOrders ==
  Quotes
  \cup {Limit(a, 1, "BID", 10, 1) : a \in {1, 2}}         \* the same client order id
  \cup {Limit(2, 0, "BID", 12, 1),                        \* perhaps out of band
        Limit(3, 0, "ASK", 10, 1),                        \* an account never added
        Limit(1, 0, "BID", 0, 1), Limit(1, 0, "BID", 10, 0),  \* malformed
        Message("NEW", 1, 0, "STOP", "ASK", 0, 10, 1, 0)}
MCAmendments == {<<11, 1>>}

(* The least level gets to the root, and the greatest, by turns. *)
AnyRoot(clock, s, before, after) ==
  CHOOSE p \in after : \A r \in after : IF clock % 2 = 0 THEN p <= r ELSE p >= r
==============================================================================
