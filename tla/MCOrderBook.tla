----------------------------- MODULE MCOrderBook -----------------------------
(***************************************************************************)
(* An instance of OrderBook for TLC.  ThreePrices is one price more than a *)
(* side has levels; TwoQtys makes fills partial on either side.            *)
(***************************************************************************)
EXTENDS OrderBookProps

ThreePrices == {1, 2, 3}
TwoQtys == {1, 2}
==============================================================================
