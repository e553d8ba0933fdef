------------------------------- MODULE MCRooms -------------------------------
(* The two books of a match are alike: the first player changes its mind   *)
(* and trades, the second does neither.                                    *)
EXTENDS RoomsProps

CONSTANTS btc, eth

BothOrOne == <<{btc, eth}, {btc}>>
==============================================================================
