------------------------------ MODULE MCAvlTree ------------------------------
(* Instances of AvlTreeProps for TLC: a tree of seven nodes can be four     *)
(* deep, so that every kind of rotation and removal occurs; the eighth     *)
(* price has no slot when the others have.                                 *)
EXTENDS AvlTreeProps

SevenSlots == 1..7
EightPrices == 1..8
OneLot == {1}

(* Levels differ in what they hold, so that a mix-up shows. *)
UpToTwo == [p \in EightPrices |-> IF p = 4 THEN 2 ELSE 1]
==============================================================================
