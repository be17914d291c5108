------------------------------ MODULE MCBTree -------------------------------
(* Instances of BTree for TLC: keys are small integers, values model values. *)
EXTENDS BTree

CONSTANT v1

FiveKeys == 1 .. 5
OneValue == {v1}
=============================================================================
