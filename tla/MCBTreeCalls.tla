---------------------------- MODULE MCBTreeCalls ----------------------------
(* Instances of BTreeCalls for TLC: keys are small integers, values model values. *)
EXTENDS BTreeCalls

CONSTANTS v1, v2

FourKeys == 1 .. 4
TwoValues == {v1, v2}
=============================================================================
