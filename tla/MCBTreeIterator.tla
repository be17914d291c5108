--------------------------- MODULE MCBTreeIterator ---------------------------
(* Instances of BTreeIterator for TLC. *)
EXTENDS BTreeIterator

CONSTANT v1

FourKeys == 1 .. 4
OneValue == {v1}
=============================================================================
