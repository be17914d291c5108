----------------------------- MODULE MCRowClient -----------------------------
(* Instances of RowClient for TLC. *)
EXTENDS RowClient

CONSTANTS short, long

Keys == 1 .. 3
TwoKeys == 1 .. 2
Values == {short, long}
Sizes == (short :> 2) @@ (long :> 4)
Numbers == 1 .. 3
=============================================================================
