---------------------------- MODULE MCTableFiles -----------------------------
(* Instances of TableFiles for TLC. *)
EXTENDS TableFiles, TLC

CONSTANTS h1, h2

OneHandler == {h1}
TwoHandlers == {h1, h2}
Handlers == Permutations(TwoHandlers)
=============================================================================
