----------------------------- MODULE BTreeCalls -----------------------------
(***************************************************************************)
(* The tree of BTree.tla and the calls that are made to it.  `asked' is a  *)
(* history variable: the last call, with its arguments.  No step of the    *)
(* tree reads it; it is what a step is held against by the map that the    *)
(* tree implements.                                                        *)
(***************************************************************************)
EXTENDS BTree

VARIABLE asked

callVars == <<vars, asked>>

CallInit == Init /\ asked = [op |-> "none"]

\* put() is called, a step of it is made, or remove() is called for the item
\* that some iterator stands on.
CallPut(k, v) == PutCall(k, v) /\ asked' = [op |-> "put", key |-> k, val |-> v]
CallStep == PutStep /\ UNCHANGED asked
CallRemove(b, i) ==
  /\ RemoveByFlag(b, i)
  /\ asked' = [op |-> "remove", key |-> node[b].kv[i].key]

CallNext == \/ \E k \in Key, v \in Val : CallPut(k, v)
            \/ CallStep
            \/ \E b \in Leaves : \E i \in 1 .. Len(node[b].kv) : CallRemove(b, i)

\* The fairness of BTree!Spec: a called put() runs.
CallSpec == CallInit /\ [][CallNext]_callVars /\ WF_callVars(CallStep)

-----------------------------------------------------------------------------
(* Properties                                                              *)

Map == INSTANCE OrderedMap WITH content <- [k \in Key |-> Lookup(k)],
                                items <- countOfItem, running <- pc # "idle"

\* The tree is a map: put() stores the value it was given under the key it was
\* given if that key is not live, and reports a duplicate if it is; remove()
\* hides the key of its item; and no other key is ever disturbed, in the
\* middle of a put() neither.
ImplementsMap == Map!Spec

\* A put() that was called returns, if its value fits in a data block.
PutReturns == pc = "down" ~> pc = "idle"
=============================================================================
