--------------------------- MODULE BTreeIterator ----------------------------
(***************************************************************************)
(* BTree::Iterator of lib/btree.h and lib/btree.cpp: one iterator that is  *)
(* moved over a tree which put() extends and which remove(), of this and   *)
(* of other iterators, thins out.  A call of the iterator is one step: the *)
(* tree has one thread, so nothing changes while next() walks the leaves.  *)
(*                                                                         *)
(* `it' holds cur and index; index is counted from 1 as in BTree.tla.      *)
(* The calls return 1 ("yes") when they stand on a live key.               *)
(***************************************************************************)
EXTENDS BTreeCalls

VARIABLES it,       \* [blk, idx]: Iterator::cur (0 for NULL) and Iterator::index
          moved,    \* the last result, "none" at first
          placed    \* auxiliary: "no" before the first call, "yes", "failed", and
                    \* "stale" when a new key was put since

itVars == <<it, moved, placed>>
allVars == <<callVars, itVars>>

IterFlag == {"EXACT_KEY", "KEY_OR_NEXT", "KEY_OR_PREV", "AFTER_KEY", "BEFORE_KEY"}
Place(b, i) == [blk |-> b, idx |-> i]

-----------------------------------------------------------------------------
(* Where the loops of next() and prev() end                                *)

ItemAt(p) == node[p.blk].kv[p.idx]
LastOf(b) == Place(b, Len(node[b].kv))
AtEnd(p) == p.idx = Len(node[p.blk].kv) /\ node[p.blk].next = 0
AtStart(p) == p.idx <= 1 /\ node[p.blk].last = 0
Succ(p) == IF p.idx < Len(node[p.blk].kv) THEN Place(p.blk, p.idx + 1)
           ELSE Place(node[p.blk].next, 1)
Pred(p) == IF p.idx > 1 THEN Place(p.blk, p.idx - 1) ELSE LastOf(node[p.blk].last)

\* The items that the loops walk over
Places == {p \in [blk : Leaves, idx : 1 .. LeafSize] : p.idx <= Len(node[p.blk].kv)}
Outcome(p, m) == [to |-> p, moved |-> m]

\* Only the loop of next() and of prev() skips removed items.
Forward(p) ==
  LET walk[q \in Places] ==
        IF AtEnd(q) THEN Outcome(q, "no")
        ELSE IF Removed(ItemAt(Succ(q))) THEN walk[Succ(q)]
        ELSE Outcome(Succ(q), "yes")
  IN  walk[p]

Backward(p) ==
  LET walk[q \in Places] ==
        IF AtStart(q) THEN Outcome(q, "no")
        ELSE IF Removed(ItemAt(Pred(q))) THEN walk[Pred(q)]
        ELSE Outcome(Pred(q), "yes")
  IN  walk[p]

\* An item found, or the nearest live one after or before it
ForwardFrom(p) == IF Removed(ItemAt(p)) THEN Forward(p) ELSE Outcome(p, "yes")
BackwardFrom(p) == IF Removed(ItemAt(p)) THEN Backward(p) ELSE Outcome(p, "yes")

-----------------------------------------------------------------------------
(* The operations                                                          *)

\* getLastLeaf()
LastLeaf ==
  LET walk[b \in DOMAIN node] == IF node[b].leaf THEN b ELSE walk[Last(node[b].kv).val]
  IN  walk[root]

\* mutants: the index goes the wrong way, or not back to the last item
LocateBehindAfter(p, flag) == Outcome(Place(p.blk, p.idx + 1), "no")
LocateBehindKept(p, flag) ==
  Outcome(p, IF flag \in {"KEY_OR_PREV", "BEFORE_KEY"} THEN "yes" ELSE "no")

\* locate() when lub() is count: every key of the leaf is below k
LocateBehind(p, flag) ==
  IF Len(node[p.blk].kv) > 0 /\ flag \in {"KEY_OR_PREV", "BEFORE_KEY"}
  THEN BackwardFrom(LastOf(p.blk)) ELSE Outcome(p, "no")

LocateAtSkips(p, equal, flag) ==       \* mutant: AFTER_KEY passes over the key it is at
  CASE flag = "EXACT_KEY"   -> Outcome(p, IF equal /\ ~ Removed(ItemAt(p)) THEN "yes" ELSE "no")
    [] flag = "KEY_OR_NEXT" -> ForwardFrom(p)
    [] flag = "KEY_OR_PREV" -> IF equal THEN BackwardFrom(p) ELSE Backward(p)
    [] flag = "AFTER_KEY"   -> Forward(p)
    [] flag = "BEFORE_KEY"  -> Backward(p)

LocateAt(p, equal, flag) ==
  CASE flag = "EXACT_KEY"   -> Outcome(p, IF equal /\ ~ Removed(ItemAt(p)) THEN "yes" ELSE "no")
    [] flag = "KEY_OR_NEXT" -> ForwardFrom(p)
    [] flag = "KEY_OR_PREV" -> IF equal THEN BackwardFrom(p) ELSE Backward(p)
    [] flag = "AFTER_KEY"   -> IF equal THEN Forward(p) ELSE ForwardFrom(p)
    [] flag = "BEFORE_KEY"  -> Backward(p)

Located(k, flag) ==
  LET b == GetLeaf(k)
      i == Lub(node[b].kv, k)
  IN  IF i > Len(node[b].kv) THEN LocateBehind(Place(b, i), flag)
      ELSE LocateAt(Place(b, i), node[b].kv[i].key = k, flag)

\* A call is made while no put() runs, and leaves the tree alone.
Called(c) == pc = "idle" /\ asked' = c /\ UNCHANGED vars

\* The result of a call that places the iterator, and of one that moves it on
Reposition(o) == /\ it' = o.to /\ moved' = o.moved
                 /\ placed' = IF o.moved = "yes" THEN "yes" ELSE "failed"
MoveOn(o) == it' = o.to /\ moved' = o.moved /\ UNCHANGED placed

Locate(k, flag) ==
  /\ Called([op |-> "locate", key |-> k, flag |-> flag])
  /\ Reposition(Located(k, flag))

\* first() and last(): an empty leaf leaves the index as it was
First ==
  /\ Called([op |-> "first"])
  /\ Reposition(IF node[FirstLeaf].kv = << >> THEN Outcome(Place(FirstLeaf, it.idx), "no")
                ELSE ForwardFrom(Place(FirstLeaf, 1)))

LastItem ==
  /\ Called([op |-> "last"])
  /\ Reposition(IF node[LastLeaf].kv = << >> THEN Outcome(Place(LastLeaf, it.idx), "no")
                ELSE BackwardFrom(LastOf(LastLeaf)))

\* No caller moves on when the call that should have placed the iterator
\* returned 0.
NextItem == placed = "yes" /\ Called([op |-> "next"]) /\ MoveOn(Forward(it))
Prev == placed = "yes" /\ Called([op |-> "prev"]) /\ MoveOn(Backward(it))

\* The tree changes under the iterator.  A put() moves items when it stores a
\* new key.
TreeStep ==
  /\ CallNext
  /\ placed' = IF LeafInsert /\ placed # "no" THEN "stale" ELSE placed
  /\ UNCHANGED <<it, moved>>

IterInit == CallInit /\ it = Place(0, 0) /\ moved = "none" /\ placed = "no"

IterNext == \/ \E k \in Key, flag \in IterFlag : Locate(k, flag)
            \/ First \/ LastItem \/ NextItem \/ Prev
            \/ TreeStep

IterSpec == IterInit /\ [][IterNext]_allVars

-----------------------------------------------------------------------------
(* Properties                                                              *)

\* The variables of the iterator have their types.
IterTypeOK ==
  /\ it \in [blk : DOMAIN node \cup {0}, idx : 0 .. LeafSize]
  /\ moved \in {"none", "yes", "no"}
  /\ placed \in {"no", "yes", "failed", "stale"}

\* An iterator that a call placed stands on an item of a leaf until a new key
\* is put, whatever is removed and put again meanwhile; so next(), prev(),
\* getKey() and remove() never look behind the items of a block.
CursorOnItem ==
  placed = "yes" => /\ it.blk \in Leaves
                    /\ it.idx \in 1 .. Len(node[it.blk].kv)

\* ... and it keeps standing on the same key: removing and reusing items moves
\* none of them.
CursorKeepsKey ==
  [][placed = "yes" /\ placed' = "yes" /\ it' = it =>
       /\ it.idx <= Len(node'[it.blk].kv)
       /\ node'[it.blk].kv[it.idx].key = ItemAt(it).key]_allVars

Cursor == INSTANCE MapCursor WITH
  content <- [k \in Key |-> Lookup(k)], items <- countOfItem, running <- pc # "idle",
  at <- IF placed = "yes" THEN {ItemAt(it).key} ELSE {}

\* locate() with each flag, first(), last(), next() and prev() go to the live
\* key that the call and its key name or return 0 if there is none, over every
\* split and removed item; and the iterator keeps its key under every change of
\* the map but the put() of a key that is not live.
ImplementsCursor == Cursor!Spec
=============================================================================
