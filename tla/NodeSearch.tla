----------------------------- MODULE NodeSearch -----------------------------
(***************************************************************************)
(* The binary searches of one NodeBlock, lub() and find() of               *)
(* lib/btree.cpp, one turn of their loops at a time.                       *)
(*                                                                         *)
(* A search sees the items only through the comparison function, so the    *)
(* node is the sequence `cmp' of what it returns for the items 0, 1, ...   *)
(* of the node and the key asked for: negative, zero or positive.  The     *)
(* items are in ascending order, and a comparison function may tell equal  *)
(* keys apart from the one asked for (the flags 0x80 and 0x40 of           *)
(* second_key_compare), so that no item or several of them compare as 0.   *)
(***************************************************************************)
EXTENDS Integers, Sequences

CONSTANT MaxCount        \* the most items of a node

ASSUME CountAssumption == MaxCount \in Nat

VARIABLES cmp, op, lo, hi,
          done,          \* the search has returned
          ret            \* ... this

vars == <<cmp, op, lo, hi, done, ret>>

Sign == {-1, 0, 1}
Ascending(s) == \A i, j \in DOMAIN s : i < j => s[i] <= s[j]

Init ==
  /\ \E n \in 0 .. MaxCount : \E s \in [1 .. n -> Sign] : Ascending(s) /\ cmp = s
  /\ op \in {"lub", "find"}
  /\ lo = 0 /\ hi = Len(cmp)
  /\ done = FALSE /\ ret = 0

mid == (lo + hi) \div 2
res == cmp[mid + 1]                   \* item mid of the code
Return(r) == done' = TRUE /\ ret' = r /\ UNCHANGED <<lo, hi>>

\* Narrow the window [lo, hi)
RaiseToMid == lo' = mid /\ UNCHANGED <<hi, done, ret>>           \* mutant: never ends
RaiseTooFar == lo' = mid + 2 /\ UNCHANGED <<hi, done, ret>>      \* mutant
Raise == lo' = mid + 1 /\ UNCHANGED <<hi, done, ret>>
LowerTooFar ==                        \* mutant: takes hi for an index searched
  hi' = (IF mid > lo THEN mid - 1 ELSE lo) /\ UNCHANGED <<lo, done, ret>>
Lower == hi' = mid /\ UNCHANGED <<lo, done, ret>>

Lub ==
  /\ ~ done /\ op = "lub"
  /\ \/ lo < hi /\ res < 0 /\ Raise
     \/ lo < hi /\ res >= 0 /\ Lower
     \/ lo >= hi /\ Return(lo)
  /\ UNCHANGED <<cmp, op>>

Find ==
  /\ ~ done /\ op = "find"
  /\ \/ lo < hi /\ res = 0 /\ Return(mid)
     \/ lo < hi /\ res > 0 /\ Lower
     \/ lo < hi /\ res < 0 /\ Raise
     \/ lo >= hi /\ Return(-1)
  /\ UNCHANGED <<cmp, op>>

Next == Lub \/ Find

\* The loops run: nothing suspends a search for ever.
Spec == Init /\ [][Next]_vars /\ WF_vars(Next)

-----------------------------------------------------------------------------
(* Properties                                                              *)

\* The window stays inside the node: mid is always the index of an item.
TypeOK ==
  /\ cmp \in Seq(Sign)
  /\ op \in {"lub", "find"}
  /\ lo \in 0 .. Len(cmp) /\ hi \in lo .. Len(cmp)
  /\ done \in BOOLEAN
  /\ ret \in {-1} \cup (0 .. Len(cmp))

\* lub() returns the least index whose key is not below the one asked for, or
\* count if there is none: what BTree!Lub says, counting from 0.
LubIsLeast ==
  done /\ op = "lub" =>
    /\ ret \in 0 .. Len(cmp)
    /\ \A i \in 1 .. ret : cmp[i] < 0
    /\ ret < Len(cmp) => cmp[ret + 1] >= 0

\* find() returns the index of an item that compares as equal if there is one,
\* and -1 only if there is none.
FindIsRight ==
  done /\ op = "find" =>
    /\ ret # -1 => ret + 1 \in DOMAIN cmp /\ cmp[ret + 1] = 0
    /\ ret = -1 => \A i \in DOMAIN cmp : cmp[i] # 0

\* Every search returns.
Terminates == <>done

\* ... because every turn of a loop that does not return narrows the window.
WindowShrinks == [][~ done' => hi' - lo' < hi - lo]_vars
=============================================================================
