----------------------------- MODULE MapCursor ------------------------------
(***************************************************************************)
(* What a BTree::Iterator promises: a cursor over the live keys of an      *)
(* ordered map that may change under it.  Each call goes where its name,   *)
(* its flag and its key say.  BTreeIterator.tla implements this module.    *)
(***************************************************************************)
EXTENDS Integers, FiniteSetsExt

CONSTANTS Key, Val, Absent

VARIABLES content, items, running, asked, ret,  \* the map of OrderedMap.tla
          at,                   \* {the key the cursor stands on}, or {} if on none
          moved                 \* what the last call to the cursor returned

vars == <<asked, running, items, ret, at, moved, content>>

Map == INSTANCE OrderedMap

Flag == {"EXACT_KEY", "KEY_OR_NEXT", "KEY_OR_PREV", "AFTER_KEY", "BEFORE_KEY"}

Live == {k \in Key : content[k] # Absent}

Init == Map!Init /\ at = {} /\ moved = "none"

\* A call to the cursor is made while no put() runs and leaves the map alone.
Called(c) == asked' = c /\ ~ running /\ UNCHANGED <<items, running, ret, content>>

\* To the first or the last key of a set, or nowhere: then the call returns 0
GoToLeast(S) == IF S = {} THEN moved' = "no" /\ at' = {}
                ELSE moved' = "yes" /\ at' = {Min(S)}
GoToGreatest(S) == IF S = {} THEN moved' = "no" /\ at' = {}
                   ELSE moved' = "yes" /\ at' = {Max(S)}

Locate(k, flag) ==
  /\ Called([op |-> "locate", key |-> k, flag |-> flag])
  /\ CASE flag = "EXACT_KEY"   -> GoToLeast(Live \cap {k})
       [] flag = "KEY_OR_NEXT" -> GoToLeast({l \in Live : l >= k})
       [] flag = "KEY_OR_PREV" -> GoToGreatest({l \in Live : l <= k})
       [] flag = "AFTER_KEY"   -> GoToLeast({l \in Live : l > k})
       [] flag = "BEFORE_KEY"  -> GoToGreatest({l \in Live : l < k})

First == Called([op |-> "first"]) /\ GoToLeast(Live)
LastKey == Called([op |-> "last"]) /\ GoToGreatest(Live)

\* From the key the cursor stands on, removed meanwhile or not, to the next
\* live key.  When there is none it passes over removed keys only.
NextKey ==
  /\ Called([op |-> "next"])
  /\ \E k \in at :
       LET after == {l \in Live : l > k}
       IN  \/ after # {} /\ GoToLeast(after)
           \/ /\ after = {} /\ moved' = "no"
              /\ \E l \in Key : l >= k /\ (l = k \/ l \notin Live) /\ at' = {l}

PrevKey ==
  /\ Called([op |-> "prev"])
  /\ \E k \in at :
       LET before == {l \in Live : l < k}
       IN  \/ before # {} /\ GoToGreatest(before)
           \/ /\ before = {} /\ moved' = "no"
              /\ \E l \in Key : l <= k /\ (l = k \/ l \notin Live) /\ at' = {l}

Move == \/ \E k \in Key, flag \in Flag : Locate(k, flag)
        \/ First \/ LastKey \/ NextKey \/ PrevKey

\* The map changes under the cursor, which keeps its key; a put() of a key
\* that is not live may cost it its position.
Change == UNCHANGED <<at, moved>> /\ Map!Next
Lose ==
  /\ running /\ at' = {}
  /\ UNCHANGED <<items, running, asked, ret, moved, content>>
  /\ content[asked.key] = Absent

Next == Change \/ Lose \/ Move

Spec == Init /\ [][Next]_vars
=============================================================================
