----------------------------- MODULE OrderedMap -----------------------------
(***************************************************************************)
(* What a B+ tree promises to its callers, with no blocks in it: a map     *)
(* from keys to values, calls of put() that run for a while, one at a time,*)
(* and calls of Iterator::remove().  The call that is asked for says what  *)
(* a step may do to the map.  BTreeCalls.tla implements this module.       *)
(***************************************************************************)
EXTENDS Naturals

CONSTANTS Key, Val,
          Absent      \* what the map holds for a key that is not live

VARIABLES content,    \* [Key -> Val \cup {Absent}]
          items,      \* the tree's countOfItem: puts that returned 1
          running,    \* a put() has been called and has not returned
          asked,      \* the last call and its arguments
          ret         \* the result of the last completed put()

vars == <<asked, running, items, ret, content>>

Init == /\ content = [k \in Key |-> Absent]
        /\ items = 0
        /\ running = FALSE
        /\ asked = [op |-> "none"]
        /\ ret = "none"

Call(k, v) ==
  /\ asked' = [op |-> "put", key |-> k, val |-> v]
  /\ ~ running /\ running' = TRUE
  /\ UNCHANGED <<items, ret, content>>

Return(r) == running /\ running' = FALSE /\ ret' = r /\ UNCHANGED asked

\* put() of a key that is not live stores the value and returns 1
Put ==
  /\ Return("stored")
  /\ content[asked.key] = Absent
  /\ content' = [content EXCEPT ![asked.key] = asked.val]
  /\ items' = items + 1

\* put() of a live key returns 0 and changes nothing
PutDuplicate ==
  /\ Return("duplicate")
  /\ content[asked.key] # Absent
  /\ UNCHANGED <<items, content>>

\* put() that finds no memory for the value returns -1 and changes nothing
PutError ==
  /\ Return("error")
  /\ content[asked.key] = Absent
  /\ UNCHANGED <<items, content>>

\* remove() at an item with key k, live or removed before
Remove(k) ==
  /\ asked' = [op |-> "remove", key |-> k]
  /\ ~ running /\ UNCHANGED <<items, running, ret>>
  /\ content' = [content EXCEPT ![k] = Absent]

Next == \/ \E k \in Key, v \in Val : Call(k, v)
        \/ Put \/ PutDuplicate \/ PutError
        \/ \E k \in Key : Remove(k)

Spec == Init /\ [][Next]_vars
=============================================================================
