--------------------------- MODULE BTreeMapProofs ---------------------------
(***************************************************************************)
(* What the tree promises, proved for every set of keys and values and     *)
(* every size of the blocks: BTree.tla implements the map of               *)
(* OrderedMap.tla, and BTreeIterator.tla the cursor of MapCursor.tla.      *)
(***************************************************************************)
EXTENDS BTreeIterator, BTreeProofs, FiniteSetTheorems

-----------------------------------------------------------------------------
(* The map                                                                 *)

LeafItems == UNION {ToSet(node[b].kv) : b \in Leaves}

\* An item is in the leaves when some leaf holds it.
LeafItemsAre ==
  \A item : item \in LeafItems <=>
    \E b \in Leaves : \E i \in 1 .. Len(node[b].kv) : item = node[b].kv[i]

\* What the leaves hold: values, and the item of a put() that is on its way up.
ItemsStored ==
  /\ \A item \in LeafItems : item.val \in Val
  /\ pc = "up" => NewItem(arg[1], arg[2]) \in LeafItems

LEMMA ItemsOfLeaves == Inv => LeafItemsAre
<1> SUFFICES ASSUME Inv, NEW item
             PROVE  item \in LeafItems <=>
                      \E b \in Leaves : \E i \in 1 .. Len(node[b].kv) : item = node[b].kv[i]
  BY DEF LeafItemsAre
<1>1. item \in LeafItems <=> \E b \in Leaves : item \in ToSet(node[b].kv)
  BY DEF LeafItems
<1>2. ASSUME NEW b \in Leaves
      PROVE  item \in ToSet(node[b].kv) <=> \E i \in 1 .. Len(node[b].kv) : item = node[b].kv[i]
  <2>1. node[b].kv \in Seq(Item)
    BY BlockFacts DEF Inv, Leaves
  <2>2. DOMAIN node[b].kv = 1 .. Len(node[b].kv)
    BY <2>1
  <2> QED
    BY <2>2 DEF ToSet
<1> QED
  BY <1>1, <1>2

\* What a lookup finds: the item of the leaves with the key, if it is live and
\* is not the one of the put() that has not returned.
LookupReads ==
  \A k \in Key :
    /\ \A item \in LeafItems :
         item.key = k /\ item.flag = 1 /\ ~ (pc = "up" /\ k = arg[1]) => Lookup(k) = item.val
    /\ (\A item \in LeafItems : item.key = k => item.flag = 0) \/ (pc = "up" /\ k = arg[1])
         => Lookup(k) = Absent

LEMMA LookupFacts == Inv /\ Ordered => LookupReads
<1> SUFFICES ASSUME Inv, Ordered, NEW k \in Key
             PROVE  /\ \A item \in LeafItems :
                         item.key = k /\ item.flag = 1 /\ ~ (pc = "up" /\ k = arg[1]) => Lookup(k) = item.val
                    /\ (\A item \in LeafItems : item.key = k => item.flag = 0) \/ (pc = "up" /\ k = arg[1])
                         => Lookup(k) = Absent
  BY DEF LookupReads
<1> DEFINE kv == node[GetLeaf(k)].kv
           i == Lub(kv, k)
<1>1. Lookup(k) = IF Found(kv, i, k) /\ ~ Removed(kv[i]) /\ ~ (pc = "up" /\ k = arg[1])
                  THEN kv[i].val ELSE Absent
  BY DEF Lookup
<1>2. ASSUME NEW item \in LeafItems, item.key = k
      PROVE  Found(kv, i, k) /\ item = kv[i]
  <2>1. PICK b \in Leaves : \E j \in 1 .. Len(node[b].kv) : item = node[b].kv[j]
    BY ItemsOfLeaves DEF LeafItemsAre
  <2>2. PICK j \in 1 .. Len(node[b].kv) : item = node[b].kv[j]
    BY <2>1
  <2>3. GetLeaf(k) = b /\ Lub(node[b].kv, k) = j
    BY <1>2, <2>2, KeysReached DEF EveryKeyReachable
  <2>4. j <= Len(node[b].kv)
    BY <2>2, BlockFacts DEF Leaves, Inv
  <2> QED
    BY <1>2, <2>2, <2>3, <2>4 DEF Found
<1>3. ASSUME Found(kv, i, k)
      PROVE  kv[i] \in LeafItems /\ kv[i].key = k
  <2>1. GetLeaf(k) \in Leaves
    BY LeafReached
  <2>2. i \in 1 .. Len(kv) + 1 /\ Len(kv) \in Nat
    BY <2>1, BlockFacts, LubProperties DEF Leaves, Inv
  <2>3. i \in 1 .. Len(kv)
    BY <1>3, <2>2 DEF Found
  <2> QED
    BY <1>3, <2>1, <2>3, ItemsOfLeaves DEF Found, LeafItemsAre
<1> HIDE DEF kv, i
<1> QED
  BY <1>1, <1>2, <1>3 DEF Removed

\* Items of the leaves are items, and no two have one key.
ItemsApart ==
  /\ \A item \in LeafItems : item \in Item /\ item.key \in Key /\ item.flag \in {0, 1}
  /\ \A item1, item2 \in LeafItems : item1.key = item2.key => item1 = item2

LEMMA ApartFacts == Inv /\ Ordered => ItemsApart
<1> SUFFICES ASSUME Inv, Ordered PROVE ItemsApart
  OBVIOUS
<1>1. ASSUME NEW item \in LeafItems
      PROVE  /\ item \in Item /\ item.key \in Key /\ item.flag \in {0, 1}
             /\ item = node[GetLeaf(item.key)].kv[Lub(node[GetLeaf(item.key)].kv, item.key)]
  <2>1. PICK b \in Leaves : \E j \in 1 .. Len(node[b].kv) : item = node[b].kv[j]
    BY ItemsOfLeaves DEF LeafItemsAre
  <2>2. PICK j \in 1 .. Len(node[b].kv) : item = node[b].kv[j]
    BY <2>1
  <2>3. GetLeaf(item.key) = b /\ Lub(node[b].kv, item.key) = j
    BY <2>2, KeysReached DEF EveryKeyReachable
  <2>4. item \in Item
    BY <2>2, BlockFacts DEF Inv, Leaves
  <2> QED
    BY <2>2, <2>3, <2>4 DEF Item
<1> QED
  BY <1>1 DEF ItemsApart

\* A key whose items and whose put() are as they were is looked up as it was.
LEMMA LookupKept ==
  ASSUME Inv, Ordered, Inv', Ordered', NEW k \in Key,
         (pc = "up" /\ k = arg[1]) <=> (pc' = "up" /\ k = arg'[1]),
         \A item : item.key = k /\ item.flag = 1 => (item \in LeafItems <=> item \in LeafItems')
  PROVE  Lookup(k)' = Lookup(k)
<1>1. LookupReads /\ LookupReads'
  <2>1. (Inv /\ Ordered => LookupReads)'
    BY LookupFacts, PTL
  <2> QED
    BY <2>1, LookupFacts
<1>2. /\ \A item \in LeafItems : item.flag \in {0, 1}
      /\ \A item \in LeafItems' : item.flag \in {0, 1}
  <2>1. (Inv /\ Ordered => ItemsApart)'
    BY ApartFacts, PTL
  <2> QED
    BY <2>1, ApartFacts DEF ItemsApart
<1>3. CASE pc = "up" /\ k = arg[1]
  BY <1>1, <1>3 DEF LookupReads
<1>4. CASE ~ (pc = "up" /\ k = arg[1]) /\ \E item \in LeafItems : item.key = k /\ item.flag = 1
  BY <1>1, <1>4 DEF LookupReads
<1>5. CASE ~ (pc = "up" /\ k = arg[1]) /\ \A item \in LeafItems : item.key = k => item.flag = 0
  BY <1>1, <1>2, <1>5 DEF LookupReads
<1> QED
  BY <1>2, <1>3, <1>4, <1>5

-----------------------------------------------------------------------------
(* What each step does to the items of the leaves                          *)

LEMMA SameLeaves ==
  ASSUME DOMAIN node' = DOMAIN node,
         \A b \in DOMAIN node : /\ node'[b].leaf = node[b].leaf
                                /\ node[b].leaf => node'[b].kv = node[b].kv
  PROVE  LeafItems' = LeafItems
<1>1. Leaves' = Leaves
  BY DEF Leaves
<1>2. \A b \in Leaves : node'[b].kv = node[b].kv
  BY DEF Leaves
<1> QED
  BY <1>1, <1>2 DEF LeafItems

\* A split moves items between leaves and loses none.
LEMMA SplitLeaves ==
  ASSUME Inv, Inv', NEW b \in DOMAIN node, NEW c, c \notin DOMAIN node, Len(node[b].kv) >= 2,
         b \in DOMAIN node', c \in DOMAIN node',
         node'[b].leaf = node[b].leaf, node'[c].leaf = node[b].leaf,
         node'[b].kv = Lower(node[b].kv), node'[c].kv = Upper(node[b].kv),
         \A d \in DOMAIN node' \ {b, c} :
           node'[d].leaf => d \in DOMAIN node /\ node[d].leaf /\ node'[d].kv = node[d].kv,
         \A d \in DOMAIN node \ {b} :
           node[d].leaf => d \in DOMAIN node' /\ node'[d].leaf /\ node'[d].kv = node[d].kv
  PROVE  LeafItems' = LeafItems
<1> DEFINE s == node[b].kv
           lo == Lower(s)
           up == Upper(s)
<1>1. LeafItemsAre /\ LeafItemsAre'
  <2>1. (Inv => LeafItemsAre)'
    BY ItemsOfLeaves, PTL
  <2> QED
    BY <2>1, ItemsOfLeaves
<1>2. /\ Len(lo) \in Nat /\ Len(up) \in Nat /\ Len(s) \in Nat /\ Len(lo) + Len(up) = Len(s)
      /\ \A i \in 1 .. Len(lo) : i \in 1 .. Len(s) /\ lo[i] = s[i]
      /\ \A i \in 1 .. Len(up) : Len(lo) + i \in 1 .. Len(s) /\ up[i] = s[Len(lo) + i]
  <2>1. s \in Seq(Item) /\ Len(s) >= 2
    BY BlockFacts DEF Inv
  <2> DEFINE n == Len(s)
  <2>2. n \in Nat /\ n >= 2 /\ Len(s) = n
    BY <2>1
  <2> HIDE DEF s, n
  <2>3. /\ Len(lo) \in 1 .. n - 1 /\ Len(up) \in 1 .. n - 1
        /\ \A i \in 1 .. Len(lo) : lo[i] = s[i]
        /\ \A i \in 1 .. Len(up) : Len(lo) + i \in 1 .. n /\ up[i] = s[Len(lo) + i]
    BY ONLY <2>1, <2>2, SplitFacts, SMTT(30)
  <2>4. Len(lo) + Len(up) = n
    BY <2>1, <2>2, SliceProperties DEF Lower, Upper
  <2> QED
    BY <2>2, <2>3, <2>4
<1>3. node'[b].kv = lo /\ node'[c].kv = up /\ node[b].kv = s /\ b # c
  OBVIOUS
<1> HIDE DEF s, lo, up
<1>4. ASSUME NEW item \in LeafItems' PROVE item \in LeafItems
  <2>1. PICK d \in Leaves' : \E i \in 1 .. Len(node'[d].kv) : item = node'[d].kv[i]
    BY <1>1, <1>4 DEF LeafItemsAre
  <2>2. PICK i \in 1 .. Len(node'[d].kv) : item = node'[d].kv[i]
    BY <2>1
  <2>3. CASE d = b
    <3>1. b \in Leaves /\ i \in 1 .. Len(s) /\ item = s[i]
      BY <2>1, <2>2, <2>3, <1>2, <1>3 DEF Leaves
    <3> QED
      BY <3>1, <1>1, <1>3 DEF LeafItemsAre
  <2>4. CASE d = c
    <3>1. b \in Leaves /\ Len(lo) + i \in 1 .. Len(s) /\ item = s[Len(lo) + i]
      BY <2>1, <2>2, <2>4, <1>2, <1>3 DEF Leaves
    <3> QED
      BY <3>1, <1>1, <1>3 DEF LeafItemsAre
  <2>5. CASE d \notin {b, c}
    <3>1. d \in Leaves /\ node'[d].kv = node[d].kv
      BY <2>1, <2>5 DEF Leaves
    <3> QED
      BY <2>2, <3>1, <1>1 DEF LeafItemsAre
  <2> QED
    BY <2>3, <2>4, <2>5
<1>5. ASSUME NEW item \in LeafItems PROVE item \in LeafItems'
  <2>1. PICK d \in Leaves : \E i \in 1 .. Len(node[d].kv) : item = node[d].kv[i]
    BY <1>1, <1>5 DEF LeafItemsAre
  <2>2. PICK i \in 1 .. Len(node[d].kv) : item = node[d].kv[i]
    BY <2>1
  <2>3. CASE d = b /\ i <= Len(lo)
    <3>1. b \in Leaves' /\ i \in 1 .. Len(lo) /\ item = lo[i]
      BY <2>1, <2>2, <2>3, <1>2, <1>3 DEF Leaves
    <3> QED
      BY <3>1, <1>1, <1>3 DEF LeafItemsAre
  <2>4. CASE d = b /\ ~ (i <= Len(lo))
    <3>1. i \in 1 .. Len(s) /\ item = s[i] /\ c \in Leaves'
      BY <2>1, <2>2, <2>4, <1>3 DEF Leaves
    <3>2. i - Len(lo) \in 1 .. Len(up) /\ Len(lo) + (i - Len(lo)) = i
      BY <2>4, <3>1, <1>2
    <3>3. up[i - Len(lo)] = s[i]
      BY <3>2, <1>2
    <3> QED
      BY <3>1, <3>2, <3>3, <1>1, <1>3 DEF LeafItemsAre
  <2>5. CASE d # b
    <3>1. d \in Leaves' /\ node'[d].kv = node[d].kv
      BY <2>1, <2>5 DEF Leaves
    <3> QED
      BY <2>2, <3>1, <1>1 DEF LeafItemsAre
  <2> QED
    BY <2>3, <2>4, <2>5
<1> QED
  BY <1>4, <1>5

\* A step that changes the items of one leaf: it may drop or change item old
\* and has item new afterwards.
LeafChange(b, old, new) ==
  /\ DOMAIN node' = DOMAIN node
  /\ \A c \in DOMAIN node \ {b} : node'[c] = node[c]
  /\ node'[b].leaf = node[b].leaf
  /\ \A i \in 1 .. Len(node[b].kv) : node[b].kv[i] = old \/
       \E j \in 1 .. Len(node'[b].kv) : node'[b].kv[j] = node[b].kv[i]
  /\ \A j \in 1 .. Len(node'[b].kv) : node'[b].kv[j] = new \/
       \E i \in 1 .. Len(node[b].kv) : node'[b].kv[j] = node[b].kv[i]
  /\ \E j \in 1 .. Len(node'[b].kv) : node'[b].kv[j] = new

\* The items of the leaves after it.
ItemsChange(old, new) ==
  /\ \A item \in LeafItems : item = old \/ item \in LeafItems'
  /\ \A item \in LeafItems' : item = new \/ item \in LeafItems
  /\ new \in LeafItems'

LEMMA ChangedLeaf ==
  ASSUME Inv, Inv', NEW b \in Leaves, NEW old, NEW new, LeafChange(b, old, new)
  PROVE  ItemsChange(old, new)
<1> USE DEF LeafChange
<1>1. LeafItemsAre /\ LeafItemsAre'
  <2>1. (Inv => LeafItemsAre)'
    BY ItemsOfLeaves, PTL
  <2> QED
    BY <2>1, ItemsOfLeaves
<1>2. Leaves' = Leaves
  BY DEF Leaves
<1>3. ASSUME NEW item \in LeafItems PROVE item = old \/ item \in LeafItems'
  <2>1. PICK d \in Leaves : \E i \in 1 .. Len(node[d].kv) : item = node[d].kv[i]
    BY <1>1 DEF LeafItemsAre
  <2>2. CASE d = b
    BY <2>1, <2>2, <1>1, <1>2 DEF LeafItemsAre
  <2>3. CASE d # b
    <3>1. node'[d] = node[d]
      BY <2>3 DEF Leaves
    <3> QED
      BY <2>1, <3>1, <1>1, <1>2 DEF LeafItemsAre
  <2> QED
    BY <2>2, <2>3
<1>4. ASSUME NEW item \in LeafItems' PROVE item = new \/ item \in LeafItems
  <2>1. PICK d \in Leaves : \E i \in 1 .. Len(node'[d].kv) : item = node'[d].kv[i]
    BY <1>1, <1>2 DEF LeafItemsAre
  <2>2. CASE d = b
    BY <2>1, <2>2, <1>1 DEF LeafItemsAre
  <2>3. CASE d # b
    <3>1. node'[d] = node[d]
      BY <2>3 DEF Leaves
    <3> QED
      BY <2>1, <3>1, <1>1 DEF LeafItemsAre
  <2> QED
    BY <2>2, <2>3
<1>5. new \in LeafItems'
  BY <1>1, <1>2 DEF LeafItemsAre
<1> QED
  BY <1>3, <1>4, <1>5 DEF ItemsChange

-----------------------------------------------------------------------------
(* The map that the steps show                                             *)

\* The keys that are live in the leaves, and what countOfItem makes of them.
LiveKeys == {k \in Key : \E item \in LeafItems : item.key = k /\ item.flag = 1}
Counted == countOfItem + (IF pc = "up" THEN 1 ELSE 0)

\* No step makes a key live without counting it.
CountStep ==
  \/ LiveKeys' \subseteq LiveKeys /\ Counted' = Counted
  \/ (\E k \in Key : LiveKeys' \subseteq LiveKeys \cup {k}) /\ Counted' = Counted + 1

\* A step that no lookup sees, and one that changes what one key finds.
SameMap == UNCHANGED <<countOfItem, ret>> /\ \A k \in Key : Lookup(k)' = Lookup(k)
OnlyKey(j, x) == \A k \in Key : Lookup(k)' = IF k = j THEN x ELSE Lookup(k)

\* The steps with which put(arg[1], arg[2]) returns
Returned(r) == pc # "idle" /\ pc' = "idle" /\ ret' = r
Stored == /\ Returned("stored") /\ arg[1] \in Key /\ Lookup(arg[1]) = Absent
          /\ OnlyKey(arg[1], arg[2]) /\ countOfItem' = countOfItem + 1
NotStored == countOfItem' = countOfItem /\ \A k \in Key : Lookup(k)' = Lookup(k)
Duplicated == /\ Returned("duplicate") /\ arg[1] \in Key /\ Lookup(arg[1]) # Absent
              /\ NotStored
Refused == Returned("error") /\ arg[1] \in Key /\ Lookup(arg[1]) = Absent /\ NotStored

LEMMA MapKept ==
  ASSUME Inv, Ordered, Inv', Ordered', LeafItems' = LeafItems,
         pc = "up" <=> pc' = "up", pc = "up" => arg' = arg,
         UNCHANGED <<countOfItem, ret>>
  PROVE  CountStep /\ SameMap
<1>1. ASSUME NEW k \in Key PROVE Lookup(k)' = Lookup(k)
  BY LookupKept
<1>2. CountStep
  BY DEF CountStep, LiveKeys, Counted
<1> QED
  BY <1>1, <1>2 DEF SameMap

LEMMA StoredKept ==
  ASSUME ItemsStored, LeafItems' = LeafItems,
         pc' = "up" => pc = "up" /\ arg' = arg
  PROVE  ItemsStored'
BY DEF ItemsStored

\* The leaf that insert() reaches is the one a lookup of the key reaches.
LEMMA PutLookup ==
  ASSUME Inv, Ordered, ItemsStored, AtLeaf
  PROVE  /\ arg[1] \in Key /\ arg[2] \in Val /\ cur \in Leaves
         /\ node[cur].kv \in Seq(Item)
         /\ LeafIndex \in 1 .. Len(node[cur].kv) + 1
         /\ KeyFound => LeafIndex \in 1 .. Len(node[cur].kv) /\ node[cur].kv[LeafIndex].key = arg[1]
         /\ KeyLive => Lookup(arg[1]) = node[cur].kv[LeafIndex].val /\ Lookup(arg[1]) \in Val
         /\ ~ KeyLive => Lookup(arg[1]) = Absent
<1>1. /\ pc = "down" /\ arg[1] \in Key /\ arg[2] \in Val /\ cur \in DOMAIN node /\ cur \in Leaves
  BY ArgFacts DEF AtLeaf, Leaves
<1>2. GetLeaf(arg[1]) = cur
  <2>1. Covers(cur, arg[1])
    BY <1>1 DEF Ordered, PutInRange
  <2> QED
    BY <1>1, <2>1, CoverReached
<1>3. Lookup(arg[1]) = IF KeyLive THEN node[cur].kv[LeafIndex].val ELSE Absent
  BY <1>1, <1>2 DEF Lookup, KeyLive, KeyFound, LeafIndex
<1>4. node[cur].kv \in Seq(Item) /\ Len(node[cur].kv) \in Nat
  BY <1>1, BlockFacts DEF Inv
<1>5. LeafIndex \in 1 .. Len(node[cur].kv) + 1
  BY <1>1, <1>4, LubProperties DEF LeafIndex
<1>6. KeyFound => LeafIndex \in 1 .. Len(node[cur].kv) /\ node[cur].kv[LeafIndex].key = arg[1]
  BY <1>4, <1>5 DEF KeyFound, Found
<1>7. KeyLive => node[cur].kv[LeafIndex].val \in Val
  <2>1. KeyLive => node[cur].kv[LeafIndex] \in LeafItems
    BY <1>1, <1>6, ItemsOfLeaves DEF KeyLive, LeafItemsAre
  <2> QED
    BY <2>1 DEF ItemsStored
<1> QED
  BY <1>1, <1>3, <1>4, <1>5, <1>6, <1>7

LEMMA InitMap == Init => ItemsStored /\ \A k \in Key : Lookup(k) = Absent
<1> SUFFICES ASSUME Init PROVE ItemsStored /\ \A k \in Key : Lookup(k) = Absent
  OBVIOUS
<1>1. Inv /\ Ordered
  BY InitInv, InitOrdered
<1>2. LeafItems = {}
  <2>1. ASSUME NEW b \in Leaves PROVE node[b].kv = << >>
    BY <2>1 DEF Init, Leaves
  <2>2. \A b \in Leaves : Len(node[b].kv) = 0
    BY <2>1
  <2> QED
    BY <1>1, <2>2, ItemsOfLeaves DEF LeafItemsAre
<1>3. \A k \in Key : Lookup(k) = Absent
  BY <1>1, <1>2, LookupFacts DEF LookupReads
<1> QED
  BY <1>2, <1>3 DEF Init, ItemsStored

LEMMA PutCallMap ==
  ASSUME Inv, Ordered, ItemsStored, Inv', Ordered', NEW k \in Key, NEW v \in Val, PutCall(k, v)
  PROVE  ItemsStored' /\ CountStep /\ SameMap
<1>1. /\ node' = node /\ pc = "idle" /\ pc' = "down" /\ UNCHANGED <<countOfItem, ret>>
  BY DEF PutCall, meta
<1>2. LeafItems' = LeafItems
  BY <1>1, SameLeaves
<1> QED
  BY <1>1, <1>2, MapKept, StoredKept

LEMMA DescendMap ==
  ASSUME Inv, Ordered, ItemsStored, Inv', Ordered', Descend
  PROVE  ItemsStored' /\ CountStep /\ SameMap
<1>1. /\ node' = node /\ pc = "down" /\ pc' = "down" /\ UNCHANGED <<countOfItem, ret>>
  BY DEF Descend, meta
<1>2. LeafItems' = LeafItems
  BY <1>1, SameLeaves
<1> QED
  BY <1>1, <1>2, MapKept, StoredKept

\* insert() that comes back without an item changes no lookup.
LEMMA LeafReturnMap ==
  ASSUME Inv, Ordered, ItemsStored, Inv', Ordered', AtLeaf, node' = node, pc' = "idle",
         countOfItem' = countOfItem
  PROVE  /\ ItemsStored' /\ CountStep /\ arg[1] \in Key
         /\ \A k \in Key : Lookup(k)' = Lookup(k)
<1>1. pc = "down" /\ LeafItems' = LeafItems
  BY SameLeaves DEF AtLeaf
<1>2. \A k \in Key : Lookup(k)' = Lookup(k)
  <2> SUFFICES ASSUME NEW k \in Key PROVE Lookup(k)' = Lookup(k)
    OBVIOUS
  <2> QED
    BY <1>1, LookupKept
<1>3. CountStep
  BY <1>1 DEF CountStep, LiveKeys, Counted
<1> QED
  BY <1>1, <1>2, <1>3, StoredKept, PutLookup

LEMMA LeafDuplicateMap ==
  ASSUME Inv, Ordered, ItemsStored, Inv', Ordered', LeafDuplicate
  PROVE  ItemsStored' /\ CountStep /\ Duplicated
<1>1. /\ AtLeaf /\ KeyLive /\ node' = node /\ pc' = "idle" /\ ret' = "duplicate"
      /\ countOfItem' = countOfItem
  BY DEF LeafDuplicate, Return, meta
<1>2. /\ ItemsStored' /\ CountStep /\ arg[1] \in Key
      /\ \A k \in Key : Lookup(k)' = Lookup(k)
  BY <1>1, LeafReturnMap
<1>3. Lookup(arg[1]) # Absent
  BY <1>1, PutLookup, AbsentAssumption
<1> QED
  BY <1>1, <1>2, <1>3 DEF Duplicated, Returned, NotStored, AtLeaf

LEMMA LeafValueErrorMap ==
  ASSUME Inv, Ordered, ItemsStored, Inv', Ordered', LeafValueError
  PROVE  ItemsStored' /\ CountStep /\ Refused
<1>1. /\ AtLeaf /\ ~ KeyLive /\ node' = node /\ pc' = "idle" /\ ret' = "error"
      /\ countOfItem' = countOfItem
  BY DEF LeafValueError, Return
<1>2. /\ ItemsStored' /\ CountStep /\ arg[1] \in Key
      /\ \A k \in Key : Lookup(k)' = Lookup(k)
  BY <1>1, LeafReturnMap
<1>3. Lookup(arg[1]) = Absent
  BY <1>1, PutLookup
<1> QED
  BY <1>1, <1>2, <1>3 DEF Refused, Returned, NotStored, AtLeaf

\* The leaf gets the item of the put(): nobody sees it before put() returns.
LEMMA LeafStoreMap ==
  ASSUME Inv, Ordered, ItemsStored, Inv', Ordered', AtLeaf, ~ KeyLive, pc' = "up",
         UNCHANGED <<countOfItem, ret, arg>>,
         NEW old, old = NewItem(arg[1], arg[2]) \/ (old.key = arg[1] /\ old.flag = 0),
         NEW new, new = NewItem(arg[1], arg[2]),
         ItemsChange(old, new)
  PROVE  ItemsStored' /\ CountStep /\ SameMap
<1>1. /\ pc = "down" /\ arg[1] \in Key /\ arg[2] \in Val /\ Lookup(arg[1]) = Absent
  BY PutLookup DEF AtLeaf
<1>2. new.key = arg[1] /\ new.val = arg[2]
  BY DEF NewItem
<1>3. ItemsStored'
  BY <1>1, <1>2 DEF ItemsStored, ItemsChange
<1>4. Lookup(arg[1])' = Absent
  <2>1. (Inv /\ Ordered => LookupReads)'
    BY LookupFacts, PTL
  <2> QED
    BY <1>1, <2>1 DEF LookupReads
<1>5. ASSUME NEW k \in Key, k # arg[1] PROVE Lookup(k)' = Lookup(k)
  <2>1. \A item : item.key = k => (item \in LeafItems <=> item \in LeafItems')
    BY <1>2, <1>5 DEF NewItem, ItemsChange
  <2> QED
    BY <2>1, <1>1, <1>5, LookupKept
<1>6. \A k \in Key : Lookup(k)' = Lookup(k)
  BY <1>1, <1>4, <1>5
<1>7. CountStep
  <2>1. LiveKeys' \subseteq LiveKeys \cup {arg[1]}
    BY <1>2 DEF LiveKeys, ItemsChange
  <2>2. Counted' = Counted + 1
    BY <1>1 DEF Counted, Inv, TypeOK
  <2> QED
    BY <1>1, <2>1, <2>2 DEF CountStep
<1> QED
  BY <1>3, <1>6, <1>7 DEF SameMap

LEMMA RevivedItem ==
  ASSUME NEW x \in Item, NEW v
  PROVE  [x EXCEPT !.val = v, !.flag = 1] = NewItem(x.key, v)
<1> DEFINE y == [x EXCEPT !.val = v, !.flag = 1]
           z == NewItem(x.key, v)
<1>1. DOMAIN x = {"key", "val", "flag"}
  BY DEF Item
<1>2. DOMAIN y = {"key", "val", "flag"} /\ y.key = x.key /\ y.val = v /\ y.flag = 1
  BY <1>1
<1>3. DOMAIN z = {"key", "val", "flag"} /\ z.key = x.key /\ z.val = v /\ z.flag = 1
  BY DEF NewItem
<1>4. y = [f \in DOMAIN y |-> y[f]] /\ z = [f \in DOMAIN z |-> z[f]]
  BY DEF NewItem
<1> HIDE DEF y, z
<1>5. \A f \in {"key", "val", "flag"} : y[f] = z[f]
  BY <1>2, <1>3
<1>6. y = z
  BY <1>2, <1>3, <1>4, <1>5
<1> QED
  BY <1>6 DEF y, z

LEMMA LeafReviveMap ==
  ASSUME Inv, Ordered, ItemsStored, Inv', Ordered', LeafRevive
  PROVE  ItemsStored' /\ CountStep /\ SameMap
<1> DEFINE s == node[cur].kv
           i == LeafIndex
           old == s[i]
           item == [s[i] EXCEPT !.val = arg[2], !.flag = 1]
           new == NewItem(arg[1], arg[2])
           kv == [s EXCEPT ![i] = item]
<1>1. /\ AtLeaf /\ KeyFound /\ ~ KeyLive /\ pc' = "up" /\ UNCHANGED <<countOfItem, ret, arg>>
      /\ node' = [node EXCEPT ![cur].kv[i] = item]
  BY DEF LeafRevive
<1>2. /\ cur \in Leaves /\ s \in Seq(Item) /\ i \in 1 .. Len(s) /\ old.key = arg[1]
  BY <1>1, PutLookup
<1>3. old \in Item /\ old.flag = 0
  <2>1. old \in Item
    BY <1>2, ElementOfSeq
  <2> QED
    BY <2>1, <1>1 DEF KeyLive, Removed
<1>4. item = new
  <2>1. [old EXCEPT !.val = arg[2], !.flag = 1] = NewItem(old.key, arg[2])
    <3> HIDE DEF old
    <3> QED
      BY <1>3, RevivedItem
  <2> QED
    BY <1>2, <2>1
<1> HIDE DEF item, i, new
<1>5. Len(kv) = Len(s) /\ kv[i] = new /\ \A j \in 1 .. Len(s) : j # i => kv[j] = s[j]
  BY <1>2, <1>4
<1> HIDE DEF kv
<1>6. node' = [node EXCEPT ![cur] = [node[cur] EXCEPT !.kv = kv]]
  BY <1>1 DEF kv
<1>7. cur \in DOMAIN node /\ node[cur] \in NodeBlock
  BY <1>2, BlockFacts DEF Inv, Leaves
<1>8. /\ DOMAIN node' = DOMAIN node
      /\ \A c \in DOMAIN node \ {cur} : node'[c] = node[c]
      /\ node'[cur].kv = kv /\ node'[cur].leaf = node[cur].leaf
  BY <1>6, <1>7 DEF Inv, TypeOK, NodeBlock
<1>9. /\ \A j \in 1 .. Len(s) : s[j] = old \/ \E l \in 1 .. Len(kv) : kv[l] = s[j]
      /\ \A l \in 1 .. Len(kv) : kv[l] = new \/ \E j \in 1 .. Len(s) : kv[l] = s[j]
      /\ \E l \in 1 .. Len(kv) : kv[l] = new
  BY <1>2, <1>5
<1> HIDE DEF old
<1>10. ItemsChange(old, new)
  <2>1. LeafChange(cur, old, new)
    BY <1>8, <1>9 DEF LeafChange
  <2> QED
    BY <1>2, <2>1, ChangedLeaf
<1> QED
  <2>1. new = NewItem(arg[1], arg[2]) /\ old.key = arg[1] /\ old.flag = 0
    BY <1>2, <1>3 DEF new
  <2> HIDE DEF s
  <2> QED
    BY <1>1, <1>10, <2>1, LeafStoreMap

LEMMA LeafInsertMap ==
  ASSUME Inv, Ordered, ItemsStored, Inv', Ordered', LeafInsert
  PROVE  ItemsStored' /\ CountStep /\ SameMap
<1> DEFINE s == node[cur].kv
           new == NewItem(arg[1], arg[2])
           kv == node'[cur].kv
<1>1. /\ AtLeaf /\ ~ KeyLive /\ pc' = "up" /\ UNCHANGED <<countOfItem, ret, arg>>
  BY DEF LeafInsert, KeyLive
<1>2. /\ cur \in Leaves /\ DOMAIN node' = DOMAIN node
      /\ \A b \in DOMAIN node \ {cur} : node'[b] = node[b]
      /\ node'[cur].leaf = node[cur].leaf
      /\ \A j \in 1 .. Len(kv) : kv[j] = new \/ \E i \in 1 .. Len(s) : kv[j] = s[i]
      /\ \A i \in 1 .. Len(s) : \E j \in 1 .. Len(kv) : kv[j] = s[i]
      /\ \E j \in 1 .. Len(kv) : kv[j] = new
  BY InsertedItems DEF Leaves
<1> HIDE DEF new
<1>3. ItemsChange(new, new)
  <2>1. LeafChange(cur, new, new)
    BY <1>2 DEF LeafChange
  <2> QED
    BY <1>2, <2>1, ChangedLeaf
<1> QED
  <2>1. new = NewItem(arg[1], arg[2])
    BY DEF new
  <2> QED
    BY <1>1, <1>3, <2>1, LeafStoreMap

LEMMA AscendKeepMap ==
  ASSUME Inv, Ordered, ItemsStored, Inv', Ordered', AscendKeep
  PROVE  ItemsStored' /\ CountStep /\ SameMap
<1> DEFINE p == Parent.blk
           mid == UpdatedKeys(node[p], Parent, node[cur])
<1>1. /\ pc = "up" /\ stack # << >> /\ pc' = "up" /\ UNCHANGED <<arg, countOfItem, ret>>
      /\ node' = [node EXCEPT ![p] = [node[p] EXCEPT !.kv = mid]]
  BY DEF AscendKeep, meta
<1>2. p \in DOMAIN node /\ ~ node[p].leaf /\ node[p] \in NodeBlock
  BY <1>1, PathFacts, ArgFacts, BlockFacts DEF Inv
<1> HIDE DEF mid
<1>3. /\ DOMAIN node' = DOMAIN node
      /\ \A b \in DOMAIN node : /\ node'[b].leaf = node[b].leaf
                                /\ node[b].leaf => node'[b].kv = node[b].kv
  BY <1>1, <1>2 DEF Inv, TypeOK, NodeBlock
<1>4. LeafItems' = LeafItems
  BY <1>3, SameLeaves
<1> QED
  BY <1>1, <1>4, MapKept, StoredKept

LEMMA AscendSplitMap ==
  ASSUME Inv, Ordered, ItemsStored, Inv', Ordered', AscendSplit
  PROVE  ItemsStored' /\ CountStep /\ SameMap
<1> DEFINE p == Parent.blk
           c == countOfBlock
<1>1. /\ pc = "up" /\ stack # << >> /\ pc' = "up" /\ UNCHANGED <<arg, countOfItem, ret>>
      /\ Full(node[cur])
  BY DEF AscendSplit
<1>2. /\ p \in DOMAIN node /\ ~ node[p].leaf /\ cur \in DOMAIN node
      /\ Len(node[cur].kv) >= 2
  BY <1>1, PathFacts, ArgFacts, BlockFacts DEF Inv, Full
<1>3. /\ c \notin DOMAIN node /\ DOMAIN node' = DOMAIN node \cup {c}
      /\ node'[c].leaf = node[cur].leaf /\ node'[c].kv = Upper(node[cur].kv)
      /\ node'[cur].leaf = node[cur].leaf /\ node'[cur].kv = Lower(node[cur].kv)
      /\ node'[p].leaf = node[p].leaf
      /\ \A b \in DOMAIN node \ {cur, p} :
           node'[b].leaf = node[b].leaf /\ node'[b].kv = node[b].kv
  BY SplitBlocks
<1> HIDE DEF c, p
<1>4. /\ cur \in DOMAIN node' /\ c \in DOMAIN node'
      /\ \A d \in DOMAIN node' \ {cur, c} :
           node'[d].leaf => d \in DOMAIN node /\ node[d].leaf /\ node'[d].kv = node[d].kv
      /\ \A d \in DOMAIN node \ {cur} :
           node[d].leaf => d \in DOMAIN node' /\ node'[d].leaf /\ node'[d].kv = node[d].kv
  BY <1>2, <1>3
<1>5. LeafItems' = LeafItems
  BY ONLY Inv, Inv', <1>2, <1>3, <1>4, SplitLeaves, SMTT(30)
<1> QED
  BY <1>1, <1>5, MapKept, StoredKept

\* The step with which put() returns shows its item to lookups.
LEMMA ReturnMap ==
  ASSUME Inv, Ordered, ItemsStored, Inv', Ordered', pc = "up", pc' = "idle", arg' = << >>,
         LeafItems' = LeafItems, countOfItem' = countOfItem + 1, ret' = "stored"
  PROVE  ItemsStored' /\ CountStep /\ Stored
<1>1. arg[1] \in Key /\ arg[2] \in Val
  BY ArgFacts
<1> DEFINE new == NewItem(arg[1], arg[2])
<1>2. new \in LeafItems /\ new.key = arg[1] /\ new.val = arg[2] /\ new.flag = 1
  BY DEF ItemsStored, NewItem
<1> HIDE DEF new
<1>3. LookupReads /\ LookupReads'
  <2>1. (Inv /\ Ordered => LookupReads)'
    BY LookupFacts, PTL
  <2> QED
    BY <2>1, LookupFacts
<1>4. Lookup(arg[1]) = Absent
  BY <1>1, <1>3 DEF LookupReads
<1>5. (\A k \in Key : \A item \in LeafItems :
         item.key = k /\ item.flag = 1 /\ ~ (pc = "up" /\ k = arg[1]) => Lookup(k) = item.val)'
  BY <1>3 DEF LookupReads
<1>6. \A k \in Key : k = arg[1] => Lookup(k)' = arg[2]
  BY <1>1, <1>2, <1>5
<1>7. ASSUME NEW k \in Key, k # arg[1] PROVE Lookup(k)' = Lookup(k)
  BY <1>7, LookupKept
<1>9. Stored
  BY <1>1, <1>4, <1>6, <1>7 DEF Stored, Returned, OnlyKey
<1>10. ItemsStored'
  BY StoredKept
<1>11. CountStep
  BY DEF CountStep, LiveKeys, Counted, Inv, TypeOK
<1> QED
  BY <1>9, <1>10, <1>11

LEMMA PutReturnMap ==
  ASSUME Inv, Ordered, ItemsStored, Inv', Ordered', PutReturn
  PROVE  ItemsStored' /\ CountStep /\ Stored
<1>1. /\ pc = "up" /\ pc' = "idle" /\ arg' = << >> /\ node' = node
      /\ countOfItem' = countOfItem + 1 /\ ret' = "stored"
  BY DEF PutReturn, Return, CountItem
<1>2. LeafItems' = LeafItems
  BY <1>1, SameLeaves
<1> QED
  BY <1>1, <1>2, ReturnMap

LEMMA PutSplitRootMap ==
  ASSUME Inv, Ordered, ItemsStored, Inv', Ordered', PutSplitRoot
  PROVE  ItemsStored' /\ CountStep /\ Stored
<1> DEFINE top == countOfBlock
           c == countOfBlock + 1
<1>1. /\ pc = "up" /\ pc' = "idle" /\ arg' = << >>
      /\ countOfItem' = countOfItem + 1 /\ ret' = "stored"
      /\ Full(node[root])
  BY DEF PutSplitRoot, Return, CountItem
<1>2. root \in DOMAIN node /\ Len(node[root].kv) >= 2
  BY <1>1, BlockFacts DEF Inv, TypeOK, Full
<1>3. /\ top \notin DOMAIN node /\ c \notin DOMAIN node /\ DOMAIN node' = DOMAIN node \cup {top, c}
      /\ ~ node'[top].leaf
      /\ node'[c].leaf = node[root].leaf /\ node'[c].kv = Upper(node[root].kv)
      /\ node'[root].leaf = node[root].leaf /\ node'[root].kv = Lower(node[root].kv)
      /\ \A b \in DOMAIN node \ {root} : node'[b] = node[b]
  BY RootSplitBlocks
<1> HIDE DEF c, top
<1>4. /\ root \in DOMAIN node' /\ c \in DOMAIN node'
      /\ \A d \in DOMAIN node' \ {root, c} :
           node'[d].leaf => d \in DOMAIN node /\ node[d].leaf /\ node'[d].kv = node[d].kv
      /\ \A d \in DOMAIN node \ {root} :
           node[d].leaf => d \in DOMAIN node' /\ node'[d].leaf /\ node'[d].kv = node[d].kv
  BY <1>2, <1>3
<1>5. LeafItems' = LeafItems
  BY ONLY Inv, Inv', <1>2, <1>3, <1>4, SplitLeaves, SMTT(30)
<1> QED
  BY <1>1, <1>5, ReturnMap

LEMMA RemoveByFlagMap ==
  ASSUME Inv, Ordered, ItemsStored, Inv', Ordered',
         NEW b \in Leaves, NEW i \in 1 .. Len(node[b].kv), RemoveByFlag(b, i)
  PROVE  /\ ItemsStored' /\ CountStep /\ UNCHANGED <<pc, countOfItem, ret>>
         /\ node[b].kv[i].key \in Key /\ OnlyKey(node[b].kv[i].key, Absent)
<1> DEFINE s == node[b].kv
           old == s[i]
           new == [s[i] EXCEPT !.flag = 0]
           kv == [s EXCEPT ![i] = new]
<1>1. /\ pc = "idle" /\ pc' = "idle" /\ UNCHANGED <<countOfItem, ret>>
      /\ node' = [node EXCEPT ![b].kv[i] = new]
  BY DEF RemoveByFlag, meta, call
<1>2. s \in Seq(Item) /\ b \in DOMAIN node /\ node[b] \in NodeBlock
  BY BlockFacts DEF Inv, Leaves
<1>3. /\ old \in Item /\ old.key \in Key /\ old.flag \in {0, 1}
      /\ new.key = old.key /\ new.val = old.val /\ new.flag = 0
  <2>1. old \in Item
    BY <1>2, ElementOfSeq
  <2> QED
    BY <2>1 DEF Item
<1>4. old \in LeafItems
  BY ItemsOfLeaves DEF LeafItemsAre
<1> HIDE DEF new
<1>5. Len(kv) = Len(s) /\ kv[i] = new /\ \A j \in 1 .. Len(s) : j # i => kv[j] = s[j]
  BY <1>2
<1> HIDE DEF kv
<1>6. node' = [node EXCEPT ![b] = [node[b] EXCEPT !.kv = kv]]
  BY <1>1, <1>2 DEF kv
<1>7. /\ DOMAIN node' = DOMAIN node
      /\ \A c \in DOMAIN node \ {b} : node'[c] = node[c]
      /\ node'[b].kv = kv /\ node'[b].leaf = node[b].leaf
  BY <1>2, <1>6 DEF Inv, TypeOK, NodeBlock
<1> HIDE DEF old
<1>8. ItemsChange(old, new)
  <2>1. /\ \A j \in 1 .. Len(s) : s[j] = old \/ \E l \in 1 .. Len(kv) : kv[l] = s[j]
        /\ \A l \in 1 .. Len(kv) : kv[l] = new \/ \E j \in 1 .. Len(s) : kv[l] = s[j]
        /\ \E l \in 1 .. Len(kv) : kv[l] = new
    BY <1>5 DEF old
  <2>2. LeafChange(b, old, new)
    BY <1>7, <2>1 DEF LeafChange
  <2> QED
    BY <2>2, ChangedLeaf
<1> PICK k \in Key : k = old.key
  BY <1>3
<1>9. ItemsStored'
  BY <1>1, <1>3, <1>4, <1>8 DEF ItemsStored, ItemsChange
<1>10. LookupReads /\ LookupReads' /\ ItemsApart'
  <2>1. (Inv /\ Ordered => LookupReads)'
    BY LookupFacts, PTL
  <2>2. (Inv /\ Ordered => ItemsApart)'
    BY ApartFacts, PTL
  <2> QED
    BY <2>1, <2>2, LookupFacts
<1>11. Lookup(k)' = Absent
  <2>1. \A item \in LeafItems' : item.key = k => item.flag = 0
    BY <1>3, <1>8, <1>10 DEF ItemsApart, ItemsChange
  <2> QED
    BY <1>3, <1>10, <2>1 DEF LookupReads
<1>12. ASSUME NEW j \in Key, j # k PROVE Lookup(j)' = Lookup(j)
  <2>1. \A item : item.key = j => (item \in LeafItems <=> item \in LeafItems')
    BY <1>3, <1>8, <1>12 DEF ItemsChange
  <2> QED
    BY <2>1, <1>1, <1>12, LookupKept
<1>15. CountStep
  <2>1. LiveKeys' \subseteq LiveKeys
    BY <1>3, <1>8 DEF LiveKeys, ItemsChange
  <2> QED
    BY <1>1, <2>1 DEF CountStep, Counted
<1> QED
  BY <1>1, <1>3, <1>9, <1>11, <1>12, <1>15 DEF old, OnlyKey

\* A step of put() changes no lookup, or it is the one that put() returns with.
LEMMA PutStepMap ==
  ASSUME Inv, Ordered, ItemsStored, Inv', Ordered', PutStep
  PROVE  /\ ItemsStored' /\ CountStep /\ pc # "idle"
         /\ (SameMap /\ pc' # "idle" /\ arg' = arg) \/ Stored \/ Duplicated \/ Refused
<1> DEFINE Keeps == pc # "idle" /\ pc' # "idle" /\ arg' = arg
           Shows == (SameMap /\ Keeps) \/ Stored \/ Duplicated \/ Refused
           Goal == ItemsStored' /\ CountStep /\ Shows
<1> SUFFICES Goal
  BY DEF Stored, Duplicated, Refused, Returned
<1>1. CASE Descend
  <2>1. Keeps
    BY <1>1 DEF Descend
  <2> QED
    BY <1>1, <2>1, DescendMap
<1>2. CASE LeafDuplicate
  BY <1>2, LeafDuplicateMap
<1>3. CASE LeafValueError
  BY <1>3, LeafValueErrorMap
<1>4. CASE LeafRevive
  <2>1. Keeps
    BY <1>4 DEF LeafRevive, AtLeaf
  <2> QED
    BY <1>4, <2>1, LeafReviveMap
<1>5. CASE LeafInsert
  <2>1. Keeps
    BY <1>5 DEF LeafInsert, AtLeaf
  <2> QED
    BY <1>5, <2>1, LeafInsertMap
<1>6. CASE AscendKeep
  <2>1. Keeps
    BY <1>6 DEF AscendKeep
  <2> QED
    BY <1>6, <2>1, AscendKeepMap
<1>7. CASE AscendSplit
  <2>1. Keeps
    BY <1>7 DEF AscendSplit
  <2> QED
    BY <1>7, <2>1, AscendSplitMap
<1>8. CASE PutReturn
  BY <1>8, PutReturnMap
<1>9. CASE PutSplitRoot
  BY <1>9, PutSplitRootMap
<1> HIDE DEF Goal
<1> QED
  BY <1>1, <1>2, <1>3, <1>4, <1>5, <1>6, <1>7, <1>8, <1>9 DEF PutStep

LEMMA SameVarsMap ==
  ASSUME Inv, Ordered, ItemsStored, Inv', Ordered', UNCHANGED vars
  PROVE  ItemsStored' /\ CountStep /\ SameMap
<1>1. UNCHANGED <<pc, arg, node, countOfItem, ret>>
  BY DEF vars, meta, call
<1>2. LeafItems' = LeafItems
  BY <1>1, SameLeaves
<1> QED
  BY <1>1, <1>2, MapKept, StoredKept

LEMMA NextMap == Inv /\ Ordered /\ ItemsStored /\ [Next]_vars => ItemsStored' /\ CountStep
<1> SUFFICES ASSUME Inv, Ordered, ItemsStored, [Next]_vars PROVE ItemsStored' /\ CountStep
  OBVIOUS
<1>0. Inv' /\ Ordered'
  BY NextInv, NextOrdered
<1>1. CASE \E k \in Key, v \in Val : PutCall(k, v)
  BY <1>0, <1>1, PutCallMap
<1>2. CASE PutStep
  BY <1>0, <1>2, PutStepMap
<1>3. CASE \E b \in Leaves : \E i \in 1 .. Len(node[b].kv) : RemoveByFlag(b, i)
  BY <1>0, <1>3, RemoveByFlagMap
<1>4. CASE UNCHANGED vars
  BY <1>0, <1>4, SameVarsMap
<1> QED
  BY <1>1, <1>2, <1>3, <1>4 DEF Next

\* The leaves hold values only, and the item of a put() that has not returned
\* is in the leaf it was stored in whatever the splits above it move.
LEMMA ItemsStoredHolds == Spec => []ItemsStored
BY InitInv, NextInv, InitOrdered, NextOrdered, InitMap, NextMap, PTL DEF Spec

-----------------------------------------------------------------------------
(* The map that the calls are promised                                     *)

\* A put() that runs is the call that was asked for last.
Asked == pc # "idle" => asked = [op |-> "put", key |-> arg[1], val |-> arg[2]]

LEMMA InitAsked == CallInit => Init /\ Asked /\ Map!Init
<1> SUFFICES ASSUME CallInit PROVE Init /\ Asked /\ Map!Init
  OBVIOUS
<1>1. Init /\ asked = [op |-> "none"]
  BY DEF CallInit
<1>2. /\ pc = "idle" /\ countOfItem = 0 /\ ret = "none"
      /\ \A k \in Key : Lookup(k) = Absent
  BY <1>1, InitMap DEF Init
<1> QED
  BY <1>1, <1>2 DEF Asked, Map!Init

LEMMA CallNextIsNext == [CallNext]_callVars => [Next]_vars
BY DEF CallNext, callVars, CallPut, CallStep, CallRemove, Next

\* put() is called with a key and a value: nobody sees anything of it yet.
LEMMA CallPutMap ==
  ASSUME Inv, Ordered, ItemsStored, Inv', Ordered', NEW k \in Key, NEW v \in Val, CallPut(k, v)
  PROVE  Asked' /\ Map!Next
<1>1. /\ pc = "idle" /\ pc' = "down" /\ arg' = <<k, v>>
      /\ asked' = [op |-> "put", key |-> k, val |-> v] /\ PutCall(k, v)
  BY DEF CallPut, PutCall
<1>2. SameMap
  BY <1>1, PutCallMap
<1>3. Map!Call(k, v)
  BY <1>1, <1>2 DEF SameMap, Map!Call
<1> QED
  BY <1>1, <1>3 DEF Asked, Map!Next

\* A step of put() that returns does what the call asked for, under its key.
LEMMA CallStepMap ==
  ASSUME Inv, Ordered, ItemsStored, Asked, Inv', Ordered', CallStep
  PROVE  Asked' /\ (Map!Next \/ UNCHANGED Map!vars)
<1>1. PutStep /\ asked' = asked
  BY DEF CallStep
<1>2. /\ pc # "idle"
      /\ (SameMap /\ pc' # "idle" /\ arg' = arg) \/ Stored \/ Duplicated \/ Refused
  BY <1>1, PutStepMap
<1>3. asked.key = arg[1] /\ asked.val = arg[2]
  BY <1>2 DEF Asked
<1>4. CASE SameMap /\ pc' # "idle" /\ arg' = arg
  <2>1. Asked'
    BY <1>1, <1>2, <1>4 DEF Asked
  <2>2. UNCHANGED Map!vars
    BY <1>1, <1>2, <1>4 DEF SameMap, Map!vars
  <2> QED
    BY <2>1, <2>2
<1>5. CASE Stored
  <2>1. [k \in Key |-> Lookup(k)]' = [[k \in Key |-> Lookup(k)] EXCEPT ![arg[1]] = arg[2]]
    BY <1>5 DEF Stored, OnlyKey
  <2>2. Map!Put
    BY <1>1, <1>3, <1>5, <2>1 DEF Stored, Returned, Map!Put, Map!Return
  <2> QED
    BY <1>5, <2>2 DEF Stored, Returned, Asked, Map!Next
<1>6. CASE Duplicated
  <2>1. Map!PutDuplicate
    BY <1>1, <1>3, <1>6 DEF Duplicated, NotStored, Returned, Map!PutDuplicate, Map!Return
  <2> QED
    BY <1>6, <2>1 DEF Duplicated, Returned, Asked, Map!Next
<1>7. CASE Refused
  <2>1. Map!PutError
    BY <1>1, <1>3, <1>7 DEF Refused, NotStored, Returned, Map!PutError, Map!Return
  <2> QED
    BY <1>7, <2>1 DEF Refused, Returned, Asked, Map!Next
<1> QED
  BY <1>2, <1>4, <1>5, <1>6, <1>7

\* remove() hides the key of its item and no other.
LEMMA CallRemoveMap ==
  ASSUME Inv, Ordered, ItemsStored, Inv', Ordered',
         NEW b \in Leaves, NEW i \in 1 .. Len(node[b].kv), CallRemove(b, i)
  PROVE  Asked' /\ Map!Next
<1> DEFINE k == node[b].kv[i].key
<1>1. RemoveByFlag(b, i) /\ asked' = [op |-> "remove", key |-> k] /\ pc = "idle"
  BY DEF CallRemove, RemoveByFlag
<1>2. UNCHANGED <<pc, countOfItem, ret>> /\ k \in Key /\ OnlyKey(k, Absent)
  BY <1>1, RemoveByFlagMap
<1> HIDE DEF k
<1>3. [j \in Key |-> Lookup(j)]' = [[j \in Key |-> Lookup(j)] EXCEPT ![k] = Absent]
  BY <1>2 DEF OnlyKey
<1>4. Map!Remove(k)
  BY <1>1, <1>2, <1>3 DEF Map!Remove
<1> QED
  BY <1>1, <1>2, <1>4 DEF Asked, Map!Next

LEMMA CallNextMap ==
  Inv /\ Ordered /\ ItemsStored /\ Asked /\ [CallNext]_callVars
    => Asked' /\ [Map!Next]_(Map!vars)
<1> DEFINE Goal == Asked' /\ (Map!Next \/ UNCHANGED Map!vars)
<1> SUFFICES ASSUME Inv, Ordered, ItemsStored, Asked, [CallNext]_callVars PROVE Goal
  OBVIOUS
<1>0. Inv' /\ Ordered'
  BY NextInv, NextOrdered, CallNextIsNext
<1>1. ASSUME NEW k \in Key, NEW v \in Val, CallPut(k, v) PROVE Goal
  BY <1>0, <1>1, CallPutMap
<1>2. CASE CallStep
  BY <1>0, <1>2, CallStepMap
<1>3. ASSUME NEW b \in Leaves, NEW i \in 1 .. Len(node[b].kv), CallRemove(b, i) PROVE Goal
  BY <1>0, <1>3, CallRemoveMap
<1>4. CASE UNCHANGED callVars
  <2>1. UNCHANGED <<asked, vars>>
    BY <1>4 DEF callVars
  <2>2. UNCHANGED <<pc, arg, countOfItem, ret>> /\ SameMap
    BY <1>0, <2>1, SameVarsMap DEF vars, call, meta
  <2> QED
    BY <2>1, <2>2 DEF SameMap, Asked, Map!vars
<1> HIDE DEF Goal
<1> QED
  BY <1>1, <1>2, <1>3, <1>4 DEF CallNext

\* The tree with its calls is a map: put() stores the value it was called with
\* under the key it was called with in the step it returns with, if that key is
\* not live, and reports a duplicate only if it is; remove() hides the key of
\* its item; and no other step changes what any lookup finds.
THEOREM MapImplemented == CallSpec => ImplementsMap
<1> DEFINE IInv == Inv /\ Ordered /\ ItemsStored /\ Asked
<1>1. CallInit => IInv /\ Map!Init
  BY InitAsked, InitInv, InitOrdered, InitMap
<1>2. IInv /\ [CallNext]_callVars => IInv' /\ [Map!Next]_(Map!vars)
  BY CallNextIsNext, NextInv, NextOrdered, NextMap, CallNextMap
<1> QED
  BY <1>1, <1>2, PTL DEF CallSpec, ImplementsMap, Map!Spec

-----------------------------------------------------------------------------
(* countOfItem covers the live items                                       *)

LiveCounted == IsFiniteSet(LiveKeys) /\ Cardinality(LiveKeys) <= Counted

LEMMA InitCounted == Init => LiveCounted
<1> SUFFICES ASSUME Init PROVE LiveCounted
  OBVIOUS
<1>1. Inv
  BY InitInv
<1>2. ASSUME NEW b \in Leaves PROVE Len(node[b].kv) = 0
  BY <1>2 DEF Init, Leaves
<1>3. LeafItems = {}
  BY <1>1, <1>2, ItemsOfLeaves DEF LeafItemsAre
<1>4. LiveKeys = {}
  BY <1>3 DEF LiveKeys
<1> QED
  BY <1>4, FS_EmptySet DEF LiveCounted, Counted, Init

LEMMA StepCounted == Inv /\ LiveCounted /\ CountStep => LiveCounted'
<1> SUFFICES ASSUME Inv, LiveCounted, CountStep PROVE LiveCounted'
  OBVIOUS
<1>1. IsFiniteSet(LiveKeys) /\ Cardinality(LiveKeys) \in Nat /\ Counted \in Nat
      /\ Cardinality(LiveKeys) <= Counted
  BY FS_CardinalityType DEF LiveCounted, Counted, Inv, TypeOK
<1>2. CASE LiveKeys' \subseteq LiveKeys /\ Counted' = Counted
  <2>1. IsFiniteSet(LiveKeys') /\ Cardinality(LiveKeys') <= Cardinality(LiveKeys)
    BY <1>1, <1>2, FS_Subset
  <2>2. Cardinality(LiveKeys') \in Nat
    BY <2>1, FS_CardinalityType
  <2> QED
    BY <1>1, <1>2, <2>1, <2>2 DEF LiveCounted
<1>3. CASE (\E k \in Key : LiveKeys' \subseteq LiveKeys \cup {k}) /\ Counted' = Counted + 1
  <2>1. PICK k \in Key : LiveKeys' \subseteq LiveKeys \cup {k}
    BY <1>3
  <2>2. /\ IsFiniteSet(LiveKeys \cup {k})
        /\ Cardinality(LiveKeys \cup {k}) <= Cardinality(LiveKeys) + 1
    <3>1. /\ IsFiniteSet(LiveKeys \cup {k})
          /\ Cardinality(LiveKeys \cup {k}) =
               IF k \in LiveKeys THEN Cardinality(LiveKeys) ELSE Cardinality(LiveKeys) + 1
      BY <1>1, FS_AddElement
    <3> QED
      BY <1>1, <3>1
  <2>3. IsFiniteSet(LiveKeys') /\ Cardinality(LiveKeys') <= Cardinality(LiveKeys \cup {k})
    BY <2>1, <2>2, FS_Subset
  <2>4. Cardinality(LiveKeys') \in Nat /\ Cardinality(LiveKeys \cup {k}) \in Nat
    BY <2>2, <2>3, FS_CardinalityType
  <2> QED
    BY <1>1, <1>3, <2>2, <2>3, <2>4 DEF LiveCounted
<1> QED
  BY <1>2, <1>3 DEF CountStep

\* No two live items of the leaves have one key.
LEMMA CountedCovers == Inv /\ Ordered /\ LiveCounted => CountCoversLiveItems
<1> SUFFICES ASSUME Inv, Ordered, LiveCounted PROVE CountCoversLiveItems
  OBVIOUS
<1> DEFINE f == [p \in LiveItems |-> node[p[1]].kv[p[2]].key]
<1>1. ASSUME NEW p \in LiveItems
      PROVE  /\ p[1] \in Leaves /\ p[2] \in 1 .. Len(node[p[1]].kv) /\ p = << p[1], p[2] >>
             /\ f[p] \in LiveKeys
             /\ GetLeaf(f[p]) = p[1] /\ Lub(node[p[1]].kv, f[p]) = p[2]
  <2> DEFINE item == node[p[1]].kv[p[2]]
  <2>1. /\ p[1] \in Leaves /\ p[2] \in 1 .. LeafSize /\ p[2] <= Len(node[p[1]].kv)
        /\ p = << p[1], p[2] >> /\ ~ Removed(item)
    BY DEF LiveItems
  <2>2. p[2] \in 1 .. Len(node[p[1]].kv)
    BY <2>1, BlockFacts DEF Inv, Leaves
  <2>3. item \in LeafItems
    BY <2>1, <2>2, ItemsOfLeaves DEF LeafItemsAre
  <2>4. item.key \in Key /\ item.flag = 1
    BY <2>1, <2>3, ApartFacts DEF ItemsApart, Removed
  <2>5. GetLeaf(item.key) = p[1] /\ Lub(node[p[1]].kv, item.key) = p[2]
    BY <2>1, <2>2, KeysReached DEF EveryKeyReachable
  <2>6. f[p] = item.key
    OBVIOUS
  <2> HIDE DEF f, item
  <2> QED
    BY <2>1, <2>2, <2>3, <2>4, <2>5, <2>6 DEF LiveKeys
<1>2. f \in [LiveItems -> LiveKeys] /\ DOMAIN f = LiveItems
  BY <1>1
<1> HIDE DEF f
<1>3. \A p, q \in LiveItems : f[p] = f[q] => p = q
  BY <1>1
<1>4. f \in Injection(LiveItems, LiveKeys)
  BY <1>2, <1>3 DEF Injection, IsInjective
<1>5. Cardinality(LiveItems) <= Cardinality(LiveKeys) /\ IsFiniteSet(LiveItems)
  BY <1>4, FS_Injection DEF LiveCounted
<1>6. /\ Cardinality(LiveItems) \in Nat /\ Cardinality(LiveKeys) \in Nat /\ Counted \in Nat
      /\ Cardinality(LiveKeys) <= Counted
  BY <1>5, FS_CardinalityType DEF LiveCounted, Counted, Inv, TypeOK
<1> QED
  BY <1>5, <1>6 DEF CountCoversLiveItems, Counted

\* The number of rows that info() reports is never below the number of live
\* items, and no item is live that no put() has counted or is about to count.
THEOREM CountTheorem == Spec => []CountCoversLiveItems
<1>1. Spec => []LiveCounted
  BY InvHolds, OrderHolds, ItemsStoredHolds, InitCounted, NextMap, StepCounted, PTL DEF Spec
<1> QED
  BY <1>1, InvHolds, OrderHolds, CountedCovers, PTL

-----------------------------------------------------------------------------
(* Walks.  A walk goes from a point to its step until it may stop.         *)

\* IsStepWalk(f, P, stop, base, step): f is the walk over P, base what it
\* returns where it stops.
IsStepWalk(f, P, stop, base, step) ==
  f = [q \in P |-> IF q \in stop THEN base[q] ELSE f[step[q]]]

\* Every step lowers the rank of the point.
StepsDown(P, rank, stop, step) ==
  /\ rank \in [P -> Nat]
  /\ \A q \in P \ stop : step[q] \in P /\ rank[step[q]] < rank[q]

\* What holds of a point when it holds of its step holds of every point, when
\* the steps lower a rank.
LEMMA StepInduction ==
  ASSUME NEW P, NEW rank, NEW stop, NEW step, StepsDown(P, rank, stop, step),
         NEW T, \A q \in P : (q \in stop \/ step[q] \in T) => q \in T
  PROVE  P \subseteq T
<1> USE DEF StepsDown
<1> DEFINE R == {rank[q] : q \in P \ T}
<1>1. ASSUME NEW x \in R, \A y \in R : x <= y
      PROVE  FALSE
  <2>1. PICK q \in P \ T : x = rank[q]
    OBVIOUS
  <2>2. q \notin stop /\ step[q] \notin T
    BY <2>1
  <2>3. step[q] \in P \ T /\ rank[step[q]] < rank[q]
    BY <2>1, <2>2
  <2>4. rank[step[q]] \in R /\ rank[step[q]] \in Nat /\ rank[q] \in Nat
    BY <2>3
  <2>5. x <= rank[step[q]]
    BY <1>1, <2>4
  <2> HIDE DEF R
  <2> QED
    BY <2>1, <2>3, <2>4, <2>5
<1>2. R \subseteq Nat
  OBVIOUS
<1>3. R = {}
  <2> HIDE DEF R
  <2>1. ASSUME R # {} PROVE FALSE
    BY <1>1, <1>2, <2>1, LeastElement
  <2> QED
    BY <2>1
<1>4. ASSUME NEW q \in P \ T PROVE FALSE
  <2>1. rank[q] \in R
    OBVIOUS
  <2> QED
    BY <1>3, <2>1
<1> QED
  BY <1>4

\* What a walk makes of the point it leaves and of what comes after: it puts
\* the one in front of the other, behind it, or keeps what comes after.
Join(how, here, after) ==
  CASE how = "before" -> here \o after
    [] how = "behind" -> after \o here
    [] OTHER          -> after

\* f is the walk over P that ends with base in stop.
IsJoinWalk(f, P, stop, base, step, how, here) ==
  f = [q \in P |-> IF q \in stop THEN base[q] ELSE Join(how, here[q], f[step[q]])]

\* A walk whose steps lower a rank is defined: by induction on the rank.
LEMMA JoinWalkExists ==
  ASSUME NEW P, NEW rank, NEW stop, NEW step, StepsDown(P, rank, stop, step),
         NEW n \in Nat, \A q \in P : rank[q] < n, NEW base, NEW how, NEW here
  PROVE  \E f : IsJoinWalk(f, P, stop, base, step, how, here)
<1> USE DEF StepsDown
<1> DEFINE upTo(m) == {q \in P : rank[q] < m}
           walks(m) == \E f : IsJoinWalk(f, upTo(m), stop, base, step, how, here)
           T == {m \in Nat : ~ walks(m)}
<1>1. ASSUME NEW x \in T, \A y \in T : x <= y
      PROVE  FALSE
  <2>1. x \in Nat /\ ~ walks(x)
    OBVIOUS
  <2>2. CASE x = 0
    <3> DEFINE f == [q \in upTo(0) |-> base[q]]
    <3>1. upTo(0) = {}
      OBVIOUS
    <3>2. IsJoinWalk(f, upTo(0), stop, base, step, how, here)
      BY <3>1 DEF IsJoinWalk
    <3> QED
      BY <2>1, <2>2, <3>2
  <2>3. CASE x # 0
    <3>1. x - 1 \in Nat /\ walks(x - 1)
      <4> HIDE DEF walks
      <4> QED
        BY <1>1, <2>1, <2>3
    <3>2. PICK f : IsJoinWalk(f, upTo(x - 1), stop, base, step, how, here)
      BY <3>1
    <3> DEFINE g == [q \in upTo(x) |-> IF q \in stop THEN base[q] ELSE Join(how, here[q], f[step[q]])]
    <3>3. ASSUME NEW q \in upTo(x), q \notin stop
          PROVE  g[step[q]] = f[step[q]]
      <4>1. step[q] \in P /\ rank[step[q]] < rank[q] /\ rank[q] < x
            /\ rank[q] \in Nat /\ rank[step[q]] \in Nat
        BY <3>3
      <4>2. step[q] \in upTo(x) /\ step[q] \in upTo(x - 1)
        BY <2>1, <4>1
      <4>3. f[step[q]] = IF step[q] \in stop THEN base[step[q]]
                         ELSE Join(how, here[step[q]], f[step[step[q]]])
        BY <3>2, <4>2 DEF IsJoinWalk
      <4> QED
        BY <4>2, <4>3
    <3>4. IsJoinWalk(g, upTo(x), stop, base, step, how, here)
      BY <3>3 DEF IsJoinWalk
    <3> QED
      BY <2>1, <3>4
  <2> QED
    BY <2>2, <2>3
<1> HIDE DEF walks
<1>2. T = {}
  <2>1. T \subseteq Nat
    OBVIOUS
  <2> HIDE DEF T
  <2>2. ASSUME T # {} PROVE FALSE
    BY <1>1, <2>1, <2>2, LeastElement
  <2> QED
    BY <2>2
<1>3. upTo(n) = P
  OBVIOUS
<1> HIDE DEF upTo
<1>4. walks(n)
  BY <1>2
<1> USE DEF walks
<1> QED
  BY <1>3, <1>4

\* A walk whose steps lower a rank reaches an end: the function exists.
LEMMA StepWalkExists ==
  ASSUME NEW P, NEW rank, NEW stop, NEW step, StepsDown(P, rank, stop, step),
         NEW n \in Nat, \A q \in P : rank[q] < n, NEW base
  PROVE  \E f : IsStepWalk(f, P, stop, base, step)
<1>1. PICK f : IsJoinWalk(f, P, stop, base, step, "alone", base)
  BY JoinWalkExists
<1>2. \A x, y : Join("alone", x, y) = y
  BY DEF Join
<1>3. IsStepWalk(f, P, stop, base, step)
  BY <1>1, <1>2 DEF IsJoinWalk, IsStepWalk
<1> QED
  BY <1>3

(* The walks of next() and prev() over points with keys: to the point with *)
(* the next key, and on while that one is to be skipped.                   *)

\* The walk in P from q ends in o: at the point with the least key above that
\* of q that need not be skipped, or, if there is none, at q or at a point to
\* be skipped behind it.
EndsRight(P, key, skip, q, o) ==
  /\ o.to \in P
  /\ \/ /\ o.moved = "yes" /\ o.to \notin skip /\ key[o.to] > key[q]
        /\ \A x \in P \ skip : key[x] > key[q] => key[x] >= key[o.to]
     \/ /\ o.moved = "no" /\ key[o.to] >= key[q] /\ (o.to = q \/ o.to \in skip)
        /\ \A x \in P \ skip : key[x] <= key[q]

\* Where it stops at q, the last of all points or a step in front of one that
\* need not be skipped, what the walk returns is right; and what is right for
\* the step of q, which is to be skipped, is right for q.
NextPoint(P, key, end, step) ==
  /\ \A x, y \in P : key[x] = key[y] => x = y
  /\ \A q \in end : q \in P /\ \A x \in P : key[x] <= key[q]
  /\ \A q \in P \ end : /\ step[q] \in P /\ key[step[q]] > key[q]
                        /\ \A x \in P : key[x] > key[q] => key[x] >= key[step[q]]

\* Points of a finite set, each of which steps to the point with the next key,
\* are ranked by the number of keys above them.
LEMMA NextRanked ==
  ASSUME NEW P, IsFiniteSet(P), NEW key \in [P -> Int], NEW end, NEW step,
         NextPoint(P, key, end, step)
  PROVE  \E rank \in [P -> Nat], n \in Nat :
           /\ \A q \in P : rank[q] < n
           /\ \A q \in P \ end : rank[step[q]] < rank[q]
<1> DEFINE above(q) == {x \in P : key[x] > key[q]}
           rank == [q \in P |-> Cardinality(above(q))]
           n == Cardinality(P) + 1
<1>1. ASSUME NEW q \in P
      PROVE  /\ IsFiniteSet(above(q)) /\ rank[q] \in Nat /\ rank[q] < n /\ n \in Nat
  <2>1. IsFiniteSet(above(q)) /\ Cardinality(above(q)) <= Cardinality(P)
    BY FS_Subset
  <2> HIDE DEF above
  <2>2. Cardinality(above(q)) \in Nat /\ Cardinality(P) \in Nat
    BY <2>1, FS_CardinalityType
  <2> QED
    BY <2>1, <2>2
<1>2. ASSUME NEW q \in P \ end PROVE rank[step[q]] < rank[q]
  <2> DEFINE s == step[q]
  <2>1. s \in P /\ key[s] > key[q] /\ key[s] \in Int /\ key[q] \in Int
    BY DEF NextPoint
  <2>2. above(s) \subseteq above(q) /\ s \in above(q) /\ s \notin above(s)
    BY <2>1
  <2> HIDE DEF s, above
  <2>3. Cardinality(above(s)) <= Cardinality(above(q)) /\ Cardinality(above(q)) # Cardinality(above(s))
    BY <1>1, <2>2, FS_Subset
  <2>4. rank[s] <= rank[q] /\ rank[s] # rank[q]
    BY <2>1, <2>3
  <2> HIDE DEF rank
  <2>5. rank[s] \in Nat /\ rank[q] \in Nat
    BY <1>1, <2>1
  <2> QED
    BY <2>4, <2>5 DEF s
<1>3. n \in Nat
  BY FS_CardinalityType
<1> HIDE DEF n, above
<1>4. rank \in [P -> Nat]
  BY <1>1
<1> HIDE DEF rank
<1> QED
  BY <1>1, <1>2, <1>3, <1>4

\* The walk that skips points, as next() and prev() define it.
IsNextWalk(f, P, end, step, skip) ==
  f = [q \in P |-> IF q \in end THEN Outcome(q, "no")
                   ELSE IF step[q] \in skip THEN f[step[q]]
                   ELSE Outcome(step[q], "yes")]

LEMMA NextWalk ==
  ASSUME NEW P, IsFiniteSet(P), NEW key \in [P -> Int], NEW end, NEW step, NEW skip,
         NextPoint(P, key, end, step)
  PROVE  /\ \E f : IsNextWalk(f, P, end, step, skip)
         /\ \A f : IsNextWalk(f, P, end, step, skip) =>
              \A p \in P : EndsRight(P, key, skip, p, f[p])
<1> DEFINE stop == {q \in P : q \in end \/ step[q] \notin skip}
           base == [q \in P |-> IF q \in end THEN Outcome(q, "no") ELSE Outcome(step[q], "yes")]
<1>1. PICK rank \in [P -> Nat], n \in Nat :
        /\ \A q \in P : rank[q] < n
        /\ \A q \in P \ end : rank[step[q]] < rank[q]
  BY NextRanked
<1>2. StepsDown(P, rank, stop, step)
  BY <1>1 DEF StepsDown, NextPoint
<1>3. \E f : IsNextWalk(f, P, end, step, skip)
  <2>1. PICK f : IsStepWalk(f, P, stop, base, step)
    <3> HIDE DEF stop, base
    <3> QED
      BY <1>1, <1>2, StepWalkExists
  <2>2. IsNextWalk(f, P, end, step, skip)
    BY <2>1 DEF IsStepWalk, IsNextWalk
  <2> QED
    BY <2>2
<1>4. ASSUME NEW f, IsNextWalk(f, P, end, step, skip), NEW p \in P
      PROVE  EndsRight(P, key, skip, p, f[p])
  <2> DEFINE T == {q \in P : EndsRight(P, key, skip, q, f[q])}
  <2>1. ASSUME NEW q \in P, q \in stop \/ step[q] \in T PROVE q \in T
    <3>1. CASE q \in end
      <4>1. f[q] = Outcome(q, "no")
        BY <1>4, <3>1 DEF IsNextWalk
      <4>2. key[q] \in Int /\ \A x \in P : key[x] <= key[q]
        BY <3>1 DEF NextPoint
      <4>3. EndsRight(P, key, skip, q, Outcome(q, "no"))
        BY <4>2 DEF EndsRight, Outcome
      <4> QED
        BY <4>1, <4>3
    <3>2. CASE q \notin end /\ step[q] \notin skip
      <4>1. f[q] = Outcome(step[q], "yes")
        BY <1>4, <3>2 DEF IsNextWalk
      <4>2. EndsRight(P, key, skip, q, Outcome(step[q], "yes"))
        BY <3>2 DEF NextPoint, EndsRight, Outcome
      <4> QED
        BY <4>1, <4>2
    <3>3. CASE q \notin end /\ step[q] \in skip
      <4> DEFINE s == step[q]
      <4>1. f[q] = f[s]
        BY <1>4, <3>3 DEF IsNextWalk
      <4>2. s \in P /\ s \in skip /\ key[s] > key[q] /\ EndsRight(P, key, skip, s, f[s])
        BY <2>1, <3>3 DEF NextPoint
      <4>3. \A x \in P : key[x] > key[q] => key[x] >= key[s]
        BY <3>3 DEF NextPoint
      <4>4. \A x \in P \ skip : key[x] > key[q] => key[x] > key[s]
        <5>1. \A x \in P \ skip : x # s /\ key[x] # key[s]
          BY <4>2 DEF NextPoint
        <5>2. \A x \in P : key[x] \in Int
          OBVIOUS
        <5> QED
          BY <4>2, <4>3, <5>1, <5>2
      <4>5. key[s] \in Int /\ key[q] \in Int /\ \A x \in P : key[x] \in Int
        BY <4>2
      <4> HIDE DEF s
      <4> QED
        BY <4>1, <4>2, <4>4, <4>5 DEF EndsRight
    <3> QED
      BY <3>1, <3>2, <3>3
  <2> HIDE DEF T, stop
  <2>2. \A q \in P : (q \in stop \/ step[q] \in T) => q \in T
    BY <2>1
  <2>3. P \subseteq T
    BY <1>2, <2>2, StepInduction
  <2> QED
    BY <2>3 DEF T
<1> QED
  BY <1>3, <1>4

-----------------------------------------------------------------------------
(* The items of the leaves as the places of an iterator                    *)

KeyAt(p) == ItemAt(p).key

LEMMA PlaceFacts ==
  ASSUME Inv, Ordered
  PROVE  /\ \A b \in Leaves : \A i \in 1 .. Len(node[b].kv) : Place(b, i) \in Places
         /\ \A p \in Places : /\ p.blk \in Leaves /\ p.blk \in DOMAIN node
                              /\ p.idx \in 1 .. Len(node[p.blk].kv)
                              /\ p = Place(p.blk, p.idx)
                              /\ ItemAt(p) \in Item /\ KeyAt(p) \in Key /\ KeyAt(p) \in Int
                              /\ GetLeaf(KeyAt(p)) = p.blk
                              /\ Lub(node[p.blk].kv, KeyAt(p)) = p.idx
<1>1. ASSUME NEW b \in Leaves, NEW i \in 1 .. Len(node[b].kv) PROVE Place(b, i) \in Places
  <2>1. b \in DOMAIN node /\ node[b].leaf /\ Len(node[b].kv) \in Nat
    BY BlockFacts DEF Leaves, Inv
  <2>2. Len(node[b].kv) <= LeafSize
    BY <2>1 DEF Inv, NodesHaveRoom, Size
  <2>3. i \in 1 .. LeafSize /\ i <= Len(node[b].kv)
    BY <2>1, <2>2, SizeAssumption
  <2> QED
    BY <2>3 DEF Places, Place
<1>2. ASSUME NEW p \in Places
      PROVE  /\ p.blk \in Leaves /\ p.blk \in DOMAIN node
             /\ p.idx \in 1 .. Len(node[p.blk].kv)
             /\ p = Place(p.blk, p.idx)
             /\ ItemAt(p) \in Item /\ KeyAt(p) \in Key /\ KeyAt(p) \in Int
             /\ GetLeaf(KeyAt(p)) = p.blk
             /\ Lub(node[p.blk].kv, KeyAt(p)) = p.idx
  <2>1. /\ p.blk \in Leaves /\ p.blk \in DOMAIN node /\ p = Place(p.blk, p.idx)
        /\ p.idx \in 1 .. LeafSize /\ p.idx <= Len(node[p.blk].kv)
    BY DEF Places, Place, Leaves
  <2>2. p.idx \in 1 .. Len(node[p.blk].kv)
    BY <2>1, BlockFacts DEF Inv
  <2>3. ItemAt(p) \in Item
    BY <2>1, <2>2, BlockFacts DEF Inv, ItemAt
  <2>4. KeyAt(p) \in Key /\ KeyAt(p) \in Int
    BY <2>3, KeyAssumption DEF KeyAt, Item
  <2>5. GetLeaf(KeyAt(p)) = p.blk /\ Lub(node[p.blk].kv, KeyAt(p)) = p.idx
    BY <2>1, <2>2, KeysReached DEF EveryKeyReachable, KeyAt, ItemAt
  <2> QED
    BY <2>1, <2>2, <2>3, <2>4, <2>5
<1> QED
  BY <1>1, <1>2

LEMMA PlacesFinite == Inv /\ Ordered => IsFiniteSet(Places)
<1> SUFFICES ASSUME Inv, Ordered PROVE IsFiniteSet(Places)
  OBVIOUS
<1> DEFINE B == 1 .. countOfBlock - 1
           I == 1 .. LeafSize
           f == [p \in Places |-> <<p.blk, p.idx>>]
<1>1. IsFiniteSet(B) /\ IsFiniteSet(I)
  <2>1. countOfBlock - 1 \in Int /\ LeafSize \in Int /\ 1 \in Int
    BY SizeAssumption DEF Inv, TypeOK
  <2> QED
    BY <2>1, FS_Interval
<1>2. IsFiniteSet(B \X I)
  BY <1>1, FS_Product
<1>3. \A p \in Places : f[p] \in B \X I
  BY DEF Places, Leaves, Inv, TypeOK
<1>4. \A p, q \in Places : f[p] = f[q] => p = q
  BY PlaceFacts
<1>5. f \in Injection(Places, B \X I)
  BY <1>3, <1>4 DEF Injection, IsInjective
<1> QED
  BY <1>2, <1>5, FS_Injection

\* A leaf that covers the key of a place holds it, and places with one key are
\* one place.
LEMMA PlaceOfKey ==
  ASSUME Inv, Ordered, NEW p \in Places
  PROVE  /\ \A b \in Leaves : Covers(b, KeyAt(p)) => p.blk = b
         /\ \A q \in Places : KeyAt(p) = KeyAt(q) => p = q
BY PlaceFacts, CoverReached

\* The keys of the leaf around a place.
LEMMA LeafFacts ==
  ASSUME Inv, Ordered, NEW p \in Places, NEW b, b = p.blk, NEW s, s = node[b].kv
  PROVE  /\ b \in Leaves /\ b \in DOMAIN node /\ p.idx \in 1 .. Len(s)
         /\ KeyAt(p) = s[p.idx].key /\ KeyAt(p) \in Int /\ KeyAt(p) \in Key
         /\ Len(s) \in Nat /\ 1 \in 1 .. Len(s) /\ Len(s) \in 1 .. Len(s) /\ s # << >>
         /\ MaxKey(s) = s[Len(s)].key /\ MaxKey(s) \in Int
         /\ s[1].key <= KeyAt(p) /\ KeyAt(p) <= MaxKey(s)
         /\ \A i, j \in 1 .. Len(s) : i < j => s[i].key < s[j].key
         /\ \A i \in 1 .. Len(s) : s[i].key \in Int /\ Place(b, i) \in Places
<1>1. b \in Leaves /\ b \in DOMAIN node /\ p.idx \in 1 .. Len(s) /\ KeyAt(p) \in Int /\ KeyAt(p) \in Key
  BY PlaceFacts
<1>2. KeyAt(p) = s[p.idx].key
  BY DEF KeyAt, ItemAt
<1>3. /\ Len(s) \in Nat /\ MaxKey(s) = s[Len(s)].key /\ \A i \in 1 .. Len(s) : s[i].key \in Int
      /\ s # << >> => MaxKey(s) \in Int
  BY <1>1, KeyFacts
<1>4. Len(s) >= 1 /\ s # << >>
  BY <1>1, <1>3
<1>5. 1 \in 1 .. Len(s) /\ Len(s) \in 1 .. Len(s)
  BY <1>3, <1>4
<1>6. \A i, j \in 1 .. Len(s) : i < j => s[i].key < s[j].key
  BY <1>1 DEF Ordered, KeysSorted
<1>7. \A i \in 1 .. Len(s) : Place(b, i) \in Places
  BY <1>1, PlaceFacts
<1>8. s[1].key <= s[p.idx].key /\ s[p.idx].key <= s[Len(s)].key
  <2>1. (p.idx = 1 \/ 1 < p.idx) /\ (p.idx = Len(s) \/ p.idx < Len(s))
    BY <1>1, <1>3
  <2>2. s[1].key \in Int /\ s[p.idx].key \in Int /\ s[Len(s)].key \in Int
    BY <1>1, <1>3, <1>5
  <2>3. s[1].key = s[p.idx].key \/ s[1].key < s[p.idx].key
    BY <1>1, <1>5, <1>6, <2>1
  <2>4. s[p.idx].key = s[Len(s)].key \/ s[p.idx].key < s[Len(s)].key
    BY <1>1, <1>5, <1>6, <2>1
  <2> QED
    BY ONLY <2>2, <2>3, <2>4
<1> QED
  BY <1>1, <1>2, <1>3, <1>4, <1>5, <1>6, <1>7, <1>8

\* The leaf of a place covers the keys from there up to its last one ...
LEMMA CoversUp ==
  ASSUME Inv, Ordered, NEW p \in Places, NEW k \in Int, k >= KeyAt(p),
         node[p.blk].next = 0 \/ k <= MaxKey(node[p.blk].kv)
  PROVE  Covers(p.blk, k)
<1> DEFINE b == p.blk
           d == node[b].last
<1>1. /\ b \in DOMAIN node /\ KeyAt(p) \in Int
      /\ node[b].kv[1].key \in Int /\ node[b].kv[1].key <= KeyAt(p)
  BY LeafFacts
<1>2. ASSUME d # 0 PROVE MaxKey(node[d].kv) < k
  <2>1. d \in DOMAIN node /\ node[d].next = b /\ node[d].next # 0
    BY <1>1, <1>2, LastFacts
  <2> HIDE DEF b, d
  <2>2. node[d].kv # << >> /\ MaxKey(node[d].kv) < node[b].kv[1].key
    BY <2>1, NextFacts
  <2>3. MaxKey(node[d].kv) \in Int
    BY <2>1, <2>2, KeyFacts
  <2> QED
    BY <1>1, <2>2, <2>3 DEF b
<1> QED
  BY <1>2 DEF Covers

\* ... and down to the last one of the leaf before it.
LEMMA CoversDown ==
  ASSUME Inv, Ordered, NEW p \in Places, NEW k \in Int, k <= KeyAt(p),
         node[p.blk].last = 0 \/ MaxKey(node[node[p.blk].last].kv) < k
  PROVE  Covers(p.blk, k)
<1>1. KeyAt(p) \in Int /\ MaxKey(node[p.blk].kv) \in Int /\ KeyAt(p) <= MaxKey(node[p.blk].kv)
  BY LeafFacts
<1> QED
  BY <1>1 DEF Covers

\* header.next is followed from the end of a leaf to an item of the next one.
LEMMA SuccPoint ==
  Inv /\ Ordered =>
    NextPoint(Places, [p \in Places |-> KeyAt(p)], {p \in Places : AtEnd(p)},
              [p \in Places |-> Succ(p)])
<1> SUFFICES ASSUME Inv, Ordered
             PROVE  NextPoint(Places, [p \in Places |-> KeyAt(p)], {p \in Places : AtEnd(p)},
                              [p \in Places |-> Succ(p)])
  OBVIOUS
<1>1. ASSUME NEW p \in Places, AtEnd(p), NEW x \in Places PROVE KeyAt(x) <= KeyAt(p)
  <2> SUFFICES ASSUME KeyAt(x) > KeyAt(p) PROVE FALSE
    BY PlaceFacts
  <2> DEFINE b == p.blk
             s == node[b].kv
  <2>1. p.idx = Len(s) /\ node[b].next = 0
    BY <1>1 DEF AtEnd
  <2>2. /\ KeyAt(p) \in Int /\ KeyAt(x) \in Int /\ b \in Leaves
        /\ KeyAt(p) = s[p.idx].key /\ p.idx \in 1 .. Len(s)
    BY LeafFacts, PlaceFacts
  <2>3. Covers(b, KeyAt(x))
    BY <2>1, <2>2, CoversUp
  <2>4. x.blk = b
    BY <2>2, <2>3, PlaceOfKey
  <2>5. KeyAt(x) <= MaxKey(s) /\ MaxKey(s) = s[Len(s)].key
    BY <2>4, LeafFacts
  <2> HIDE DEF s
  <2> QED
    BY <2>1, <2>2, <2>5
<1>2. ASSUME NEW p \in Places, ~ AtEnd(p)
      PROVE  /\ Succ(p) \in Places /\ KeyAt(Succ(p)) > KeyAt(p)
             /\ \A x \in Places : KeyAt(x) > KeyAt(p) => KeyAt(x) >= KeyAt(Succ(p))
  <2> DEFINE b == p.blk
             s == node[b].kv
             c == node[b].next
  <2>1. /\ KeyAt(p) = s[p.idx].key /\ KeyAt(p) \in Int /\ b \in Leaves /\ b \in DOMAIN node
        /\ p.idx \in 1 .. Len(s) /\ Len(s) \in Nat
        /\ MaxKey(s) = s[Len(s)].key /\ MaxKey(s) \in Int
        /\ \A i \in 1 .. Len(s) : s[i].key \in Int /\ Place(b, i) \in Places
        /\ \A i, j \in 1 .. Len(s) : i < j => s[i].key < s[j].key
    BY LeafFacts
  <2>2. CASE p.idx < Len(s)
    <3> DEFINE q == Place(b, p.idx + 1)
    <3>1. Succ(p) = q /\ p.idx + 1 \in 1 .. Len(s)
      BY <2>1, <2>2 DEF Succ
    <3>2. q \in Places /\ KeyAt(q) = s[p.idx + 1].key /\ KeyAt(q) \in Int
      BY <2>1, <3>1 DEF KeyAt, ItemAt, Place
    <3> HIDE DEF s
    <3>3. KeyAt(q) > KeyAt(p)
      BY <2>1, <3>1, <3>2
    <3>4. KeyAt(q) <= MaxKey(s)
      BY <3>2, LeafFacts DEF s, Place
    <3>5. ASSUME NEW x \in Places, KeyAt(x) > KeyAt(p), KeyAt(x) < KeyAt(q) PROVE FALSE
      <4>1. KeyAt(x) \in Int
        BY PlaceFacts
      <4>2. Covers(b, KeyAt(x))
        <5> HIDE DEF q
        <5>1. KeyAt(x) <= MaxKey(s)
          BY <2>1, <3>2, <3>4, <3>5, <4>1
        <5> QED
          BY <2>1, <3>5, <4>1, <5>1, CoversUp DEF s
      <4>3. x.blk = b
        BY <2>1, <4>2, PlaceOfKey
      <4>4. x.idx \in 1 .. Len(s) /\ KeyAt(x) = s[x.idx].key
        BY <4>3, LeafFacts DEF s
      <4>5. x.idx <= p.idx \/ x.idx >= p.idx + 1
        BY <2>1, <4>4
      <4>6. CASE x.idx <= p.idx
        <5>1. x.idx = p.idx \/ x.idx < p.idx
          BY <2>1, <4>4, <4>6
        <5>2. KeyAt(x) = KeyAt(p) \/ KeyAt(x) < KeyAt(p)
          BY <2>1, <4>4, <5>1
        <5> QED
          BY <2>1, <3>5, <4>1, <5>2
      <4>7. CASE x.idx >= p.idx + 1
        <5>1. x.idx = p.idx + 1 \/ x.idx > p.idx + 1
          BY <2>1, <4>4, <4>7
        <5>2. KeyAt(x) = KeyAt(q) \/ KeyAt(x) > KeyAt(q)
          BY <2>1, <3>1, <3>2, <4>4, <5>1
        <5> QED
          BY <3>2, <3>5, <4>1, <5>2
      <4> QED
        BY <4>5, <4>6, <4>7
    <3> HIDE DEF q
    <3>6. \A x \in Places : KeyAt(x) \in Int
      BY PlaceFacts
    <3> QED
      BY <3>1, <3>2, <3>3, <3>5, <3>6
  <2>3. CASE ~ (p.idx < Len(s))
    <3> DEFINE q == Place(c, 1)
    <3>1. c # 0 /\ Succ(p) = q /\ p.idx = Len(s)
      BY <1>2, <2>1, <2>3 DEF Succ, AtEnd
    <3>2. /\ c \in DOMAIN node /\ c \in Leaves /\ node[c].last = b /\ node[c].kv # << >>
          /\ MaxKey(s) < node[c].kv[1].key
      BY <2>1, <3>1, NextFacts DEF Leaves
    <3>3. 1 \in 1 .. Len(node[c].kv)
      BY <3>2, KeyFacts
    <3>4. q \in Places /\ KeyAt(q) = node[c].kv[1].key /\ q.blk = c
      BY <3>2, <3>3, PlaceFacts DEF KeyAt, ItemAt, Place
    <3> HIDE DEF c, q, s
    <3>5. KeyAt(q) \in Int /\ KeyAt(q) > KeyAt(p)
      BY <2>1, <3>1, <3>2, <3>4, PlaceFacts
    <3>6. ASSUME NEW x \in Places, KeyAt(x) > KeyAt(p), KeyAt(x) < KeyAt(q) PROVE FALSE
      <4>1. KeyAt(x) \in Int
        BY PlaceFacts
      <4>2. Covers(c, KeyAt(x))
        BY <2>1, <3>1, <3>2, <3>4, <3>5, <3>6, <4>1, CoversDown DEF s
      <4>3. x.blk = c
        BY <3>2, <4>2, PlaceOfKey
      <4>4. node[c].kv[1].key <= KeyAt(x)
        BY <4>3, LeafFacts
      <4> QED
        BY <3>4, <3>5, <3>6, <4>1, <4>4
    <3>7. \A x \in Places : KeyAt(x) \in Int
      BY PlaceFacts
    <3> QED
      BY <3>1, <3>4, <3>5, <3>6, <3>7
  <2> QED
    BY <2>2, <2>3
<1> QED
  BY <1>1, <1>2, PlaceOfKey DEF NextPoint

\* header.last is followed from the start of a leaf to the last item of the one
\* before it.
LEMMA PredPoint ==
  Inv /\ Ordered =>
    NextPoint(Places, [p \in Places |-> - KeyAt(p)], {p \in Places : AtStart(p)},
              [p \in Places |-> Pred(p)])
<1> SUFFICES ASSUME Inv, Ordered
             PROVE  NextPoint(Places, [p \in Places |-> - KeyAt(p)], {p \in Places : AtStart(p)},
                              [p \in Places |-> Pred(p)])
  OBVIOUS
<1>0. \A x \in Places : KeyAt(x) \in Int
  BY PlaceFacts
<1>1. ASSUME NEW p \in Places, AtStart(p), NEW x \in Places PROVE KeyAt(x) >= KeyAt(p)
  <2> SUFFICES ASSUME KeyAt(x) < KeyAt(p) PROVE FALSE
    BY <1>0
  <2> DEFINE b == p.blk
             s == node[b].kv
  <2>1. p.idx <= 1 /\ node[b].last = 0
    BY <1>1 DEF AtStart
  <2>2. /\ KeyAt(p) \in Int /\ KeyAt(x) \in Int /\ b \in Leaves
        /\ KeyAt(p) = s[p.idx].key /\ p.idx \in 1 .. Len(s)
    BY LeafFacts, PlaceFacts
  <2>3. Covers(b, KeyAt(x))
    BY <2>1, <2>2, CoversDown
  <2>4. x.blk = b
    BY <2>2, <2>3, PlaceOfKey
  <2>5. s[1].key <= KeyAt(x)
    BY <2>4, LeafFacts
  <2> HIDE DEF s
  <2>6. p.idx = 1
    BY <2>1, <2>2
  <2> QED
    BY <2>2, <2>5, <2>6
<1>2. ASSUME NEW p \in Places, ~ AtStart(p)
      PROVE  /\ Pred(p) \in Places /\ KeyAt(Pred(p)) < KeyAt(p)
             /\ \A x \in Places : KeyAt(x) < KeyAt(p) => KeyAt(x) <= KeyAt(Pred(p))
  <2> DEFINE b == p.blk
             s == node[b].kv
             c == node[b].last
  <2>1. /\ KeyAt(p) = s[p.idx].key /\ KeyAt(p) \in Int /\ b \in Leaves /\ b \in DOMAIN node
        /\ p.idx \in 1 .. Len(s) /\ Len(s) \in Nat /\ KeyAt(p) <= MaxKey(s) /\ MaxKey(s) \in Int
        /\ \A i \in 1 .. Len(s) : s[i].key \in Int /\ Place(b, i) \in Places
        /\ \A i, j \in 1 .. Len(s) : i < j => s[i].key < s[j].key
    BY LeafFacts
  <2>2. CASE p.idx > 1
    <3> DEFINE q == Place(b, p.idx - 1)
    <3>1. Pred(p) = q /\ p.idx - 1 \in 1 .. Len(s)
      BY <2>1, <2>2 DEF Pred
    <3>2. q \in Places /\ KeyAt(q) = s[p.idx - 1].key /\ KeyAt(q) \in Int /\ q.blk = b
      BY <2>1, <3>1 DEF KeyAt, ItemAt, Place
    <3> HIDE DEF s, q
    <3>3. KeyAt(q) < KeyAt(p)
      BY <2>1, <3>1, <3>2
    <3>4. ASSUME NEW x \in Places, KeyAt(x) < KeyAt(p), KeyAt(x) > KeyAt(q) PROVE FALSE
      <4>1. KeyAt(x) \in Int
        BY PlaceFacts
      <4>2. Covers(b, KeyAt(x))
        <5>1. KeyAt(x) <= MaxKey(s) /\ KeyAt(x) >= KeyAt(q)
          BY <2>1, <3>2, <3>4, <4>1
        <5> QED
          BY <3>2, <4>1, <5>1, CoversUp DEF s
      <4>3. x.blk = b
        BY <2>1, <4>2, PlaceOfKey
      <4>4. x.idx \in 1 .. Len(s) /\ KeyAt(x) = s[x.idx].key
        BY <4>3, LeafFacts DEF s
      <4>5. x.idx <= p.idx - 1 \/ x.idx >= p.idx
        BY <2>1, <4>4
      <4>6. CASE x.idx <= p.idx - 1
        <5>1. x.idx = p.idx - 1 \/ x.idx < p.idx - 1
          BY <2>1, <4>4, <4>6
        <5>2. KeyAt(x) = KeyAt(q) \/ KeyAt(x) < KeyAt(q)
          BY <2>1, <3>1, <3>2, <4>4, <5>1
        <5> QED
          BY <3>2, <3>4, <4>1, <5>2
      <4>7. CASE x.idx >= p.idx
        <5>1. x.idx = p.idx \/ x.idx > p.idx
          BY <2>1, <4>4, <4>7
        <5>2. KeyAt(x) = KeyAt(p) \/ KeyAt(x) > KeyAt(p)
          BY <2>1, <4>4, <5>1
        <5> QED
          BY <2>1, <3>4, <4>1, <5>2
      <4> QED
        BY <4>5, <4>6, <4>7
    <3> QED
      BY <1>0, <3>1, <3>2, <3>3, <3>4
  <2>3. CASE ~ (p.idx > 1)
    <3> DEFINE q == LastOf(c)
    <3>1. c # 0 /\ Pred(p) = q /\ p.idx = 1
      BY <1>2, <2>1, <2>3 DEF Pred, AtStart
    <3>2. /\ c \in DOMAIN node /\ node[c].next = b /\ node[c].next # 0
      BY <2>1, <3>1, LastFacts
    <3>3. c \in Leaves /\ node[c].kv # << >> /\ MaxKey(node[c].kv) < s[1].key
      BY <2>1, <3>2, NextFacts DEF Leaves
    <3>4. Len(node[c].kv) \in 1 .. Len(node[c].kv) /\ MaxKey(node[c].kv) = node[c].kv[Len(node[c].kv)].key
      BY <3>2, <3>3, KeyFacts
    <3>5. q \in Places /\ KeyAt(q) = MaxKey(node[c].kv) /\ q.blk = c
      BY <3>3, <3>4, PlaceFacts DEF KeyAt, ItemAt, Place, LastOf
    <3> HIDE DEF q, s
    <3>6. KeyAt(q) \in Int /\ KeyAt(q) < KeyAt(p)
      BY <1>0, <2>1, <3>1, <3>3, <3>5
    <3>7. ASSUME NEW x \in Places, KeyAt(x) < KeyAt(p), KeyAt(x) > KeyAt(q) PROVE FALSE
      <4>1. Covers(b, KeyAt(x))
        BY <1>0, <3>5, <3>7, CoversDown
      <4>2. x.blk = b
        BY <2>1, <4>1, PlaceOfKey
      <4>3. s[1].key <= KeyAt(x)
        BY <4>2, LeafFacts DEF s
      <4> QED
        BY <1>0, <2>1, <3>1, <3>7, <4>3
    <3> QED
      BY <1>0, <3>1, <3>5, <3>6, <3>7
  <2> QED
    BY <2>2, <2>3
<1> HIDE DEF KeyAt
<1> QED
  BY <1>0, <1>1, <1>2, PlaceOfKey DEF NextPoint

LEMMA ForwardWalks ==
  ASSUME Inv, Ordered, NEW p \in Places
  PROVE  EndsRight(Places, [q \in Places |-> KeyAt(q)], {q \in Places : Removed(ItemAt(q))},
                   p, Forward(p))
<1> DEFINE key == [q \in Places |-> KeyAt(q)]
           end == {q \in Places : AtEnd(q)}
           step == [q \in Places |-> Succ(q)]
           skip == {q \in Places : Removed(ItemAt(q))}
           body(f) == [q \in Places |-> IF AtEnd(q) THEN Outcome(q, "no")
                                        ELSE IF Removed(ItemAt(Succ(q))) THEN f[Succ(q)]
                                        ELSE Outcome(Succ(q), "yes")]
           walk == CHOOSE f : f = body(f)
<1>1. NextPoint(Places, key, end, step)
  BY SuccPoint
<1>2. key \in [Places -> Int] /\ IsFiniteSet(Places)
  BY PlaceFacts, PlacesFinite
<1>3. \A q \in Places \ end : step[q] \in Places /\ step[q] = Succ(q)
  BY <1>1 DEF NextPoint
<1>4. ASSUME NEW f PROVE f = body(f) <=> IsNextWalk(f, Places, end, step, skip)
  <2>1. body(f) = [q \in Places |-> IF q \in end THEN Outcome(q, "no")
                                    ELSE IF step[q] \in skip THEN f[step[q]]
                                    ELSE Outcome(step[q], "yes")]
    BY <1>3
  <2> QED
    BY <2>1 DEF IsNextWalk
<1>5. Forward(p) = walk[p]
  BY DEF Forward
<1> HIDE DEF body, end, step, skip, key
<1>6. IsNextWalk(walk, Places, end, step, skip)
  <2>1. \E f : IsNextWalk(f, Places, end, step, skip)
    BY <1>1, <1>2, NextWalk
  <2>2. \E f : f = body(f)
    BY <1>4, <2>1
  <2>3. walk = body(walk)
    BY <2>2
  <2> QED
    BY <1>4, <2>3
<1> HIDE DEF walk
<1>7. EndsRight(Places, key, skip, p, walk[p])
  BY <1>1, <1>2, <1>6, NextWalk
<1> QED
  BY <1>5, <1>7 DEF key, skip

LEMMA BackwardWalks ==
  ASSUME Inv, Ordered, NEW p \in Places
  PROVE  EndsRight(Places, [q \in Places |-> - KeyAt(q)], {q \in Places : Removed(ItemAt(q))},
                   p, Backward(p))
<1> DEFINE key == [q \in Places |-> - KeyAt(q)]
           end == {q \in Places : AtStart(q)}
           step == [q \in Places |-> Pred(q)]
           skip == {q \in Places : Removed(ItemAt(q))}
           body(f) == [q \in Places |-> IF AtStart(q) THEN Outcome(q, "no")
                                        ELSE IF Removed(ItemAt(Pred(q))) THEN f[Pred(q)]
                                        ELSE Outcome(Pred(q), "yes")]
           walk == CHOOSE f : f = body(f)
<1>1. NextPoint(Places, key, end, step)
  BY PredPoint
<1>2. key \in [Places -> Int] /\ IsFiniteSet(Places)
  BY PlaceFacts, PlacesFinite
<1>3. \A q \in Places \ end : step[q] \in Places /\ step[q] = Pred(q)
  BY <1>1 DEF NextPoint
<1>4. ASSUME NEW f PROVE f = body(f) <=> IsNextWalk(f, Places, end, step, skip)
  <2>1. body(f) = [q \in Places |-> IF q \in end THEN Outcome(q, "no")
                                    ELSE IF step[q] \in skip THEN f[step[q]]
                                    ELSE Outcome(step[q], "yes")]
    BY <1>3
  <2> QED
    BY <2>1 DEF IsNextWalk
<1>5. Backward(p) = walk[p]
  BY DEF Backward
<1> HIDE DEF body, end, step, skip, key
<1>6. IsNextWalk(walk, Places, end, step, skip)
  <2>1. \E f : IsNextWalk(f, Places, end, step, skip)
    BY <1>1, <1>2, NextWalk
  <2>2. \E f : f = body(f)
    BY <1>4, <2>1
  <2>3. walk = body(walk)
    BY <2>2
  <2> QED
    BY <1>4, <2>3
<1> HIDE DEF walk
<1>7. EndsRight(Places, key, skip, p, walk[p])
  BY <1>1, <1>2, <1>6, NextWalk
<1> QED
  BY <1>5, <1>7 DEF key, skip

-----------------------------------------------------------------------------
(* What the moves find, in the keys that are live                          *)

\* A move ends at the item with the least or the greatest key of a set of live
\* keys, and says no when that is empty.
ToLeast(o, S) ==
  IF S = {} THEN o.moved = "no"
  ELSE o.moved = "yes" /\ o.to \in Places /\ KeyAt(o.to) \in S /\ \A l \in S : KeyAt(o.to) <= l
ToGreatest(o, S) ==
  IF S = {} THEN o.moved = "no"
  ELSE o.moved = "yes" /\ o.to \in Places /\ KeyAt(o.to) \in S /\ \A l \in S : KeyAt(o.to) >= l

LEMMA LiveFacts ==
  ASSUME Inv, Ordered
  PROVE  /\ \A x \in Places : KeyAt(x) \in LiveKeys <=> ~ Removed(ItemAt(x))
         /\ \A l \in LiveKeys : /\ l \in Key /\ l \in Int
                                /\ \E x \in Places : ~ Removed(ItemAt(x)) /\ KeyAt(x) = l
<1>1. ASSUME NEW x \in Places PROVE ItemAt(x) \in LeafItems
  BY PlaceFacts, ItemsOfLeaves DEF LeafItemsAre, ItemAt
<1>2. ItemsApart
  BY ApartFacts
<1>3. ASSUME NEW x \in Places PROVE KeyAt(x) \in LiveKeys <=> ~ Removed(ItemAt(x))
  BY <1>1, <1>2, PlaceFacts DEF LiveKeys, ItemsApart, KeyAt, Removed
<1>4. ASSUME NEW l \in LiveKeys
      PROVE  /\ l \in Key /\ l \in Int
             /\ \E x \in Places : ~ Removed(ItemAt(x)) /\ KeyAt(x) = l
  <2>1. PICK item \in LeafItems : item.key = l /\ item.flag = 1 /\ l \in Key
    BY DEF LiveKeys
  <2>2. PICK b \in Leaves : \E i \in 1 .. Len(node[b].kv) : item = node[b].kv[i]
    BY ItemsOfLeaves DEF LeafItemsAre
  <2>3. PICK i \in 1 .. Len(node[b].kv) : item = node[b].kv[i]
    BY <2>2
  <2>4. Place(b, i) \in Places /\ ItemAt(Place(b, i)) = item
    BY <2>3, PlaceFacts DEF ItemAt, Place
  <2> QED
    BY <2>1, <2>4, KeyAssumption DEF KeyAt, Removed
<1> QED
  BY <1>3, <1>4

LEMMA ForwardFacts ==
  ASSUME Inv, Ordered, NEW p \in Places
  PROVE  /\ Forward(p).to \in Places /\ Forward(p).moved \in {"yes", "no"}
         /\ ToLeast(Forward(p), {l \in LiveKeys : l > KeyAt(p)})
         /\ Forward(p).moved = "no" =>
              /\ KeyAt(Forward(p).to) >= KeyAt(p)
              /\ Forward(p).to = p \/ KeyAt(Forward(p).to) \notin LiveKeys
<1> DEFINE o == Forward(p)
           key == [q \in Places |-> KeyAt(q)]
           skip == {q \in Places : Removed(ItemAt(q))}
<1>1. EndsRight(Places, key, skip, p, o)
  BY ForwardWalks
<1> HIDE DEF o
<1>2. /\ \A x \in Places : key[x] = KeyAt(x) /\ KeyAt(x) \in Int
      /\ \A x \in Places : x \in skip <=> KeyAt(x) \notin LiveKeys
      /\ \A l \in LiveKeys : \E x \in Places \ skip : KeyAt(x) = l
  BY PlaceFacts, LiveFacts
<1> HIDE DEF key, skip
<1>3. CASE o.moved = "yes"
  <2>1. /\ o.to \in Places /\ KeyAt(o.to) \in LiveKeys /\ KeyAt(o.to) > KeyAt(p)
        /\ \A l \in LiveKeys : l > KeyAt(p) => KeyAt(o.to) <= l
    BY <1>1, <1>2, <1>3 DEF EndsRight
  <2> QED
    BY <1>3, <2>1 DEF ToLeast, o
<1>4. CASE o.moved # "yes"
  <2>1. /\ o.to \in Places /\ o.moved = "no" /\ KeyAt(o.to) >= KeyAt(p)
        /\ o.to = p \/ KeyAt(o.to) \notin LiveKeys
        /\ \A l \in LiveKeys : l <= KeyAt(p)
    BY <1>1, <1>2, <1>4 DEF EndsRight
  <2>2. {l \in LiveKeys : l > KeyAt(p)} = {}
    BY <1>2, <2>1
  <2> QED
    BY <2>1, <2>2 DEF ToLeast, o
<1> QED
  BY <1>3, <1>4

LEMMA BackwardFacts ==
  ASSUME Inv, Ordered, NEW p \in Places
  PROVE  /\ Backward(p).to \in Places /\ Backward(p).moved \in {"yes", "no"}
         /\ ToGreatest(Backward(p), {l \in LiveKeys : l < KeyAt(p)})
         /\ Backward(p).moved = "no" =>
              /\ KeyAt(Backward(p).to) <= KeyAt(p)
              /\ Backward(p).to = p \/ KeyAt(Backward(p).to) \notin LiveKeys
<1> DEFINE o == Backward(p)
           key == [q \in Places |-> - KeyAt(q)]
           skip == {q \in Places : Removed(ItemAt(q))}
<1>1. EndsRight(Places, key, skip, p, o)
  BY BackwardWalks
<1> HIDE DEF o
<1>2. /\ \A x \in Places : key[x] = - KeyAt(x) /\ KeyAt(x) \in Int
      /\ \A x \in Places : x \in skip <=> KeyAt(x) \notin LiveKeys
      /\ \A l \in LiveKeys : \E x \in Places \ skip : KeyAt(x) = l
  BY PlaceFacts, LiveFacts
<1> HIDE DEF key, skip
<1>3. CASE o.moved = "yes"
  <2>1. /\ o.to \in Places /\ KeyAt(o.to) \in LiveKeys /\ KeyAt(o.to) < KeyAt(p)
        /\ \A l \in LiveKeys : l < KeyAt(p) => KeyAt(o.to) >= l
    BY <1>1, <1>2, <1>3 DEF EndsRight
  <2> QED
    BY <1>3, <2>1 DEF ToGreatest, o
<1>4. CASE o.moved # "yes"
  <2>1. /\ o.to \in Places /\ o.moved = "no" /\ KeyAt(o.to) <= KeyAt(p)
        /\ o.to = p \/ KeyAt(o.to) \notin LiveKeys
        /\ \A l \in LiveKeys : l >= KeyAt(p)
    BY <1>1, <1>2, <1>4 DEF EndsRight
  <2>2. {l \in LiveKeys : l < KeyAt(p)} = {}
    BY <1>2, <2>1
  <2> QED
    BY <2>1, <2>2 DEF ToGreatest, o
<1> QED
  BY <1>3, <1>4

\* An item found, or the nearest live one.
LEMMA FromFacts ==
  ASSUME Inv, Ordered, NEW p \in Places
  PROVE  /\ ToLeast(ForwardFrom(p), {l \in LiveKeys : l >= KeyAt(p)})
         /\ ForwardFrom(p).to \in Places /\ ForwardFrom(p).moved \in {"yes", "no"}
         /\ ToGreatest(BackwardFrom(p), {l \in LiveKeys : l <= KeyAt(p)})
         /\ BackwardFrom(p).to \in Places /\ BackwardFrom(p).moved \in {"yes", "no"}
<1>1. KeyAt(p) \in Int /\ \A l \in LiveKeys : l \in Int
  BY PlaceFacts, LiveFacts
<1>2. CASE Removed(ItemAt(p))
  <2>1. KeyAt(p) \notin LiveKeys
    BY <1>2, LiveFacts
  <2>2. /\ {l \in LiveKeys : l >= KeyAt(p)} = {l \in LiveKeys : l > KeyAt(p)}
        /\ {l \in LiveKeys : l <= KeyAt(p)} = {l \in LiveKeys : l < KeyAt(p)}
    BY <1>1, <2>1
  <2>3. ForwardFrom(p) = Forward(p) /\ BackwardFrom(p) = Backward(p)
    BY <1>2 DEF ForwardFrom, BackwardFrom
  <2> QED
    BY <2>2, <2>3, ForwardFacts, BackwardFacts
<1>3. CASE ~ Removed(ItemAt(p))
  <2>1. ForwardFrom(p) = Outcome(p, "yes") /\ BackwardFrom(p) = Outcome(p, "yes")
    BY <1>3 DEF ForwardFrom, BackwardFrom
  <2>2. KeyAt(p) \in LiveKeys
    BY <1>3, LiveFacts
  <2>3. ToLeast(Outcome(p, "yes"), {l \in LiveKeys : l >= KeyAt(p)})
    BY <1>1, <2>2 DEF ToLeast, Outcome
  <2>4. ToGreatest(Outcome(p, "yes"), {l \in LiveKeys : l <= KeyAt(p)})
    BY <1>1, <2>2 DEF ToGreatest, Outcome
  <2> QED
    BY <2>1, <2>3, <2>4 DEF Outcome
<1> QED
  BY <1>2, <1>3

\* Of places with keys from k on there is one with the least key, and one with
\* the greatest key of those below k.
LEMMA NearestPlace ==
  ASSUME Inv, Ordered, NEW k \in Int
  PROVE  /\ (\E x \in Places : KeyAt(x) >= k) =>
              \E s \in Places : /\ KeyAt(s) >= k
                                /\ \A x \in Places : KeyAt(x) >= k => KeyAt(x) >= KeyAt(s)
         /\ (\E x \in Places : KeyAt(x) < k) =>
              \E s \in Places : /\ KeyAt(s) < k
                                /\ \A x \in Places : KeyAt(x) < k => KeyAt(x) <= KeyAt(s)
<1>0. \A x \in Places : KeyAt(x) \in Int
  BY PlaceFacts
<1>1. ASSUME NEW x \in Places, KeyAt(x) >= k
      PROVE  \E s \in Places : /\ KeyAt(s) >= k
                               /\ \A y \in Places : KeyAt(y) >= k => KeyAt(y) >= KeyAt(s)
  <2> DEFINE T == {KeyAt(y) - k : y \in {z \in Places : KeyAt(z) >= k}}
  <2>1. T \subseteq Nat /\ KeyAt(x) - k \in T
    BY <1>0, <1>1
  <2>2. PICK t \in T : \A u \in T : t <= u
    <3> HIDE DEF T
    <3> QED
      BY <2>1, LeastElement
  <2>3. PICK s \in Places : KeyAt(s) >= k /\ t = KeyAt(s) - k
    OBVIOUS
  <2>4. ASSUME NEW y \in Places, KeyAt(y) >= k PROVE KeyAt(y) >= KeyAt(s)
    <3>1. KeyAt(y) - k \in T
      BY <2>4
    <3>2. t <= KeyAt(y) - k
      BY <2>2, <3>1
    <3> HIDE DEF T
    <3> QED
      BY <1>0, <2>3, <3>2
  <2> QED
    BY <2>3, <2>4
<1>2. ASSUME NEW x \in Places, KeyAt(x) < k
      PROVE  \E s \in Places : /\ KeyAt(s) < k
                               /\ \A y \in Places : KeyAt(y) < k => KeyAt(y) <= KeyAt(s)
  <2> DEFINE T == {k - KeyAt(y) : y \in {z \in Places : KeyAt(z) < k}}
  <2>1. T \subseteq Nat /\ k - KeyAt(x) \in T
    BY <1>0, <1>2
  <2>2. PICK t \in T : \A u \in T : t <= u
    <3> HIDE DEF T
    <3> QED
      BY <2>1, LeastElement
  <2>3. PICK s \in Places : KeyAt(s) < k /\ t = k - KeyAt(s)
    OBVIOUS
  <2>4. ASSUME NEW y \in Places, KeyAt(y) < k PROVE KeyAt(y) <= KeyAt(s)
    <3>1. k - KeyAt(y) \in T
      BY <2>4
    <3>2. t <= k - KeyAt(y)
      BY <2>2, <3>1
    <3> HIDE DEF T
    <3> QED
      BY <1>0, <2>3, <3>2
  <2> QED
    BY <2>3, <2>4
<1> QED
  BY <1>1, <1>2

\* getLeaf() and lub() find the item with the least key from k on, and end
\* behind the last item of all if every key is below k.
LEMMA SearchFacts ==
  ASSUME Inv, Ordered, NEW k \in Key, NEW b, b = GetLeaf(k), NEW i, i = Lub(node[b].kv, k)
  PROVE  /\ b \in Leaves /\ Len(node[b].kv) \in Nat /\ i \in 1 .. Len(node[b].kv) + 1
         /\ i <= Len(node[b].kv) =>
              /\ Place(b, i) \in Places /\ KeyAt(Place(b, i)) >= k
              /\ \A x \in Places : KeyAt(x) >= k => KeyAt(x) >= KeyAt(Place(b, i))
         /\ i > Len(node[b].kv) =>
              /\ \A x \in Places : KeyAt(x) < k
              /\ Len(node[b].kv) > 0 =>
                   /\ LastOf(b) \in Places
                   /\ \A x \in Places : KeyAt(x) <= KeyAt(LastOf(b))
              /\ Len(node[b].kv) = 0 => Places = {}
<1> DEFINE kv == node[b].kv
<1>1. b \in Leaves /\ b \in DOMAIN node /\ kv \in Seq(Item) /\ Len(kv) \in Nat
  BY LeafReached, BlockFacts DEF Leaves, Inv
<1>2. /\ i \in 1 .. Len(kv) + 1
      /\ i = Len(kv) + 1 \/ kv[i].key >= k
      /\ \A j \in 1 .. i - 1 : kv[j].key < k
  BY <1>1, LubProperties
<1>3. k \in Int /\ \A x \in Places : KeyAt(x) \in Int
  BY PlaceFacts, KeyAssumption
<1>4. \A j \in 1 .. Len(kv) : /\ Place(b, j) \in Places /\ KeyAt(Place(b, j)) = kv[j].key
                              /\ kv[j].key \in Int
  BY <1>1, PlaceFacts, KeyFacts DEF KeyAt, ItemAt, Place
<1> HIDE DEF kv
<1>5. CASE \E x \in Places : KeyAt(x) >= k
  <2>1. PICK s \in Places : /\ KeyAt(s) >= k
                            /\ \A x \in Places : KeyAt(x) >= k => KeyAt(x) >= KeyAt(s)
    BY <1>3, <1>5, NearestPlace
  <2> DEFINE c == node[s.blk].last
  <2>2. ASSUME c # 0 PROVE MaxKey(node[c].kv) < k
    <3>1. s.blk \in DOMAIN node /\ s.blk \in Leaves /\ node[s.blk].kv[1].key <= KeyAt(s)
          /\ node[s.blk].kv[1].key \in Int
      BY LeafFacts
    <3>2. c \in DOMAIN node /\ node[c].next = s.blk /\ node[c].next # 0
      BY <2>2, <3>1, LastFacts
    <3> HIDE DEF c
    <3>3. c \in Leaves /\ node[c].kv # << >> /\ MaxKey(node[c].kv) < node[s.blk].kv[1].key
      BY <3>1, <3>2, NextFacts DEF Leaves
    <3>4. /\ Len(node[c].kv) \in 1 .. Len(node[c].kv)
          /\ MaxKey(node[c].kv) = node[c].kv[Len(node[c].kv)].key
      BY <3>2, <3>3, KeyFacts
    <3>5. LastOf(c) \in Places /\ KeyAt(LastOf(c)) = MaxKey(node[c].kv)
      BY <3>3, <3>4, PlaceFacts DEF KeyAt, ItemAt, Place, LastOf
    <3>6. KeyAt(LastOf(c)) < KeyAt(s)
      BY <1>3, <3>1, <3>3, <3>5
    <3> QED
      BY <1>3, <2>1, <3>5, <3>6
  <2>3. Covers(s.blk, k)
    BY <1>3, <2>1, <2>2, CoversDown
  <2>4. s.blk = b
    BY <2>3, PlaceFacts, CoverReached
  <2>5. s.idx \in 1 .. Len(kv) /\ kv[s.idx].key = KeyAt(s)
    BY <2>4, LeafFacts DEF kv
  <2>6. i <= s.idx
    BY <1>1, <1>2, <1>3, <2>1, <2>5
  <2>7. i \in 1 .. Len(kv)
    BY <1>1, <1>2, <2>5, <2>6
  <2>8. kv[i].key <= KeyAt(s)
    <3>1. i = s.idx \/ i < s.idx
      BY <1>1, <2>5, <2>6, <2>7
    <3>2. \A j, l \in 1 .. Len(kv) : j < l => kv[j].key < kv[l].key
      BY <1>1 DEF Ordered, KeysSorted, kv
    <3>3. kv[i].key = kv[s.idx].key \/ kv[i].key < kv[s.idx].key
      BY <2>5, <2>7, <3>1, <3>2
    <3> QED
      BY <1>3, <1>4, <2>5, <2>7, <3>3
  <2>9. Place(b, i) \in Places /\ KeyAt(Place(b, i)) = kv[i].key /\ kv[i].key >= k
    BY <1>1, <1>2, <1>4, <2>7
  <2>10. \A x \in Places : KeyAt(x) >= k => KeyAt(x) >= KeyAt(Place(b, i))
    BY <1>3, <2>1, <2>8, <2>9
  <2> QED
    BY <1>1, <1>2, <2>7, <2>9, <2>10 DEF kv
<1>6. CASE \A x \in Places : KeyAt(x) < k
  <2>1. i = Len(kv) + 1
    BY <1>1, <1>2, <1>3, <1>4, <1>6
  <2>2. ASSUME NEW x \in Places
        PROVE  Len(kv) > 0 /\ LastOf(b) \in Places /\ KeyAt(x) <= KeyAt(LastOf(b))
    <3>1. PICK s \in Places : KeyAt(s) < k /\ \A y \in Places : KeyAt(y) < k => KeyAt(y) <= KeyAt(s)
      BY <1>3, <1>6, NearestPlace
    <3> DEFINE c == node[s.blk].next
    <3>2. ASSUME c # 0 PROVE FALSE
      <4>1. s.blk \in DOMAIN node /\ s.blk \in Leaves /\ KeyAt(s) <= MaxKey(node[s.blk].kv)
            /\ MaxKey(node[s.blk].kv) \in Int
        BY LeafFacts
      <4>2. c \in DOMAIN node /\ c \in Leaves /\ node[c].kv # << >>
            /\ MaxKey(node[s.blk].kv) < node[c].kv[1].key
        BY <3>2, <4>1, NextFacts DEF Leaves
      <4> HIDE DEF c
      <4>3. 1 \in 1 .. Len(node[c].kv)
        BY <4>2, KeyFacts
      <4>4. Place(c, 1) \in Places /\ KeyAt(Place(c, 1)) = node[c].kv[1].key
        BY <4>2, <4>3, PlaceFacts DEF KeyAt, ItemAt, Place
      <4> QED
        BY <1>3, <1>6, <3>1, <4>1, <4>2, <4>4
    <3>3. Covers(s.blk, k)
      BY <1>3, <3>1, <3>2, CoversUp
    <3>4. s.blk = b
      BY <3>3, PlaceFacts, CoverReached
    <3>5. KeyAt(s) <= MaxKey(kv) /\ MaxKey(kv) = kv[Len(kv)].key /\ Len(kv) \in 1 .. Len(kv)
      BY <3>4, LeafFacts DEF kv
    <3>6. LastOf(b) = Place(b, Len(kv))
      BY DEF LastOf, kv
    <3>7. LastOf(b) \in Places /\ KeyAt(LastOf(b)) = MaxKey(kv)
      BY <1>4, <3>5, <3>6
    <3>8. KeyAt(x) <= KeyAt(s)
      BY <1>6, <3>1
    <3> QED
      BY <1>1, <1>3, <3>5, <3>7, <3>8
  <2>3. Len(kv) > 0 => LastOf(b) \in Places
    BY <1>1, <1>4 DEF LastOf, kv
  <2>4. Len(kv) = 0 => Places = {}
    BY <2>2
  <2> QED
    BY <1>1, <1>2, <1>6, <2>1, <2>2, <2>3, <2>4 DEF kv
<1> QED
  BY <1>3, <1>5, <1>6

-----------------------------------------------------------------------------
(* The calls that place the iterator                                       *)

Positions == [blk : DOMAIN node \cup {0}, idx : 0 .. LeafSize]

LEMMA PlacesTyped == Inv => Places \subseteq Positions
BY DEF Places, Positions, Leaves

\* Where locate() goes for each flag.
Finds(o, k, flag) ==
  CASE flag = "EXACT_KEY"   -> ToLeast(o, LiveKeys \cap {k})
    [] flag = "KEY_OR_NEXT" -> ToLeast(o, {l \in LiveKeys : l >= k})
    [] flag = "KEY_OR_PREV" -> ToGreatest(o, {l \in LiveKeys : l <= k})
    [] flag = "AFTER_KEY"   -> ToLeast(o, {l \in LiveKeys : l > k})
    [] flag = "BEFORE_KEY"  -> ToGreatest(o, {l \in LiveKeys : l < k})

\* The leaf has an item with a key that is not below k: no place lies between.
LEMMA LocateAtFacts ==
  ASSUME Inv, Ordered, NEW k \in Key, NEW flag \in IterFlag, NEW p \in Places, KeyAt(p) >= k,
         \A x \in Places : KeyAt(x) >= k => KeyAt(x) >= KeyAt(p)
  PROVE  LET o == LocateAt(p, KeyAt(p) = k, flag)
         IN  Finds(o, k, flag) /\ o.to \in Places /\ o.moved \in {"yes", "no"}
<1> DEFINE o == LocateAt(p, KeyAt(p) = k, flag)
<1>1. /\ k \in Int /\ KeyAt(p) \in Int
      /\ \A l \in LiveKeys : l \in Int /\ (l >= k => l >= KeyAt(p))
  BY PlaceFacts, LiveFacts, KeyAssumption
<1>2. CASE flag = "EXACT_KEY"
  <2>1. o = Outcome(p, IF KeyAt(p) = k /\ ~ Removed(ItemAt(p)) THEN "yes" ELSE "no")
    BY <1>2 DEF LocateAt
  <2>2. k \in LiveKeys <=> KeyAt(p) = k /\ ~ Removed(ItemAt(p))
    <3>1. KeyAt(p) \in LiveKeys <=> ~ Removed(ItemAt(p))
      BY LiveFacts
    <3>2. k \in LiveKeys => k >= KeyAt(p)
      BY <1>1
    <3> QED
      BY <1>1, <3>1, <3>2
  <2>3. CASE k \in LiveKeys
    <3>1. o = Outcome(p, "yes") /\ KeyAt(p) = k /\ LiveKeys \cap {k} = {k}
      BY <2>1, <2>2, <2>3
    <3>2. ToLeast(Outcome(p, "yes"), {k})
      BY <1>1, <3>1 DEF ToLeast, Outcome
    <3> QED
      BY <1>2, <3>1, <3>2 DEF Finds, Outcome
  <2>4. CASE k \notin LiveKeys
    <3>1. o = Outcome(p, "no") /\ LiveKeys \cap {k} = {}
      BY <2>1, <2>2, <2>4
    <3>2. ToLeast(Outcome(p, "no"), {})
      BY DEF ToLeast, Outcome
    <3> QED
      BY <1>2, <3>1, <3>2 DEF Finds, Outcome
  <2> QED
    BY <2>3, <2>4
<1>3. CASE flag = "KEY_OR_NEXT"
  <2>1. o = ForwardFrom(p)
    BY <1>3 DEF LocateAt
  <2>2. {l \in LiveKeys : l >= k} = {l \in LiveKeys : l >= KeyAt(p)}
    BY <1>1
  <2> QED
    BY <1>3, <2>1, <2>2, FromFacts DEF Finds
<1>4. CASE flag = "KEY_OR_PREV"
  <2>1. CASE KeyAt(p) = k
    <3>1. o = BackwardFrom(p)
      BY <1>4, <2>1 DEF LocateAt
    <3> QED
      BY <1>4, <2>1, <3>1, FromFacts DEF Finds
  <2>2. CASE KeyAt(p) # k
    <3>1. o = Backward(p)
      BY <1>4, <2>2 DEF LocateAt
    <3>2. {l \in LiveKeys : l <= k} = {l \in LiveKeys : l < KeyAt(p)}
      BY <1>1, <2>2
    <3> QED
      BY <1>4, <3>1, <3>2, BackwardFacts DEF Finds
  <2> QED
    BY <2>1, <2>2
<1>5. CASE flag = "AFTER_KEY"
  <2>1. CASE KeyAt(p) = k
    <3>1. o = Forward(p)
      BY <1>5, <2>1 DEF LocateAt
    <3> QED
      BY <1>5, <2>1, <3>1, ForwardFacts DEF Finds
  <2>2. CASE KeyAt(p) # k
    <3>1. o = ForwardFrom(p)
      BY <1>5, <2>2 DEF LocateAt
    <3>2. {l \in LiveKeys : l > k} = {l \in LiveKeys : l >= KeyAt(p)}
      BY <1>1, <2>2
    <3> QED
      BY <1>5, <3>1, <3>2, FromFacts DEF Finds
  <2> QED
    BY <2>1, <2>2
<1>6. CASE flag = "BEFORE_KEY"
  <2>1. o = Backward(p)
    BY <1>6 DEF LocateAt
  <2>2. {l \in LiveKeys : l < k} = {l \in LiveKeys : l < KeyAt(p)}
    BY <1>1
  <2> QED
    BY <1>6, <2>1, <2>2, BackwardFacts DEF Finds
<1> QED
  BY <1>2, <1>3, <1>4, <1>5, <1>6 DEF IterFlag

\* Every key is below k: p is the last place of all.
LEMMA LocateLast ==
  ASSUME Inv, Ordered, NEW k \in Key, NEW p \in Places, \A x \in Places : KeyAt(x) < k,
         \A x \in Places : KeyAt(x) <= KeyAt(p)
  PROVE  /\ BackwardFrom(p).to \in Places /\ BackwardFrom(p).moved \in {"yes", "no"}
         /\ ToGreatest(BackwardFrom(p), {l \in LiveKeys : l <= k})
         /\ ToGreatest(BackwardFrom(p), {l \in LiveKeys : l < k})
<1>1. \A l \in LiveKeys : l <= KeyAt(p) /\ l < k /\ l \in Int
  BY LiveFacts
<1>2. k \in Int
  BY KeyAssumption
<1>3. /\ {l \in LiveKeys : l <= k} = {l \in LiveKeys : l <= KeyAt(p)}
      /\ {l \in LiveKeys : l < k} = {l \in LiveKeys : l <= KeyAt(p)}
  BY <1>1, <1>2
<1> QED
  BY <1>3, FromFacts

LEMMA LocatedFacts ==
  ASSUME Inv, Ordered, pc = "idle", NEW k \in Key, NEW flag \in IterFlag
  PROVE  LET o == Located(k, flag)
         IN  /\ Finds(o, k, flag) /\ o.to \in Positions /\ o.moved \in {"yes", "no"}
             /\ o.moved = "yes" => o.to \in Places
<1> DEFINE b == GetLeaf(k)
           i == Lub(node[b].kv, k)
           n == Len(node[b].kv)
           o == Located(k, flag)
<1>1. /\ b \in Leaves /\ n \in Nat /\ i \in 1 .. n + 1
      /\ i <= n => /\ Place(b, i) \in Places /\ KeyAt(Place(b, i)) >= k
                   /\ \A x \in Places : KeyAt(x) >= k => KeyAt(x) >= KeyAt(Place(b, i))
      /\ i > n => /\ \A x \in Places : KeyAt(x) < k
                  /\ n > 0 => LastOf(b) \in Places /\ \A x \in Places : KeyAt(x) <= KeyAt(LastOf(b))
                  /\ n = 0 => Places = {}
  BY SearchFacts
<1>2. CASE i <= n
  <2> DEFINE p == Place(b, i)
  <2>1. o = LocateAt(p, KeyAt(p) = k, flag)
    <3>1. ~ (i > n)
      BY <1>1, <1>2
    <3>2. KeyAt(p) = node[b].kv[i].key
      BY DEF KeyAt, ItemAt, Place
    <3>3. o = LocateAt(p, node[b].kv[i].key = k, flag)
      BY <3>1 DEF Located
    <3> QED
      BY <3>2, <3>3
  <2> HIDE DEF o, p
  <2>2. Finds(o, k, flag) /\ o.to \in Places /\ o.moved \in {"yes", "no"}
    BY <1>1, <1>2, <2>1, LocateAtFacts DEF p
  <2> QED
    BY <2>2, PlacesTyped DEF o
<1>3. CASE i > n
  <2>1. o = LocateBehind(Place(b, i), flag)
    BY <1>3 DEF Located
  <2>2. Place(b, i).blk = b
    BY DEF Place
  <2>3. \A l \in LiveKeys : l < k /\ l \in Int /\ k \in Int
    BY <1>1, <1>3, LiveFacts, KeyAssumption
  <2>4. CASE n > 0 /\ flag \in {"KEY_OR_PREV", "BEFORE_KEY"}
    <3>1. o = BackwardFrom(LastOf(b))
      BY <2>1, <2>2, <2>4 DEF LocateBehind
    <3> HIDE DEF o, b
    <3>2. /\ o.to \in Places /\ o.moved \in {"yes", "no"}
          /\ ToGreatest(o, {l \in LiveKeys : l <= k}) /\ ToGreatest(o, {l \in LiveKeys : l < k})
      BY <1>1, <1>3, <2>4, <3>1, LocateLast
    <3>3. Finds(o, k, flag)
      BY <2>4, <3>2 DEF Finds
    <3> QED
      BY <3>2, <3>3, PlacesTyped DEF o
  <2>5. CASE ~ (n > 0 /\ flag \in {"KEY_OR_PREV", "BEFORE_KEY"})
    <3>1. o = Outcome(Place(b, i), "no")
      BY <2>1, <2>2, <2>5 DEF LocateBehind
    <3>2. Place(b, i) \in Positions
      <4>1. b \in DOMAIN node /\ node[b].leaf /\ n # LeafSize /\ n <= LeafSize
        BY <1>1 DEF Leaves, Inv, NodesHaveRoom, Full, Size
      <4>2. i \in 0 .. LeafSize
        BY <1>1, <4>1, SizeAssumption
      <4> QED
        BY <4>1, <4>2 DEF Place, Positions
    <3>3. /\ LiveKeys \cap {k} = {} /\ {l \in LiveKeys : l >= k} = {} /\ {l \in LiveKeys : l > k} = {}
      BY <2>3
    <3>4. n = 0 => {l \in LiveKeys : l <= k} = {} /\ {l \in LiveKeys : l < k} = {}
      <4>1. n = 0 => LiveKeys = {}
        BY <1>1, <1>3, LiveFacts
      <4> QED
        BY <4>1
    <3>5. ToLeast(Outcome(Place(b, i), "no"), {}) /\ ToGreatest(Outcome(Place(b, i), "no"), {})
      BY DEF ToLeast, ToGreatest, Outcome
    <3> HIDE DEF o
    <3>6. Finds(o, k, flag)
      <4> HIDE DEF b, i
      <4>1. ~ (n > 0) => n = 0
        BY <1>1
      <4> HIDE DEF n
      <4> QED
        BY <2>5, <3>1, <3>3, <3>4, <3>5, <4>1 DEF Finds, IterFlag
    <3> QED
      BY <3>1, <3>2, <3>6 DEF Outcome, o
  <2> QED
    BY <2>4, <2>5
<1> QED
  BY <1>1, <1>2, <1>3

\* The walk to the first or to the last leaf, as getFirstLeaf() and getLastLeaf()
\* make it along the children that `child' names: it ends in a leaf that has
\* what the root has and every child takes over.
LEMMA Descent ==
  ASSUME Inv, Ordered, NEW child,
         \A b \in DOMAIN node : ~ node[b].leaf =>
           \E i \in 1 .. Len(node[b].kv) : child[b] = node[b].kv[i].val,
         NEW T, root \in T, \A b \in DOMAIN node : b \in T /\ ~ node[b].leaf => child[b] \in T
  PROVE  LET f == CHOOSE g : g = [b \in DOMAIN node |-> IF node[b].leaf THEN b ELSE g[child[b]]]
         IN  f[root] \in Leaves /\ f[root] \in T
<1> DEFINE P == DOMAIN node
           rank == [b \in P |-> node[b].level]
           base == [b \in P |-> b]
           n == node[root].level + 1
           body(g) == [b \in P |-> IF node[b].leaf THEN b ELSE g[child[b]]]
           f == CHOOSE g : g = body(g)
           U == {b \in P : b \in T => f[b] \in Leaves /\ f[b] \in T}
<1>1. n \in Nat /\ root \in P /\ \A b \in P : rank[b] \in Nat /\ rank[b] < n
  <2>1. /\ root \in P /\ node[root].level \in Nat
        /\ \A b \in P : node[b].level \in Nat /\ node[b].level <= node[root].level
    BY BlockFacts DEF Inv, TypeOK, Ordered, OneParent
  <2> QED
    BY <2>1
<1>2. StepsDown(P, rank, Leaves, child)
  <2>1. ASSUME NEW b \in P \ Leaves
        PROVE  child[b] \in P /\ rank[child[b]] < rank[b]
    <3>1. ~ node[b].leaf /\ node[b].level \in Nat
      BY BlockFacts DEF Leaves, Inv
    <3>2. PICK i \in 1 .. Len(node[b].kv) : child[b] = node[b].kv[i].val
      BY <3>1
    <3>3. child[b] \in DOMAIN node /\ node[child[b]].level + 1 = node[b].level
      BY <3>1, <3>2 DEF Inv, Balanced
    <3>4. node[child[b]].level \in Nat
      BY <3>3, BlockFacts DEF Inv
    <3> QED
      BY <3>1, <3>3, <3>4
  <2> QED
    BY <1>1, <2>1 DEF StepsDown
<1> HIDE DEF rank, n, base
<1>3. \E g : g = body(g)
  <2>1. PICK g : IsStepWalk(g, P, Leaves, base, child)
    BY <1>1, <1>2, StepWalkExists
  <2>2. g = body(g)
    BY <2>1 DEF IsStepWalk, Leaves, base
  <2> QED
    BY <2>2
<1>4. f = body(f)
  <2> HIDE DEF body
  <2> QED
    BY <1>3
<1> HIDE DEF f
<1>5. \A b \in P : (b \in Leaves \/ child[b] \in U) => b \in U
  BY <1>4 DEF Leaves
<1> HIDE DEF U, body
<1>6. P \subseteq U
  BY <1>2, <1>5, StepInduction
<1>7. f[root] \in Leaves /\ f[root] \in T
  BY <1>1, <1>6 DEF U
<1> QED
  BY <1>7 DEF f, body

\* The first leaf has no leaf before it and the last one none behind it.
LEMMA EndLeaves ==
  ASSUME Inv, Ordered
  PROVE  /\ FirstLeaf \in Leaves /\ node[FirstLeaf].last = 0
         /\ LastLeaf \in Leaves /\ node[LastLeaf].next = 0
<1>1. \A b \in DOMAIN node : ~ node[b].leaf =>
        /\ Len(node[b].kv) \in Nat /\ 1 \in 1 .. Len(node[b].kv)
        /\ Len(node[b].kv) \in 1 .. Len(node[b].kv)
        /\ Last(node[b].kv) = node[b].kv[Len(node[b].kv)]
  <2> SUFFICES ASSUME NEW b \in DOMAIN node, ~ node[b].leaf
               PROVE  /\ Len(node[b].kv) \in Nat /\ 1 \in 1 .. Len(node[b].kv)
                      /\ Len(node[b].kv) \in 1 .. Len(node[b].kv)
                      /\ Last(node[b].kv) = node[b].kv[Len(node[b].kv)]
    OBVIOUS
  <2>1. Len(node[b].kv) \in Nat /\ Len(node[b].kv) >= 1
    BY KeyFacts
  <2> QED
    BY <2>1 DEF Last
<1>2. FirstLeaf \in Leaves /\ node[FirstLeaf].last = 0
  <2> DEFINE T == {b \in DOMAIN node : node[b].last = 0}
             child == [b \in DOMAIN node |-> node[b].kv[1].val]
             f == CHOOSE g : g = [b \in DOMAIN node |-> IF node[b].leaf THEN b ELSE g[child[b]]]
  <2>1. root \in T
    BY DEF Inv, TypeOK, SiblingsLinked
  <2>2. ASSUME NEW b \in T, ~ node[b].leaf PROVE child[b] \in T
    <3> DEFINE c == node[b].kv[1].val
               d == node[c].last
    <3>1. c \in DOMAIN node /\ c # 0 /\ node[c].level + 1 = node[b].level /\ child[b] = c
      BY <1>1, <2>2, SonFacts
    <3>2. ASSUME d # 0 PROVE FALSE
      <4>1. d \in DOMAIN node /\ node[d].next = c
        BY <3>1, <3>2, LastFacts
      <4>2. d # root
        BY <3>1, <4>1 DEF Inv, SiblingsLinked
      <4>3. PICK p \in DOMAIN node : ~ node[p].leaf /\ \E i \in 1 .. Len(node[p].kv) : node[p].kv[i].val = d
        BY <4>1, <4>2 DEF Ordered, OneParent
      <4>4. PICK i \in 1 .. Len(node[p].kv) : node[p].kv[i].val = d
        BY <4>3
      <4> HIDE DEF d
      <4>5. c = IF i < Len(node[p].kv) THEN node[p].kv[i + 1].val
                ELSE IF node[p].next = 0 THEN 0 ELSE node[node[p].next].kv[1].val
        BY <4>1, <4>3, <4>4, SonFacts
      <4>6. CASE i < Len(node[p].kv)
        <5>1. i + 1 \in 1 .. Len(node[p].kv) /\ node[p].kv[i + 1].val = node[b].kv[1].val
          BY <1>1, <4>3, <4>5, <4>6
        <5>2. i + 1 = 1
          BY <1>1, <2>2, <4>3, <5>1, OneSlot
        <5> QED
          BY <4>4, <5>2
      <4>7. CASE ~ (i < Len(node[p].kv))
        <5> DEFINE e == node[p].next
        <5>1. e # 0 /\ c = node[e].kv[1].val
          BY <3>1, <4>5, <4>7
        <5>2. e \in DOMAIN node /\ node[e].last = p /\ ~ node[e].leaf
          BY <4>3, <5>1, NextFacts
        <5> HIDE DEF e
        <5>3. e = b
          BY <1>1, <2>2, <5>1, <5>2, OneSlot
        <5>4. p # 0
          BY BlockFacts DEF Inv
        <5> QED
          BY <5>2, <5>3, <5>4
      <4> QED
        BY <4>6, <4>7
    <3> QED
      BY <3>1, <3>2
  <2>3. \A b \in DOMAIN node : ~ node[b].leaf =>
          \E i \in 1 .. Len(node[b].kv) : child[b] = node[b].kv[i].val
    BY <1>1
  <2>4. FirstLeaf = f[root]
    <3>1. \A g : [b \in DOMAIN node |-> IF node[b].leaf THEN b ELSE g[child[b]]]
                = [b \in DOMAIN node |-> IF node[b].leaf THEN b ELSE g[node[b].kv[1].val]]
      OBVIOUS
    <3> QED
      BY <3>1 DEF FirstLeaf
  <2> HIDE DEF T, child
  <2>5. f[root] \in Leaves /\ f[root] \in T
    BY <2>1, <2>2, <2>3, Descent
  <2> QED
    BY <2>4, <2>5 DEF T
<1>3. LastLeaf \in Leaves /\ node[LastLeaf].next = 0
  <2> DEFINE T == {b \in DOMAIN node : node[b].next = 0}
             child == [b \in DOMAIN node |-> Last(node[b].kv).val]
             f == CHOOSE g : g = [b \in DOMAIN node |-> IF node[b].leaf THEN b ELSE g[child[b]]]
  <2>1. root \in T
    BY DEF Inv, TypeOK, SiblingsLinked
  <2>2. ASSUME NEW b \in T, ~ node[b].leaf PROVE child[b] \in T
    <3> DEFINE c == node[b].kv[Len(node[b].kv)].val
    <3>1. c \in DOMAIN node /\ node[c].next = 0 /\ child[b] = c
      BY <1>1, <2>2, SonFacts
    <3> QED
      BY <3>1
  <2>3. \A b \in DOMAIN node : ~ node[b].leaf =>
          \E i \in 1 .. Len(node[b].kv) : child[b] = node[b].kv[i].val
    BY <1>1
  <2>4. LastLeaf = f[root]
    <3>1. \A g : [b \in DOMAIN node |-> IF node[b].leaf THEN b ELSE g[child[b]]]
                = [b \in DOMAIN node |-> IF node[b].leaf THEN b ELSE g[Last(node[b].kv).val]]
      OBVIOUS
    <3> QED
      BY <3>1 DEF LastLeaf
  <2> HIDE DEF T, child
  <2>5. f[root] \in Leaves /\ f[root] \in T
    BY <2>1, <2>2, <2>3, Descent
  <2> QED
    BY <2>4, <2>5 DEF T
<1> QED
  BY <1>2, <1>3

\* An empty leaf is the whole tree.
LEMMA EmptyTree ==
  ASSUME Inv, Ordered, NEW b \in Leaves, node[b].kv = << >>
  PROVE  Places = {} /\ LiveKeys = {}
<1>1. Places = {}
  <2> SUFFICES ASSUME NEW p \in Places PROVE FALSE
    OBVIOUS
  <2>1. b = root /\ node[root].leaf
    BY DEF Leaves, Inv, NodesHaveRoom
  <2>2. p.blk \in DOMAIN node /\ p.blk \in Leaves /\ node[p.blk].kv # << >>
    BY LeafFacts
  <2>3. PICK q \in DOMAIN node : ~ node[q].leaf /\ \E i \in 1 .. Len(node[q].kv) : node[q].kv[i].val = p.blk
    BY <2>1, <2>2 DEF Ordered, OneParent
  <2>4. node[p.blk].level + 1 = node[q].level
    BY <2>3 DEF Inv, Balanced
  <2>5. node[root].level = 0 /\ node[q].level <= node[root].level
    BY <2>1, <2>3 DEF Inv, TypeOK, Balanced, Ordered, OneParent
  <2>6. node[p.blk].level \in Nat
    BY <2>2, BlockFacts DEF Inv
  <2> QED
    BY <2>4, <2>5, <2>6
<1> QED
  BY <1>1, LiveFacts

\* What first() and last() return.
FirstMove == IF node[FirstLeaf].kv = << >> THEN Outcome(Place(FirstLeaf, it.idx), "no")
             ELSE ForwardFrom(Place(FirstLeaf, 1))
LastMove == IF node[LastLeaf].kv = << >> THEN Outcome(Place(LastLeaf, it.idx), "no")
            ELSE BackwardFrom(LastOf(LastLeaf))

LEMMA EndFacts ==
  ASSUME Inv, Ordered, IterTypeOK
  PROVE  /\ ToLeast(FirstMove, LiveKeys) /\ ToGreatest(LastMove, LiveKeys)
         /\ \A o \in {FirstMove, LastMove} :
              /\ o.to \in Positions /\ o.moved \in {"yes", "no"}
              /\ o.moved = "yes" => o.to \in Places
<1> DEFINE b == FirstLeaf
           c == LastLeaf
<1>1. b \in Leaves /\ node[b].last = 0 /\ c \in Leaves /\ node[c].next = 0
  BY EndLeaves
<1> HIDE DEF b, c
<1>2. ASSUME NEW d \in Leaves, node[d].kv = << >>
      PROVE  LET o == Outcome(Place(d, it.idx), "no")
             IN  /\ ToLeast(o, LiveKeys) /\ ToGreatest(o, LiveKeys)
                 /\ o.to \in Positions /\ o.moved = "no"
  <2>1. LiveKeys = {}
    BY <1>2, EmptyTree
  <2>2. Place(d, it.idx) \in Positions
    BY DEF Place, Positions, IterTypeOK, Leaves
  <2> QED
    BY <2>1, <2>2 DEF ToLeast, ToGreatest, Outcome
<1>3. ASSUME NEW d \in Leaves, node[d].kv # << >>
      PROVE  /\ Place(d, 1) \in Places /\ LastOf(d) \in Places
             /\ LastOf(d).idx = Len(node[d].kv) /\ LastOf(d).blk = d
             /\ Place(d, 1).idx = 1 /\ Place(d, 1).blk = d
  <2>1. Len(node[d].kv) \in Nat /\ Len(node[d].kv) >= 1
    BY <1>3, KeyFacts DEF Leaves
  <2> QED
    BY <2>1, PlaceFacts DEF Place, LastOf
<1>4. ASSUME node[b].kv # << >>
      PROVE  ToLeast(ForwardFrom(Place(b, 1)), LiveKeys)
  <2> DEFINE p == Place(b, 1)
  <2>1. p \in Places /\ AtStart(p)
    BY <1>1, <1>3, <1>4 DEF AtStart
  <2> HIDE DEF p
  <2>2. \A x \in Places : - KeyAt(x) <= - KeyAt(p)
    BY <2>1, PredPoint DEF NextPoint
  <2>3. \A l \in LiveKeys : l >= KeyAt(p)
    BY <2>1, <2>2, LiveFacts, PlaceFacts
  <2>4. {l \in LiveKeys : l >= KeyAt(p)} = LiveKeys
    BY <2>3
  <2> QED
    BY <2>1, <2>4, FromFacts DEF p
<1>5. ASSUME node[c].kv # << >>
      PROVE  ToGreatest(BackwardFrom(LastOf(c)), LiveKeys)
  <2> DEFINE p == LastOf(c)
  <2>1. p \in Places /\ AtEnd(p)
    BY <1>1, <1>3, <1>5 DEF AtEnd
  <2> HIDE DEF p
  <2>2. \A x \in Places : KeyAt(x) <= KeyAt(p)
    BY <2>1, SuccPoint DEF NextPoint
  <2>3. \A l \in LiveKeys : l <= KeyAt(p)
    BY <2>1, <2>2, LiveFacts, PlaceFacts
  <2>4. {l \in LiveKeys : l <= KeyAt(p)} = LiveKeys
    BY <2>3
  <2> QED
    BY <2>1, <2>4, FromFacts DEF p
<1>6. /\ ToLeast(FirstMove, LiveKeys)
      /\ FirstMove.to \in Positions /\ FirstMove.moved \in {"yes", "no"}
      /\ FirstMove.moved = "yes" => FirstMove.to \in Places
  <2>1. CASE node[b].kv = << >>
    <3>1. FirstMove = Outcome(Place(b, it.idx), "no")
      BY <2>1 DEF FirstMove, b
    <3> QED
      BY <1>1, <1>2, <2>1, <3>1
  <2>2. CASE node[b].kv # << >>
    <3>1. FirstMove = ForwardFrom(Place(b, 1))
      BY <2>2 DEF FirstMove, b
    <3> QED
      BY <1>1, <1>3, <1>4, <2>2, <3>1, FromFacts, PlacesTyped
  <2> QED
    BY <2>1, <2>2
<1>7. /\ ToGreatest(LastMove, LiveKeys)
      /\ LastMove.to \in Positions /\ LastMove.moved \in {"yes", "no"}
      /\ LastMove.moved = "yes" => LastMove.to \in Places
  <2>1. CASE node[c].kv = << >>
    <3>1. LastMove = Outcome(Place(c, it.idx), "no")
      BY <2>1 DEF LastMove, c
    <3> QED
      BY <1>1, <1>2, <2>1, <3>1
  <2>2. CASE node[c].kv # << >>
    <3>1. LastMove = BackwardFrom(LastOf(c))
      BY <2>2 DEF LastMove, c
    <3> QED
      BY <1>1, <1>3, <1>5, <2>2, <3>1, FromFacts, PlacesTyped
  <2> QED
    BY <2>1, <2>2
<1> QED
  BY <1>6, <1>7

-----------------------------------------------------------------------------
(* The tree under an iterator                                              *)

\* Every leaf keeps its items, as far as their keys go.
LeavesKept ==
  \A b \in Leaves : /\ b \in Leaves' /\ Len(node'[b].kv) = Len(node[b].kv)
                    /\ \A i \in 1 .. Len(node[b].kv) : node'[b].kv[i].key = node[b].kv[i].key

\* Where an iterator is placed, the put() that is on its way up stored no new
\* key, so it splits nothing.
NothingToSplit == placed = "yes" /\ pc = "up" => ~ Full(node[cur])

LEMMA SameNodes == node' = node => LeavesKept
BY DEF LeavesKept, Leaves

LEMMA ReviveKeeps ==
  ASSUME Inv, Ordered, ItemsStored, LeafRevive
  PROVE  LeavesKept /\ ~ Full(node'[cur'])
<1> DEFINE s == node[cur].kv
           i == LeafIndex
           item == [s[i] EXCEPT !.val = arg[2], !.flag = 1]
           kv == [s EXCEPT ![i] = item]
<1>1. /\ AtLeaf /\ KeyFound /\ cur' = cur
      /\ node' = [node EXCEPT ![cur].kv[i] = item]
  BY DEF LeafRevive
<1>2. cur \in Leaves /\ s \in Seq(Item) /\ i \in 1 .. Len(s)
  BY <1>1, PutLookup
<1>3. item.key = s[i].key
  <2>1. s[i] \in Item
    BY <1>2, ElementOfSeq
  <2> QED
    BY <2>1 DEF Item
<1> HIDE DEF item, i
<1>4. Len(kv) = Len(s) /\ \A j \in 1 .. Len(s) : kv[j].key = s[j].key
  BY <1>2, <1>3
<1> HIDE DEF kv
<1>5. node' = [node EXCEPT ![cur] = [node[cur] EXCEPT !.kv = kv]]
  BY <1>1 DEF kv
<1>6. cur \in DOMAIN node /\ node[cur] \in NodeBlock
  BY <1>2, BlockFacts DEF Inv, Leaves
<1>7. /\ DOMAIN node' = DOMAIN node
      /\ \A c \in DOMAIN node \ {cur} : node'[c] = node[c]
      /\ node'[cur].kv = kv /\ node'[cur].leaf = node[cur].leaf
  BY <1>5, <1>6 DEF Inv, TypeOK, NodeBlock
<1>8. ~ Full(node[cur])
  BY <1>1, <1>6 DEF Inv, NodesHaveRoom, AtLeaf
<1>9. ~ Full(node'[cur'])
  BY <1>1, <1>4, <1>7, <1>8 DEF Full, Size
<1>10. LeavesKept
  BY <1>4, <1>7 DEF LeavesKept, Leaves
<1> QED
  BY <1>9, <1>10

LEMMA AscendKeeps ==
  ASSUME Inv, Ordered, AscendKeep
  PROVE  LeavesKept /\ ~ Full(node'[cur'])
<1> DEFINE p == Parent.blk
           mid == UpdatedKeys(node[p], Parent, node[cur])
<1>1. /\ pc = "up" /\ stack # << >> /\ ~ Full(node[cur]) /\ cur' = p
      /\ node' = [node EXCEPT ![p] = [node[p] EXCEPT !.kv = mid]]
  BY DEF AscendKeep
<1>2. p \in DOMAIN node /\ ~ node[p].leaf /\ node[p] \in NodeBlock
  BY <1>1, PathFacts, BlockFacts DEF Inv
<1>3. Len(mid) = Len(node[p].kv)
  BY <1>1, UpdatedKeysFacts
<1> HIDE DEF mid, p
<1>4. /\ DOMAIN node' = DOMAIN node
      /\ \A b \in DOMAIN node : /\ node'[b].leaf = node[b].leaf
                                /\ node[b].leaf => node'[b].kv = node[b].kv
      /\ node'[p].kv = mid
  BY <1>1, <1>2 DEF Inv, TypeOK, NodeBlock
<1>5. ~ Full(node[p])
  BY <1>1, <1>2 DEF Inv, NodesHaveRoom
<1>6. ~ Full(node'[cur'])
  BY <1>1, <1>2, <1>3, <1>4, <1>5 DEF Full, Size
<1>7. LeavesKept
  BY <1>4 DEF LeavesKept, Leaves
<1> QED
  BY <1>6, <1>7

LEMMA RemoveKeeps ==
  ASSUME Inv, Ordered, NEW b \in Leaves, NEW i \in 1 .. Len(node[b].kv), RemoveByFlag(b, i)
  PROVE  LeavesKept
<1> DEFINE s == node[b].kv
           item == [s[i] EXCEPT !.flag = 0]
           kv == [s EXCEPT ![i] = item]
<1>1. node' = [node EXCEPT ![b].kv[i] = item]
  BY DEF RemoveByFlag
<1>2. s \in Seq(Item) /\ b \in DOMAIN node /\ node[b] \in NodeBlock
  BY BlockFacts DEF Inv, Leaves
<1>3. item.key = s[i].key
  <2>1. s[i] \in Item
    BY <1>2, ElementOfSeq
  <2> QED
    BY <2>1 DEF Item
<1> HIDE DEF item
<1>4. Len(kv) = Len(s) /\ \A j \in 1 .. Len(s) : kv[j].key = s[j].key
  BY <1>2, <1>3
<1> HIDE DEF kv
<1>5. node' = [node EXCEPT ![b] = [node[b] EXCEPT !.kv = kv]]
  BY <1>1, <1>2 DEF kv
<1>6. /\ DOMAIN node' = DOMAIN node
      /\ \A c \in DOMAIN node \ {b} : node'[c] = node[c]
      /\ node'[b].kv = kv /\ node'[b].leaf = node[b].leaf
  BY <1>2, <1>5 DEF Inv, TypeOK, NodeBlock
<1> QED
  BY <1>4, <1>6 DEF LeavesKept, Leaves

\* While an iterator stays placed, no step of the tree moves an item.
LEMMA TreeKeeps ==
  ASSUME Inv, Ordered, ItemsStored, NothingToSplit, placed = "yes", [Next]_vars, ~ LeafInsert
  PROVE  LeavesKept /\ (pc' = "up" => ~ Full(node'[cur']))
<1> DEFINE Goal == LeavesKept /\ (pc' = "up" => ~ Full(node'[cur']))
<1>1. ASSUME NEW k \in Key, NEW v \in Val, PutCall(k, v) PROVE Goal
  BY <1>1, SameNodes DEF PutCall
<1>2. ASSUME Descend PROVE Goal
  BY <1>2, SameNodes DEF Descend
<1>3. ASSUME LeafDuplicate PROVE Goal
  BY <1>3, SameNodes DEF LeafDuplicate, Return
<1>4. ASSUME LeafValueError PROVE Goal
  BY <1>4, SameNodes DEF LeafValueError, Return
<1>5. ASSUME LeafRevive PROVE Goal
  BY <1>5, ReviveKeeps
<1>6. ASSUME AscendKeep PROVE Goal
  BY <1>6, AscendKeeps
<1>7. ASSUME AscendSplit PROVE Goal
  BY <1>7 DEF AscendSplit, NothingToSplit
<1>8. ASSUME PutReturn PROVE Goal
  BY <1>8, SameNodes DEF PutReturn, Return
<1>9. ASSUME PutSplitRoot PROVE Goal
  <2>1. root = cur
    BY <1>9 DEF PutSplitRoot, Inv, FramesFormPath
  <2> QED
    BY <1>9, <2>1 DEF PutSplitRoot, NothingToSplit
<1>10. ASSUME NEW b \in Leaves, NEW i \in 1 .. Len(node[b].kv), RemoveByFlag(b, i) PROVE Goal
  <2>1. pc' = "idle"
    BY <1>10 DEF RemoveByFlag, call
  <2> QED
    BY <1>10, <2>1, RemoveKeeps
<1>11. ASSUME UNCHANGED vars PROVE Goal
  BY <1>11, SameNodes DEF vars, call, NothingToSplit
<1> HIDE DEF Goal
<1>12. ASSUME PutStep PROVE Goal
  BY <1>12, <1>2, <1>3, <1>4, <1>5, <1>6, <1>7, <1>8, <1>9 DEF PutStep
<1>13. ASSUME \E k \in Key, v \in Val : PutCall(k, v) PROVE Goal
  BY <1>13, <1>1
<1>14. ASSUME \E b \in Leaves : \E i \in 1 .. Len(node[b].kv) : RemoveByFlag(b, i) PROVE Goal
  BY <1>14, <1>10
<1>15. Goal
  BY <1>11, <1>12, <1>13, <1>14 DEF Next
<1> QED
  BY <1>15 DEF Goal

-----------------------------------------------------------------------------
(* The invariant of a tree with an iterator                                *)

IterInv == /\ Inv /\ Ordered /\ ItemsStored /\ Asked
           /\ IterTypeOK /\ CursorOnItem /\ NothingToSplit

\* The item that a placed iterator stands on is one the loops walk over.
LEMMA OnPlace ==
  ASSUME Inv, IterTypeOK
  PROVE  CursorOnItem <=> (placed = "yes" => it \in Places)
<1>1. ASSUME CursorOnItem, placed = "yes" PROVE it \in Places
  <2>1. it \in [blk : DOMAIN node \cup {0}, idx : 0 .. LeafSize]
    BY DEF IterTypeOK
  <2>2. it.blk \in Leaves /\ it.idx \in 1 .. Len(node[it.blk].kv)
    BY <1>1 DEF CursorOnItem
  <2>3. Len(node[it.blk].kv) \in Nat
    BY <2>2, BlockFacts DEF Inv, Leaves
  <2>4. it.idx \in 1 .. LeafSize /\ it.idx <= Len(node[it.blk].kv)
    BY <2>1, <2>2, <2>3, SizeAssumption
  <2> QED
    BY <2>1, <2>2, <2>4 DEF Places
<1>2. ASSUME placed = "yes" => it \in Places PROVE CursorOnItem
  <2> SUFFICES ASSUME placed = "yes"
               PROVE  it.blk \in Leaves /\ it.idx \in 1 .. Len(node[it.blk].kv)
    BY DEF CursorOnItem
  <2>1. it.blk \in Leaves /\ it.idx \in 1 .. LeafSize /\ it.idx <= Len(node[it.blk].kv)
    BY <1>2 DEF Places
  <2>2. Len(node[it.blk].kv) \in Nat
    BY <1>2, <2>1, BlockFacts DEF Inv, Leaves
  <2> QED
    BY <2>1, <2>2
<1> QED
  BY <1>1, <1>2

LEMMA IterInitInv == IterInit => IterInv
<1> SUFFICES ASSUME IterInit PROVE IterInv
  OBVIOUS
<1>1. Init /\ Asked /\ it = Place(0, 0) /\ moved = "none" /\ placed = "no"
  BY InitAsked DEF IterInit
<1>2. Inv /\ Ordered /\ ItemsStored
  BY <1>1, InitInv, InitOrdered, InitMap
<1>3. IterTypeOK
  BY <1>1, SizeAssumption DEF IterTypeOK, Place
<1> QED
  BY <1>1, <1>2, <1>3 DEF IterInv, CursorOnItem, NothingToSplit

\* A call of the iterator leaves the tree alone.
LEMMA CallKeepsTree ==
  ASSUME Inv, Ordered, ItemsStored, UNCHANGED vars
  PROVE  /\ Inv' /\ Ordered' /\ ItemsStored'
         /\ Places' = Places /\ Positions' = Positions /\ LiveKeys' = LiveKeys
<1>1. Inv' /\ Ordered' /\ ItemsStored'
  BY NextInv, NextOrdered, NextMap
<1>2. node' = node
  BY DEF vars
<1> QED
  BY <1>1, <1>2 DEF Places, Positions, LiveKeys, KeyAt, ItemAt, Leaves, LeafItems

LEMMA CallInv ==
  ASSUME IterInv, UNCHANGED vars, it' \in Positions, moved' \in {"yes", "no"},
         placed' \in {"yes", "failed"}, placed' = "yes" => it' \in Places, pc = "idle"
  PROVE  IterInv'
<1>1. Inv' /\ Ordered' /\ ItemsStored' /\ Asked' /\ node' = node /\ pc' = pc
  BY CallKeepsTree DEF IterInv, Asked, vars, call
<1>2. IterTypeOK'
  BY <1>1 DEF IterTypeOK, Positions
<1>3. CursorOnItem'
  <2>1. placed' = "yes" => it'.blk \in Leaves /\ it'.idx \in 1 .. LeafSize /\ it'.idx <= Len(node[it'.blk].kv)
    BY DEF Places
  <2>2. \A b \in Leaves : Len(node[b].kv) \in Nat
    BY BlockFacts DEF IterInv, Inv, Leaves
  <2>3. Leaves' = Leaves
    BY <1>1 DEF Leaves
  <2> QED
    BY <1>1, <2>1, <2>2, <2>3 DEF CursorOnItem
<1>4. NothingToSplit'
  BY <1>1 DEF NothingToSplit
<1> QED
  BY <1>1, <1>2, <1>3, <1>4 DEF IterInv

\* A step with an iterator is a step of the tree, or leaves the tree alone.
LEMMA IterNextTree == [IterNext]_allVars => [Next]_vars
BY CallNextIsNext DEF IterNext, allVars, callVars, Locate, First, LastItem, NextItem, Prev, Called,
  TreeStep

\* No step takes a block out of use.
LEMMA BlocksStay == [Next]_vars => DOMAIN node \subseteq DOMAIN node'
<1> DEFINE Goal == DOMAIN node \subseteq DOMAIN node'
<1>1. ASSUME NEW k \in Key, NEW v \in Val, PutCall(k, v) PROVE Goal
  BY <1>1 DEF PutCall
<1>2. ASSUME Descend \/ LeafDuplicate \/ LeafValueError \/ PutReturn PROVE Goal
  BY <1>2 DEF Descend, LeafDuplicate, LeafValueError, PutReturn
<1>3. ASSUME LeafRevive \/ LeafInsert \/ AscendKeep PROVE Goal
  BY <1>3 DEF LeafRevive, LeafInsert, AscendKeep
<1>4. ASSUME AscendSplit PROVE Goal
  <2>1. DOMAIN node' = DOMAIN node \cup {countOfBlock}
    BY <1>4 DEF AscendSplit
  <2> QED
    BY <2>1
<1>5. ASSUME PutSplitRoot PROVE Goal
  <2>1. DOMAIN node' = DOMAIN node \cup {countOfBlock, countOfBlock + 1}
    BY <1>5 DEF PutSplitRoot
  <2> QED
    BY <2>1
<1>6. ASSUME NEW b \in Leaves, NEW i \in 1 .. Len(node[b].kv), RemoveByFlag(b, i) PROVE Goal
  BY <1>6 DEF RemoveByFlag
<1>7. ASSUME UNCHANGED vars PROVE Goal
  BY <1>7 DEF vars
<1> HIDE DEF Goal
<1>8. ASSUME PutStep PROVE Goal
  BY <1>8, <1>2, <1>3, <1>4, <1>5 DEF PutStep
<1>9. [Next]_vars => Goal
  BY <1>1, <1>6, <1>7, <1>8 DEF Next
<1> QED
  BY <1>9 DEF Goal

\* Where the leaves keep their items, the place and the key of an item stay.
LEMMA PlaceKept ==
  ASSUME Inv, LeavesKept, NEW p \in Places
  PROVE  p \in Places' /\ KeyAt(p)' = KeyAt(p)
<1>1. /\ p.blk \in Leaves /\ p.idx \in 1 .. LeafSize /\ p.idx <= Len(node[p.blk].kv)
      /\ p = [blk |-> p.blk, idx |-> p.idx]
  BY DEF Places
<1>2. Len(node[p.blk].kv) \in Nat
  BY <1>1, BlockFacts DEF Inv, Leaves
<1>3. p.blk \in Leaves' /\ Len(node'[p.blk].kv) = Len(node[p.blk].kv)
  BY <1>1 DEF LeavesKept
<1>4. node'[p.blk].kv[p.idx].key = node[p.blk].kv[p.idx].key
  BY <1>1, <1>2 DEF LeavesKept
<1>5. p \in [blk : Leaves', idx : 1 .. LeafSize]
  BY <1>1, <1>3
<1>6. p \in Places'
  BY <1>1, <1>3, <1>5 DEF Places
<1> QED
  BY <1>4, <1>6 DEF KeyAt, ItemAt

\* A step of the tree under an iterator that stays placed.
LEMMA TreeUnder ==
  ASSUME IterInv, TreeStep, placed' = "yes"
  PROVE  /\ placed = "yes" /\ ~ LeafInsert /\ LeavesKept
         /\ it \in Places /\ it' = it /\ it \in Places' /\ KeyAt(it)' = KeyAt(it)
         /\ NothingToSplit'
<1>1. placed = "yes" /\ ~ LeafInsert /\ it' = it
  BY DEF TreeStep
<1>2. Inv /\ Ordered /\ ItemsStored /\ IterTypeOK /\ CursorOnItem /\ NothingToSplit /\ [Next]_vars
  BY CallNextIsNext DEF IterInv, TreeStep
<1>3. LeavesKept /\ (pc' = "up" => ~ Full(node'[cur']))
  BY <1>1, <1>2, TreeKeeps
<1>4. it \in Places
  BY <1>1, <1>2, OnPlace
<1>5. it \in Places' /\ KeyAt(it)' = KeyAt(it)
  <2>1. \A p \in Places : p \in Places' /\ node'[p.blk].kv[p.idx].key = node[p.blk].kv[p.idx].key
    BY <1>2, <1>3, PlaceKept DEF KeyAt, ItemAt
  <2> QED
    BY <1>1, <1>4, <2>1 DEF KeyAt, ItemAt
<1>6. NothingToSplit'
  <2>1. Full(node[cur])' <=> Full(node'[cur'])
    BY DEF Full, Size
  <2> QED
    BY <1>3, <2>1 DEF NothingToSplit
<1> QED
  BY <1>1, <1>3, <1>4, <1>5, <1>6

LEMMA TreeStepInv ==
  ASSUME IterInv, TreeStep
  PROVE  IterInv'
<1>1. Inv /\ Ordered /\ ItemsStored /\ Asked /\ IterTypeOK /\ CallNext /\ [Next]_vars
  BY CallNextIsNext DEF IterInv, TreeStep
<1>2. Inv' /\ Ordered' /\ ItemsStored' /\ Asked'
  BY <1>1, NextInv, NextOrdered, NextMap, CallNextMap
<1>3. IterTypeOK'
  <2>1. it' = it /\ moved' = moved /\ placed' \in {placed, "stale"} /\ DOMAIN node \subseteq DOMAIN node'
    BY <1>1, BlocksStay DEF TreeStep
  <2>2. it.blk \in DOMAIN node' \cup {0} /\ it.idx \in 0 .. LeafSize /\ it = [blk |-> it.blk, idx |-> it.idx]
    BY <1>1, <2>1 DEF IterTypeOK
  <2> QED
    BY <1>1, <2>1, <2>2 DEF IterTypeOK
<1>4. CursorOnItem' /\ NothingToSplit'
  <2>1. CASE placed' = "yes"
    <3>1. it' \in Places' /\ NothingToSplit'
      BY <2>1, TreeUnder
    <3>2. (Inv /\ IterTypeOK => (CursorOnItem <=> (placed = "yes" => it \in Places)))'
      BY OnPlace, PTL
    <3> QED
      BY <1>2, <1>3, <3>1, <3>2
  <2>2. CASE placed' # "yes"
    BY <2>2 DEF CursorOnItem, NothingToSplit
  <2> QED
    BY <2>1, <2>2
<1> QED
  BY <1>2, <1>3, <1>4 DEF IterInv

\* What each call of the iterator does to the invariant and where it goes.
LEMMA LocateStep ==
  ASSUME IterInv, NEW k \in Key, NEW flag \in IterFlag, Locate(k, flag)
  PROVE  /\ Finds(Located(k, flag), k, flag) /\ Reposition(Located(k, flag)) /\ IterInv'
         /\ Located(k, flag).moved \in {"yes", "no"}
<1> DEFINE o == Located(k, flag)
<1>1. pc = "idle" /\ UNCHANGED vars /\ Reposition(o)
  BY DEF Locate, Called
<1>2. /\ Finds(o, k, flag) /\ o.to \in Positions /\ o.moved \in {"yes", "no"}
      /\ o.moved = "yes" => o.to \in Places
  BY <1>1, LocatedFacts DEF IterInv
<1> HIDE DEF o
<1>3. IterInv'
  BY <1>1, <1>2, CallInv DEF Reposition
<1>4. Finds(Located(k, flag), k, flag) /\ Reposition(Located(k, flag))
  BY <1>1, <1>2 DEF o
<1> QED
  BY <1>1, <1>2, <1>3, <1>4 DEF o, Reposition

LEMMA EndStep ==
  ASSUME IterInv, First \/ LastItem
  PROVE  /\ IterInv'
         /\ First => Reposition(FirstMove) /\ ToLeast(FirstMove, LiveKeys)
         /\ LastItem => Reposition(LastMove) /\ ToGreatest(LastMove, LiveKeys)
         /\ FirstMove.moved \in {"yes", "no"} /\ LastMove.moved \in {"yes", "no"}
<1>1. /\ pc = "idle" /\ UNCHANGED vars
      /\ First => Reposition(FirstMove)
      /\ LastItem => Reposition(LastMove)
  BY DEF First, LastItem, Called, FirstMove, LastMove
<1>2. /\ ToLeast(FirstMove, LiveKeys) /\ ToGreatest(LastMove, LiveKeys)
      /\ \A o \in {FirstMove, LastMove} :
           /\ o.to \in Positions /\ o.moved \in {"yes", "no"}
           /\ o.moved = "yes" => o.to \in Places
  BY EndFacts DEF IterInv
<1>3. PICK o \in {FirstMove, LastMove} : Reposition(o)
  BY <1>1
<1>4. IterInv'
  BY <1>1, <1>2, <1>3, CallInv DEF Reposition
<1> QED
  BY <1>1, <1>2, <1>4

LEMMA MoveStep ==
  ASSUME IterInv, NextItem \/ Prev
  PROVE  /\ IterInv' /\ pc = "idle" /\ placed = "yes" /\ it \in Places
         /\ NextItem => MoveOn(Forward(it))
         /\ Prev => MoveOn(Backward(it))
<1>1. /\ pc = "idle" /\ placed = "yes" /\ UNCHANGED vars
      /\ NextItem => MoveOn(Forward(it))
      /\ Prev => MoveOn(Backward(it))
  BY DEF NextItem, Prev, Called
<1>2. Inv /\ Ordered /\ IterTypeOK /\ CursorOnItem /\ it \in Places
  BY <1>1, OnPlace DEF IterInv
<1>3. \E o \in {Forward(it), Backward(it)} : MoveOn(o)
  BY <1>1
<1>4. PICK o \in {Forward(it), Backward(it)} : MoveOn(o)
  BY <1>3
<1>5. o.to \in Places /\ o.moved \in {"yes", "no"}
  BY <1>2, <1>4, ForwardFacts, BackwardFacts
<1>6. o.to \in Positions
  BY <1>2, <1>5, PlacesTyped
<1>7. IterInv'
  BY <1>1, <1>4, <1>5, <1>6, CallInv DEF MoveOn
<1> QED
  BY <1>1, <1>2, <1>7

LEMMA IterNextInv == IterInv /\ [IterNext]_allVars => IterInv'
<1> SUFFICES ASSUME IterInv, [IterNext]_allVars PROVE IterInv'
  OBVIOUS
<1>1. ASSUME NEW k \in Key, NEW flag \in IterFlag, Locate(k, flag) PROVE IterInv'
  BY <1>1, LocateStep
<1>2. CASE UNCHANGED allVars
  <2>1. UNCHANGED vars /\ asked' = asked /\ UNCHANGED <<it, moved, placed>>
    BY <1>2 DEF allVars, callVars, itVars
  <2>2. Inv' /\ Ordered' /\ ItemsStored' /\ Asked' /\ node' = node /\ pc' = pc /\ cur' = cur
    BY <2>1, CallKeepsTree DEF IterInv, Asked, vars, call
  <2>3. IterTypeOK' /\ CursorOnItem' /\ NothingToSplit'
    BY <2>1, <2>2 DEF IterInv, IterTypeOK, CursorOnItem, NothingToSplit, Leaves, Full, Size
  <2> QED
    BY <2>2, <2>3 DEF IterInv
<1> QED
  BY <1>1, <1>2, EndStep, MoveStep, TreeStepInv DEF IterNext

LEMMA IterInvHolds == IterSpec => []IterInv
BY IterInitInv, IterNextInv, PTL DEF IterSpec

\* The variables of the iterator have their types.
THEOREM IterTypeCorrect == IterSpec => []IterTypeOK
<1>1. IterInv => IterTypeOK
  BY DEF IterInv
<1> QED
  BY <1>1, IterInvHolds, PTL

\* A placed iterator stands on an item until a new key is put.
THEOREM OnItemTheorem == IterSpec => []CursorOnItem
<1>1. IterInv => CursorOnItem
  BY DEF IterInv
<1> QED
  BY <1>1, IterInvHolds, PTL

KeepsKey == placed = "yes" /\ placed' = "yes" /\ it' = it =>
              /\ it.idx <= Len(node'[it.blk].kv)
              /\ node'[it.blk].kv[it.idx].key = ItemAt(it).key

LEMMA StepKeepsKey == IterInv /\ [IterNext]_allVars => KeepsKey
<1> SUFFICES ASSUME IterInv, [IterNext]_allVars, placed = "yes", placed' = "yes", it' = it
             PROVE  /\ it.idx <= Len(node'[it.blk].kv)
                    /\ node'[it.blk].kv[it.idx].key = ItemAt(it).key
  BY DEF KeepsKey
<1>1. it \in Places /\ Inv
  BY OnPlace DEF IterInv
<1>2. TreeStep \/ node' = node
  BY DEF IterNext, allVars, callVars, Locate, First, LastItem, NextItem, Prev, Called, vars
<1>3. CASE TreeStep
  <2>1. it \in Places' /\ KeyAt(it)' = KeyAt(it)
    BY <1>3, TreeUnder
  <2> QED
    BY <2>1 DEF Places, KeyAt, ItemAt
<1>4. CASE node' = node
  BY <1>1, <1>4 DEF Places, ItemAt
<1> QED
  BY <1>2, <1>3, <1>4

\* ... and keeps standing on the same key.
THEOREM KeepsKeyTheorem == IterSpec => CursorKeepsKey
BY IterInvHolds, StepKeepsKey, PTL DEF IterSpec, CursorKeepsKey, KeepsKey

-----------------------------------------------------------------------------
(* The iterator is a cursor over the live keys                             *)

\* The key the cursor stands on, as the refinement maps it.
CursorAt == IF placed = "yes" THEN {ItemAt(it).key} ELSE {}

LEMMA ContentLive ==
  ASSUME Inv, Ordered, ItemsStored, pc = "idle"
  PROVE  Cursor!Live = LiveKeys
<1>1. ASSUME NEW k \in Key PROVE Lookup(k) # Absent <=> k \in LiveKeys
  <2>1. LookupReads /\ ItemsApart
    BY LookupFacts, ApartFacts
  <2>2. CASE k \in LiveKeys
    <3>1. PICK item \in LeafItems : item.key = k /\ item.flag = 1
      BY <2>2 DEF LiveKeys
    <3>2. Lookup(k) = item.val /\ item.val \in Val
      BY <2>1, <3>1 DEF LookupReads, ItemsStored
    <3> QED
      BY <2>2, <3>2, AbsentAssumption
  <2>3. CASE k \notin LiveKeys
    <3>1. \A item \in LeafItems : item.key = k => item.flag = 0
      BY <2>1, <2>3 DEF LiveKeys, ItemsApart
    <3>2. Lookup(k) = Absent
      BY <2>1, <3>1 DEF LookupReads
    <3> QED
      BY <2>3, <3>2
  <2> QED
    BY <2>2, <2>3
<1>2. LiveKeys \subseteq Key
  BY DEF LiveKeys
<1>3. Cursor!Live = {k \in Key : Lookup(k) # Absent}
  BY DEF Cursor!Live
<1> QED
  BY <1>1, <1>2, <1>3

\* The least and the greatest key of a set.
LEMMA LeastKey ==
  ASSUME NEW S, S \subseteq Int, NEW k \in S
  PROVE  /\ (\A l \in S : k <= l) => Cursor!Min(S) = k
         /\ (\A l \in S : k >= l) => Cursor!Max(S) = k
<1>1. ASSUME \A l \in S : k <= l PROVE Cursor!Min(S) = k
  <2>1. \E x \in S : \A y \in S : x <= y
    BY <1>1
  <2>2. Cursor!Min(S) \in S /\ \A y \in S : Cursor!Min(S) <= y
    BY <2>1 DEF Cursor!Min
  <2>3. \A m \in S : (\A y \in S : m <= y) => m = k
    BY <1>1
  <2> QED
    BY <2>2, <2>3
<1>2. ASSUME \A l \in S : k >= l PROVE Cursor!Max(S) = k
  <2>1. \E x \in S : \A y \in S : x >= y
    BY <1>2
  <2>2. Cursor!Max(S) \in S /\ \A y \in S : Cursor!Max(S) >= y
    BY <2>1 DEF Cursor!Max
  <2>3. \A m \in S : (\A y \in S : m >= y) => m = k
    BY <1>2
  <2> QED
    BY <2>2, <2>3
<1> QED
  BY <1>1, <1>2

\* A call that says where it went moves the cursor there.
LEMMA CursorGoes ==
  ASSUME Inv, Ordered, NEW o, NEW S, S \subseteq LiveKeys, it' = o.to, moved' = o.moved, node' = node,
         o.moved = "yes" => placed' = "yes", o.moved = "no" => placed' # "yes" \/ S # {}
  PROVE  /\ ToLeast(o, S) => Cursor!GoToLeast(S)
         /\ ToGreatest(o, S) => Cursor!GoToGreatest(S)
<1>1. S \subseteq Int
  BY LiveFacts
<1>2. CursorAt' = IF placed' = "yes" THEN {KeyAt(o.to)} ELSE {}
  BY DEF CursorAt, KeyAt, ItemAt
<1>3. ASSUME ToLeast(o, S) PROVE Cursor!GoToLeast(S)
  <2>1. CASE S = {}
    BY <1>2, <1>3, <2>1 DEF ToLeast, Cursor!GoToLeast, CursorAt
  <2>2. CASE S # {}
    <3>1. o.moved = "yes" /\ KeyAt(o.to) \in S /\ \A l \in S : KeyAt(o.to) <= l
      BY <1>3, <2>2 DEF ToLeast
    <3>2. Cursor!Min(S) = KeyAt(o.to)
      BY <1>1, <3>1, LeastKey
    <3> QED
      BY <1>2, <2>2, <3>1, <3>2 DEF Cursor!GoToLeast, CursorAt
  <2> QED
    BY <2>1, <2>2
<1>4. ASSUME ToGreatest(o, S) PROVE Cursor!GoToGreatest(S)
  <2>1. CASE S = {}
    BY <1>2, <1>4, <2>1 DEF ToGreatest, Cursor!GoToGreatest, CursorAt
  <2>2. CASE S # {}
    <3>1. o.moved = "yes" /\ KeyAt(o.to) \in S /\ \A l \in S : KeyAt(o.to) >= l
      BY <1>4, <2>2 DEF ToGreatest
    <3>2. Cursor!Max(S) = KeyAt(o.to)
      BY <1>1, <3>1, LeastKey
    <3> QED
      BY <1>2, <2>2, <3>1, <3>2 DEF Cursor!GoToGreatest, CursorAt
  <2> QED
    BY <2>1, <2>2
<1> QED
  BY <1>3, <1>4

\* A call of the iterator is a call to the cursor: it finds the live keys of
\* the leaves and changes none.
LEMMA CallCursor ==
  ASSUME IterInv, NEW c, Called(c)
  PROVE  /\ Cursor!Called(c) /\ Cursor!Live = LiveKeys /\ UNCHANGED vars /\ node' = node
         /\ Inv /\ Ordered
<1>1. /\ Inv /\ Ordered /\ ItemsStored /\ UNCHANGED vars /\ asked' = c
      /\ pc = "idle" /\ pc' = pc /\ node' = node
  BY DEF IterInv, Called, vars, call
<1>2. SameMap
  BY <1>1, CallKeepsTree, SameVarsMap
<1>3. Cursor!Called(c)
  BY <1>1, <1>2 DEF SameMap, Cursor!Called
<1> QED
  BY <1>1, <1>3, ContentLive

LEMMA LocateCursor ==
  ASSUME IterInv, NEW k \in Key, NEW flag \in IterFlag, Locate(k, flag)
  PROVE  Cursor!Move
<1> DEFINE o == Located(k, flag)
           c == [op |-> "locate", key |-> k, flag |-> flag]
<1>1. Finds(o, k, flag) /\ Reposition(o) /\ o.moved \in {"yes", "no"} /\ Called(c)
  BY LocateStep DEF Locate
<1>2. Cursor!Called(c) /\ Cursor!Live = LiveKeys /\ node' = node /\ Inv /\ Ordered
  BY <1>1, CallCursor
<1> HIDE DEF o
<1>3. ASSUME NEW S, S \subseteq LiveKeys
      PROVE  /\ ToLeast(o, S) => Cursor!GoToLeast(S)
             /\ ToGreatest(o, S) => Cursor!GoToGreatest(S)
  BY <1>1, <1>2, <1>3, CursorGoes DEF Reposition
<1>4. /\ {l \in LiveKeys : l >= k} \subseteq LiveKeys /\ {l \in LiveKeys : l <= k} \subseteq LiveKeys
      /\ {l \in LiveKeys : l > k} \subseteq LiveKeys /\ {l \in LiveKeys : l < k} \subseteq LiveKeys
      /\ LiveKeys \cap {k} \subseteq LiveKeys
  OBVIOUS
<1>5. CASE flag = "EXACT_KEY"
  <2>1. Cursor!GoToLeast(LiveKeys \cap {k})
    BY <1>1, <1>3, <1>4, <1>5 DEF Finds
  <2>2. Cursor!Locate(k, flag)
    BY <1>2, <1>5, <2>1 DEF Cursor!Locate
  <2> QED
    BY <1>5, <2>2 DEF Cursor!Move, Cursor!Flag
<1>6. CASE flag = "KEY_OR_NEXT"
  <2>1. Cursor!GoToLeast({l \in LiveKeys : l >= k})
    BY <1>1, <1>3, <1>4, <1>6 DEF Finds
  <2>2. Cursor!Locate(k, flag)
    BY <1>2, <1>6, <2>1 DEF Cursor!Locate
  <2> QED
    BY <1>6, <2>2 DEF Cursor!Move, Cursor!Flag
<1>7. CASE flag = "KEY_OR_PREV"
  <2>1. Cursor!GoToGreatest({l \in LiveKeys : l <= k})
    BY <1>1, <1>3, <1>4, <1>7 DEF Finds
  <2>2. Cursor!Locate(k, flag)
    BY <1>2, <1>7, <2>1 DEF Cursor!Locate
  <2> QED
    BY <1>7, <2>2 DEF Cursor!Move, Cursor!Flag
<1>8. CASE flag = "AFTER_KEY"
  <2>1. Cursor!GoToLeast({l \in LiveKeys : l > k})
    BY <1>1, <1>3, <1>4, <1>8 DEF Finds
  <2>2. Cursor!Locate(k, flag)
    BY <1>2, <1>8, <2>1 DEF Cursor!Locate
  <2> QED
    BY <1>8, <2>2 DEF Cursor!Move, Cursor!Flag
<1>9. CASE flag = "BEFORE_KEY"
  <2>1. Cursor!GoToGreatest({l \in LiveKeys : l < k})
    BY <1>1, <1>3, <1>4, <1>9 DEF Finds
  <2>2. Cursor!Locate(k, flag)
    BY <1>2, <1>9, <2>1 DEF Cursor!Locate
  <2> QED
    BY <1>9, <2>2 DEF Cursor!Move, Cursor!Flag
<1> QED
  BY <1>5, <1>6, <1>7, <1>8, <1>9 DEF IterFlag

LEMMA FirstCursor ==
  ASSUME IterInv, First
  PROVE  Cursor!Move
<1>1. /\ Reposition(FirstMove) /\ ToLeast(FirstMove, LiveKeys)
      /\ FirstMove.moved \in {"yes", "no"}
  BY EndStep
<1>2. Called([op |-> "first"])
  BY DEF First
<1>3. /\ Cursor!Called([op |-> "first"]) /\ Cursor!Live = LiveKeys
      /\ node' = node /\ Inv /\ Ordered
  BY <1>2, CallCursor
<1>4. Cursor!GoToLeast(LiveKeys)
  BY <1>1, <1>3, CursorGoes DEF Reposition
<1> QED
  BY <1>3, <1>4 DEF Cursor!Move, Cursor!First

LEMMA LastCursor ==
  ASSUME IterInv, LastItem
  PROVE  Cursor!Move
<1>1. /\ Reposition(LastMove) /\ ToGreatest(LastMove, LiveKeys)
      /\ LastMove.moved \in {"yes", "no"}
  BY EndStep
<1>2. Called([op |-> "last"])
  BY DEF LastItem
<1>3. /\ Cursor!Called([op |-> "last"]) /\ Cursor!Live = LiveKeys
      /\ node' = node /\ Inv /\ Ordered
  BY <1>2, CallCursor
<1>4. Cursor!GoToGreatest(LiveKeys)
  BY <1>1, <1>3, CursorGoes DEF Reposition
<1> QED
  BY <1>3, <1>4 DEF Cursor!Move, Cursor!LastKey

LEMMA NextCursor ==
  ASSUME IterInv, NextItem
  PROVE  Cursor!Move
<1> DEFINE o == Forward(it)
           S == {l \in LiveKeys : l > KeyAt(it)}
<1>1. /\ placed = "yes" /\ placed' = "yes" /\ it \in Places /\ Called([op |-> "next"])
      /\ it' = o.to /\ moved' = o.moved
  BY MoveStep DEF NextItem, MoveOn
<1>2. /\ Cursor!Called([op |-> "next"]) /\ Cursor!Live = LiveKeys
      /\ node' = node /\ Inv /\ Ordered
  BY <1>1, CallCursor
<1>3. /\ o.to \in Places /\ o.moved \in {"yes", "no"} /\ ToLeast(o, S)
      /\ o.moved = "no" => /\ KeyAt(o.to) >= KeyAt(it)
                           /\ o.to = it \/ KeyAt(o.to) \notin LiveKeys
  BY <1>1, <1>2, ForwardFacts DEF IterInv
<1> HIDE DEF o
<1>4. CursorAt = {KeyAt(it)} /\ CursorAt' = {KeyAt(o.to)} /\ KeyAt(o.to) \in Key
  BY <1>1, <1>2, <1>3, PlaceFacts DEF CursorAt, KeyAt, ItemAt
<1>5. CASE S # {}
  <2>1. Cursor!GoToLeast(S)
    BY <1>1, <1>2, <1>3, <1>5, CursorGoes
  <2>2. Cursor!NextKey
    BY <1>2, <1>4, <1>5, <2>1 DEF Cursor!NextKey, CursorAt
  <2> QED
    BY <2>2 DEF Cursor!Move
<1>6. CASE S = {}
  <2>1. o.moved = "no"
    BY <1>3, <1>6 DEF ToLeast
  <2>2. Cursor!NextKey
    BY <1>1, <1>2, <1>3, <1>4, <1>6, <2>1 DEF Cursor!NextKey, CursorAt
  <2> QED
    BY <2>2 DEF Cursor!Move
<1> QED
  BY <1>5, <1>6

LEMMA PrevCursor ==
  ASSUME IterInv, Prev
  PROVE  Cursor!Move
<1> DEFINE o == Backward(it)
           S == {l \in LiveKeys : l < KeyAt(it)}
<1>1. /\ placed = "yes" /\ placed' = "yes" /\ it \in Places /\ Called([op |-> "prev"])
      /\ it' = o.to /\ moved' = o.moved
  BY MoveStep DEF Prev, MoveOn
<1>2. /\ Cursor!Called([op |-> "prev"]) /\ Cursor!Live = LiveKeys
      /\ node' = node /\ Inv /\ Ordered
  BY <1>1, CallCursor
<1>3. /\ o.to \in Places /\ o.moved \in {"yes", "no"} /\ ToGreatest(o, S)
      /\ o.moved = "no" => /\ KeyAt(o.to) <= KeyAt(it)
                           /\ o.to = it \/ KeyAt(o.to) \notin LiveKeys
  BY <1>1, <1>2, BackwardFacts DEF IterInv
<1> HIDE DEF o
<1>4. CursorAt = {KeyAt(it)} /\ CursorAt' = {KeyAt(o.to)} /\ KeyAt(o.to) \in Key
  BY <1>1, <1>2, <1>3, PlaceFacts DEF CursorAt, KeyAt, ItemAt
<1>5. CASE S # {}
  <2>1. Cursor!GoToGreatest(S)
    BY <1>1, <1>2, <1>3, <1>5, CursorGoes
  <2>2. Cursor!PrevKey
    BY <1>2, <1>4, <1>5, <2>1 DEF Cursor!PrevKey, CursorAt
  <2> QED
    BY <2>2 DEF Cursor!Move
<1>6. CASE S = {}
  <2>1. o.moved = "no"
    BY <1>3, <1>6 DEF ToGreatest
  <2>2. Cursor!PrevKey
    BY <1>1, <1>2, <1>3, <1>4, <1>6, <2>1 DEF Cursor!PrevKey, CursorAt
  <2> QED
    BY <2>2 DEF Cursor!Move
<1> QED
  BY <1>5, <1>6

\* What is a step of the map, and keeps the cursor on its key, is a step of the
\* cursor.
LEMMA MapStepCursor ==
  ASSUME CursorAt' = CursorAt, moved' = moved, Map!Next \/ UNCHANGED Map!vars
  PROVE  Cursor!Next \/ UNCHANGED Cursor!vars
<1>1. CASE UNCHANGED Map!vars
  BY <1>1 DEF CursorAt, Map!vars, Cursor!vars
<1>2. ASSUME NEW k \in Key, NEW v \in Val, Map!Call(k, v) PROVE Cursor!Map!Next
  <2>1. Cursor!Map!Call(k, v)
    BY <1>2 DEF Map!Call, Cursor!Map!Call
  <2> QED
    BY <2>1 DEF Cursor!Map!Next
<1>3. ASSUME NEW k \in Key, Map!Remove(k) PROVE Cursor!Map!Next
  <2>1. Cursor!Map!Remove(k)
    BY <1>3 DEF Map!Remove, Cursor!Map!Remove
  <2> QED
    BY <2>1 DEF Cursor!Map!Next
<1>4. ASSUME Map!Put \/ Map!PutDuplicate \/ Map!PutError PROVE Cursor!Map!Next
  BY <1>4 DEF Map!Put, Map!PutDuplicate, Map!PutError, Map!Return, Cursor!Map!Next, Cursor!Map!Put,
    Cursor!Map!PutDuplicate, Cursor!Map!PutError, Cursor!Map!Return
<1>5. CASE Map!Next
  <2>1. Cursor!Map!Next
    BY <1>2, <1>3, <1>4, <1>5 DEF Map!Next
  <2> QED
    BY <2>1 DEF CursorAt, Cursor!Next, Cursor!Change
<1> QED
  BY <1>1, <1>5

\* Of the steps of the tree, storing a new key may cost the iterator its
\* place and shows nothing yet; the others are steps of the map.
LEMMA TreeCursor ==
  ASSUME IterInv, TreeStep
  PROVE  Cursor!Next \/ UNCHANGED Cursor!vars
<1>1. Inv /\ Ordered /\ ItemsStored /\ Asked /\ CallNext /\ it' = it /\ moved' = moved
  BY DEF IterInv, TreeStep
<1>2. (Map!Next \/ UNCHANGED Map!vars) /\ [Next]_vars
  BY <1>1, CallNextMap, CallNextIsNext
<1>3. CASE placed' = "yes"
  <2>1. CursorAt' = CursorAt
    BY <1>3, TreeUnder DEF CursorAt, KeyAt, ItemAt
  <2> QED
    BY <1>1, <1>2, <2>1, MapStepCursor
<1>4. CASE placed = "yes" /\ placed' # "yes"
  <2>1. LeafInsert
    BY <1>4 DEF TreeStep
  <2>2. pc = "down" /\ pc' = "up" /\ AtLeaf /\ ~ KeyLive
    BY <2>1 DEF LeafInsert, KeyLive, AtLeaf
  <2>3. asked' = asked
    BY <1>1, <2>2 DEF CallNext, CallStep, CallPut, CallRemove, PutCall, RemoveByFlag
  <2>4. SameMap
    BY <1>1, <1>2, <2>1, NextInv, NextOrdered, LeafInsertMap
  <2>5. asked.key = arg[1] /\ arg[1] \in Key /\ Lookup(arg[1]) = Absent
    BY <1>1, <2>2, PutLookup DEF Asked
  <2>6. Cursor!Lose
    BY <1>1, <1>4, <2>2, <2>3, <2>4, <2>5 DEF SameMap, Cursor!Lose
  <2> QED
    BY <2>6 DEF Cursor!Next
<1>5. CASE placed # "yes" /\ placed' # "yes"
  <2>1. CursorAt' = CursorAt
    BY <1>5 DEF CursorAt
  <2> QED
    BY <1>1, <1>2, <2>1, MapStepCursor
<1> QED
  BY <1>3, <1>4, <1>5

LEMMA IterNextCursor == IterInv /\ [IterNext]_allVars => [Cursor!Next]_(Cursor!vars)
<1> DEFINE Goal == Cursor!Next \/ UNCHANGED Cursor!vars
<1> SUFFICES ASSUME IterInv, [IterNext]_allVars PROVE Goal
  OBVIOUS
<1>1. Cursor!Move => Goal
  BY DEF Cursor!Next
<1>2. ASSUME NEW k \in Key, NEW flag \in IterFlag, Locate(k, flag) PROVE Cursor!Move
  BY <1>2, LocateCursor
<1>3. ASSUME UNCHANGED allVars PROVE Goal
  <2>1. UNCHANGED <<vars, asked, it, moved, placed>>
    BY <1>3 DEF allVars, callVars, itVars
  <2>2. UNCHANGED <<pc, node, countOfItem, ret>>
    BY <2>1 DEF vars, call, meta
  <2>3. SameMap
    BY <2>1, CallKeepsTree, SameVarsMap DEF IterInv
  <2> QED
    BY <2>1, <2>2, <2>3 DEF SameMap, Cursor!vars, ItemAt
<1> HIDE DEF Goal
<1>4. TreeStep => Goal
  BY TreeCursor DEF Goal
<1> QED
  BY <1>1, <1>2, <1>3, <1>4, FirstCursor, LastCursor, NextCursor, PrevCursor DEF IterNext

LEMMA IterInitCursor == IterInit => Cursor!Init
<1> SUFFICES ASSUME IterInit PROVE Cursor!Init
  OBVIOUS
<1>1. Map!Init
  BY InitAsked DEF IterInit
<1> QED
  BY <1>1 DEF IterInit, Cursor!Init, Map!Init, Cursor!Map!Init

\* Each call of the iterator goes to the live key that its name, its flag and
\* its key say, or returns 0 when there is none; and the tree changes under it
\* as the map does.
THEOREM CursorImplemented == IterSpec => ImplementsCursor
BY IterInvHolds, IterInitCursor, IterNextCursor, PTL DEF IterSpec, ImplementsCursor, Cursor!Spec

-----------------------------------------------------------------------------
(* A full scan                                                             *)

\* The keys of a sequence of items ascend.
Ascends(t) == \A i \in 1 .. Len(t) - 1 : t[i].key < t[i + 1].key

\* Two ascending blocks, the first one below the second, ascend together.
LEMMA JoinAscends ==
  ASSUME NEW s \in Seq(Item), NEW t \in Seq(Item), Len(s) >= 1, Len(t) >= 1,
         Ascends(s), Ascends(t), s[Len(s)].key < t[1].key
  PROVE  /\ s \o t \in Seq(Item) /\ Len(s \o t) >= 1 /\ Ascends(s \o t)
         /\ (s \o t)[Len(s \o t)] = t[Len(t)]
<1> DEFINE u == s \o t
<1>1. /\ u \in Seq(Item) /\ Len(u) = Len(s) + Len(t) /\ Len(s) \in Nat /\ Len(t) \in Nat
      /\ \A i \in 1 .. Len(u) : u[i] = IF i <= Len(s) THEN s[i] ELSE t[i - Len(s)]
  BY ConcatProperties
<1> HIDE DEF u
<1>2. ASSUME NEW i \in 1 .. Len(u) - 1 PROVE u[i].key < u[i + 1].key
  <2>1. i \in 1 .. Len(u) /\ i + 1 \in 1 .. Len(u)
    BY <1>1
  <2>2. CASE i < Len(s)
    <3>1. i \in 1 .. Len(s) - 1 /\ u[i] = s[i] /\ u[i + 1] = s[i + 1]
      BY <1>1, <2>1, <2>2
    <3> QED
      BY <3>1 DEF Ascends
  <2>3. CASE i = Len(s)
    <3>1. u[i] = s[Len(s)] /\ u[i + 1] = t[1]
      BY <1>1, <2>1, <2>3
    <3> QED
      BY <3>1
  <2>4. CASE i > Len(s)
    <3> DEFINE j == i - Len(s)
    <3>1. j \in 1 .. Len(t) - 1 /\ u[i] = t[j] /\ u[i + 1] = t[i + 1 - Len(s)] /\ i + 1 - Len(s) = j + 1
      BY <1>1, <2>1, <2>4
    <3> HIDE DEF j
    <3> QED
      BY <3>1 DEF Ascends
  <2> QED
    BY <1>1, <2>2, <2>3, <2>4
<1>3. Ascends(u) /\ Len(u) >= 1
  BY <1>1, <1>2 DEF Ascends
<1>4. u[Len(u)] = t[Len(t)]
  BY <1>1
<1> QED
  BY <1>1, <1>3, <1>4 DEF u

\* FlattenSeq() as a walk that appends one block after the other.
LEMMA FlattenWalk ==
  ASSUME NEW S, NEW s \in Seq(Seq(S)), Len(s) >= 1
  PROVE  \E f : /\ FlattenSeq(s) = f[Len(s)] /\ f[1] = s[1]
                /\ \A i \in 1 .. Len(s) : i > 1 => f[i] = f[i - 1] \o s[i]
<1> DEFINE P == 1 .. Len(s)
           back == [i \in P |-> i - 1]
           f == CHOOSE g : g = [i \in P |-> IF i = 1 THEN s[i] ELSE g[i - 1] \o s[i]]
<1>1. Len(s) \in Nat /\ Len(s) # 0
  OBVIOUS
<1>2. \E g : g = [i \in P |-> IF i = 1 THEN s[i] ELSE g[i - 1] \o s[i]]
  <2> DEFINE rank == [i \in P |-> i]
  <2>1. StepsDown(P, rank, {1}, back)
    BY <1>1 DEF StepsDown
  <2>2. Len(s) + 1 \in Nat /\ \A i \in P : rank[i] < Len(s) + 1
    BY <1>1
  <2>3. \A i \in P : back[i] = i - 1
    OBVIOUS
  <2> HIDE DEF P, rank, back
  <2>6. PICK g : IsJoinWalk(g, P, {1}, s, back, "behind", s)
    BY <2>1, <2>2, JoinWalkExists
  <2>4. \A x, y : Join("behind", x, y) = y \o x
    BY DEF Join
  <2>7. \A i \in P : (IF i \in {1} THEN s[i] ELSE Join("behind", s[i], g[back[i]]))
                     = (IF i = 1 THEN s[i] ELSE g[i - 1] \o s[i])
    BY <2>3, <2>4
  <2>8. g = [i \in P |-> IF i \in {1} THEN s[i] ELSE Join("behind", s[i], g[back[i]])]
    BY <2>6 DEF IsJoinWalk
  <2>5. g = [i \in P |-> IF i = 1 THEN s[i] ELSE g[i - 1] \o s[i]]
    BY <2>7, <2>8
  <2> QED
    BY <2>5
<1>3. f = [i \in P |-> IF i = 1 THEN s[i] ELSE f[i - 1] \o s[i]]
  BY <1>2
<1>4. FlattenSeq(s) = f[Len(s)]
  BY <1>1 DEF FlattenSeq
<1> HIDE DEF f
<1>5. \A i \in P : f[i] = IF i = 1 THEN s[i] ELSE f[i - 1] \o s[i]
  <2> HIDE DEF P
  <2> QED
    BY <1>3
<1>6. f[1] = s[1] /\ \A i \in 1 .. Len(s) : i > 1 => f[i] = f[i - 1] \o s[i]
  <2>1. 1 \in P /\ \A i \in P : i > 1 => i # 1
    BY <1>1
  <2> QED
    BY <1>5, <2>1
<1> QED
  BY <1>4, <1>6

\* Ascending blocks, each below the next, ascend together.
LEMMA FlattenAscends ==
  ASSUME NEW s \in Seq(Seq(Item)), Len(s) >= 1,
         \A i \in 1 .. Len(s) : Len(s[i]) >= 1 /\ Ascends(s[i]),
         \A i \in 1 .. Len(s) : i > 1 => s[i - 1][Len(s[i - 1])].key < s[i][1].key
  PROVE  Ascends(FlattenSeq(s)) /\ Len(FlattenSeq(s)) \in Nat
<1>1. PICK f : /\ FlattenSeq(s) = f[Len(s)] /\ f[1] = s[1]
               /\ \A i \in 1 .. Len(s) : i > 1 => f[i] = f[i - 1] \o s[i]
  BY FlattenWalk
<1>2. Len(s) \in Nat /\ \A i \in 1 .. Len(s) : s[i] \in Seq(Item)
  BY ElementOfSeq
<1> DEFINE P == 1 .. Len(s)
           Right(i) == /\ f[i] \in Seq(Item) /\ Len(f[i]) >= 1 /\ Ascends(f[i])
                       /\ f[i][Len(f[i])] = s[i][Len(s[i])]
           T == {i \in P : Right(i)}
           rank == [i \in P |-> i]
           back == [i \in P |-> i - 1]
<1>3. Right(1)
  BY <1>1, <1>2
<1>4. ASSUME NEW i \in P, i > 1, Right(i - 1) PROVE Right(i)
  <2>1. /\ i - 1 \in P /\ s[i] \in Seq(Item) /\ Len(s[i]) >= 1 /\ Ascends(s[i])
        /\ f[i] = f[i - 1] \o s[i] /\ s[i - 1][Len(s[i - 1])].key < s[i][1].key
    <3> HIDE DEF Right
    <3>1. i \in 1 .. Len(s) /\ i > 1 /\ i - 1 \in P
      BY <1>2, <1>4
    <3>2. f[i] = f[i - 1] \o s[i]
      BY <1>1, <3>1
    <3>3. s[i] \in Seq(Item) /\ Len(s[i]) >= 1 /\ Ascends(s[i])
      BY <1>2, <3>1
    <3>4. s[i - 1][Len(s[i - 1])].key < s[i][1].key
      BY <3>1
    <3> QED
      BY <3>1, <3>2, <3>3, <3>4
  <2>2. f[i - 1][Len(f[i - 1])].key < s[i][1].key
    BY <1>4, <2>1
  <2> DEFINE a == f[i - 1]
             b == s[i]
  <2>3. /\ a \in Seq(Item) /\ b \in Seq(Item) /\ Len(a) >= 1 /\ Len(b) >= 1
        /\ Ascends(a) /\ Ascends(b) /\ a[Len(a)].key < b[1].key
    BY <1>4, <2>1, <2>2
  <2>4. f[i] = a \o b
    BY <2>1
  <2> HIDE DEF a, b
  <2>5. f[i] \in Seq(Item) /\ Len(f[i]) >= 1 /\ Ascends(f[i]) /\ f[i][Len(f[i])] = b[Len(b)]
    BY <2>3, <2>4, JoinAscends
  <2> QED
    BY <2>5 DEF b
<1> HIDE DEF Right
<1>5. StepsDown(P, rank, {1}, back)
  BY <1>2 DEF StepsDown
<1>6. ASSUME NEW i \in P, i \in {1} \/ back[i] \in T PROVE i \in T
  BY <1>2, <1>3, <1>4, <1>6
<1>7. Len(s) \in P
  BY <1>2
<1> HIDE DEF P, rank, back
<1>8. P \subseteq T
  <2> HIDE DEF T
  <2> QED
    BY <1>5, <1>6, StepInduction
<1>9. Right(Len(s))
  BY <1>7, <1>8
<1> QED
  BY <1>1, <1>9 DEF Right

\* The last item of a leaf, and the first one of the leaf after it.
LEMMA LeafEnds ==
  ASSUME Inv, Ordered, NEW b \in Leaves, node[b].kv # << >>
  PROVE  /\ LastOf(b) \in Places /\ KeyAt(LastOf(b)) = MaxKey(node[b].kv) /\ LastOf(b).blk = b
         /\ node[b].next = 0 => \A x \in Places : KeyAt(x) <= MaxKey(node[b].kv)
         /\ node[b].next # 0 =>
              /\ node[b].next \in Leaves /\ node[node[b].next].kv # << >>
              /\ node[node[b].next].last = b
              /\ MaxKey(node[node[b].next].kv) > MaxKey(node[b].kv)
         /\ MaxKey(node[b].kv) \in Int /\ MaxKey(node[b].kv) \in Key
<1> DEFINE n == Len(node[b].kv)
           p == LastOf(b)
           key == [x \in Places |-> KeyAt(x)]
           end == {x \in Places : AtEnd(x)}
           step == [x \in Places |-> Succ(x)]
<1>1. n \in Nat /\ n >= 1 /\ n \in 1 .. n /\ MaxKey(node[b].kv) = node[b].kv[n].key /\ MaxKey(node[b].kv) \in Int
  BY KeyFacts DEF Leaves
<1>2. p \in Places /\ p.blk = b /\ p.idx = n
  BY <1>1, PlaceFacts DEF LastOf, Place
<1>3. KeyAt(p) = MaxKey(node[b].kv)
  BY <1>1, <1>2 DEF KeyAt, ItemAt
<1> HIDE DEF p
<1>4. KeyAt(p) \in Key
  BY <1>2, PlaceFacts
<1>5. ASSUME node[b].next = 0, NEW x \in Places PROVE KeyAt(x) <= MaxKey(node[b].kv)
  <2>1. p \in end
    BY <1>2, <1>5 DEF AtEnd
  <2>2. \A y \in Places : key[y] <= key[p]
    <3> HIDE DEF key, end, step
    <3> QED
      BY <2>1, SuccPoint DEF NextPoint, key, end, step
  <2> QED
    BY <1>2, <1>3, <2>2
<1>6. ASSUME node[b].next # 0
      PROVE  /\ node[b].next \in Leaves /\ node[node[b].next].kv # << >>
             /\ node[node[b].next].last = b
             /\ MaxKey(node[node[b].next].kv) > MaxKey(node[b].kv)
  <2> DEFINE c == node[b].next
  <2>1. /\ c \in DOMAIN node /\ node[c].leaf /\ node[c].kv # << >> /\ node[c].last = b
        /\ MaxKey(node[b].kv) < node[c].kv[1].key
    BY <1>6, NextFacts DEF Leaves
  <2> HIDE DEF c
  <2>2. Len(node[c].kv) \in Nat /\ Len(node[c].kv) >= 1 /\ MaxKey(node[c].kv) = node[c].kv[Len(node[c].kv)].key
        /\ node[c].kv[1].key \in Int /\ MaxKey(node[c].kv) \in Int
    BY <2>1, KeyFacts
  <2>3. node[c].kv[1].key <= MaxKey(node[c].kv)
    <3>1. CASE Len(node[c].kv) = 1
      BY <2>2, <3>1
    <3>2. CASE Len(node[c].kv) > 1
      BY <2>1, <2>2, <3>2 DEF Ordered, KeysSorted
    <3> QED
      BY <2>2, <3>1, <3>2
  <2>4. c \in Leaves /\ MaxKey(node[c].kv) > MaxKey(node[b].kv)
    BY <1>1, <2>1, <2>2, <2>3 DEF Leaves
  <2> QED
    BY <2>1, <2>4 DEF c
<1> QED
  BY <1>1, <1>2, <1>3, <1>4, <1>5, <1>6 DEF p

\* header.next leads through the leaves in the order of their largest keys.
LEMMA LeafPoint ==
  ASSUME Inv, Ordered, \A b \in Leaves : node[b].kv # << >>
  PROVE  NextPoint(Leaves, [b \in Leaves |-> MaxKey(node[b].kv)], {b \in Leaves : node[b].next = 0},
                   [b \in Leaves |-> node[b].next])
<1> DEFINE max(b) == MaxKey(node[b].kv)
<1>1. ASSUME NEW b \in Leaves, NEW c \in Leaves, max(b) = max(c) PROVE b = c
  <2>1. /\ LastOf(b) \in Places /\ KeyAt(LastOf(b)) = max(b) /\ LastOf(b).blk = b
        /\ LastOf(c) \in Places /\ KeyAt(LastOf(c)) = max(c) /\ LastOf(c).blk = c
    BY LeafEnds
  <2>2. LastOf(b) = LastOf(c)
    BY <1>1, <2>1, PlaceOfKey
  <2> QED
    BY <2>1, <2>2
<1>2. ASSUME NEW b \in Leaves, node[b].next = 0, NEW c \in Leaves PROVE max(c) <= max(b)
  BY <1>2, LeafEnds
<1>3. ASSUME NEW b \in Leaves, node[b].next # 0
      PROVE  /\ node[b].next \in Leaves /\ max(node[b].next) > max(b)
             /\ \A x \in Leaves : max(x) > max(b) => max(x) >= max(node[b].next)
  <2> DEFINE c == node[b].next
  <2>1. c \in Leaves /\ max(c) > max(b) /\ node[c].last = b
    BY <1>3, LeafEnds
  <2> HIDE DEF c
  <2>2. ASSUME NEW x \in Leaves, max(x) > max(b), ~ (max(x) >= max(c)) PROVE FALSE
    <3>1. max(x) \in Int /\ max(c) \in Int /\ max(x) \in Key /\ LastOf(x) \in Places /\ KeyAt(LastOf(x)) = max(x)
          /\ LastOf(x).blk = x
      BY <2>1, LeafEnds
    <3>2. max(b) < max(x) /\ max(x) <= max(c)
      BY <2>2, <3>1, LeafEnds
    <3>3. Covers(c, max(x))
      BY <2>1, <3>2 DEF Covers
    <3>4. x = c
      BY <2>1, <3>1, <3>3, PlaceOfKey
    <3> QED
      BY <2>2, <3>1, <3>4
  <2> QED
    BY <2>1, <2>2 DEF c
<1> HIDE DEF max
<1>4. \A b \in Leaves : [c \in Leaves |-> max(c)][b] = max(b)
  OBVIOUS
<1>5. NextPoint(Leaves, [b \in Leaves |-> max(b)], {b \in Leaves : node[b].next = 0},
                [b \in Leaves |-> node[b].next])
  BY <1>1, <1>2, <1>3 DEF NextPoint
<1> QED
  BY <1>5 DEF max

\* The leaves are ranked so that header.next lowers the rank.
LEMMA LeavesRanked ==
  ASSUME Inv, Ordered
  PROVE  \E rank \in [Leaves -> Nat], n \in Nat :
           /\ \A b \in Leaves : rank[b] < n
           /\ \A b \in Leaves : node[b].next # 0 =>
                node[b].next \in Leaves /\ rank[node[b].next] < rank[b]
<1>1. CASE \A b \in Leaves : node[b].kv # << >>
  <2> DEFINE key == [b \in Leaves |-> MaxKey(node[b].kv)]
             end == {b \in Leaves : node[b].next = 0}
             step == [b \in Leaves |-> node[b].next]
  <2>1. NextPoint(Leaves, key, end, step)
    BY <1>1, LeafPoint
  <2>2. key \in [Leaves -> Int]
    BY <1>1, LeafEnds
  <2>3. IsFiniteSet(Leaves)
    <3>1. Leaves \subseteq 1 .. countOfBlock - 1 /\ countOfBlock - 1 \in Int
      BY DEF Inv, TypeOK, Leaves
    <3>2. IsFiniteSet(1 .. countOfBlock - 1)
      BY <3>1, FS_Interval
    <3> QED
      BY <3>1, <3>2, FS_Subset
  <2>4. \A b \in Leaves : node[b].next # 0 => b \in Leaves \ end /\ step[b] = node[b].next
    OBVIOUS
  <2>5. \A b \in Leaves : node[b].next # 0 => node[b].next \in Leaves
    BY <1>1, LeafEnds
  <2> HIDE DEF key, end, step
  <2>6. PICK rank \in [Leaves -> Nat], n \in Nat :
          /\ \A b \in Leaves : rank[b] < n
          /\ \A b \in Leaves \ end : rank[step[b]] < rank[b]
    BY <2>1, <2>2, <2>3, NextRanked
  <2> QED
    BY <2>4, <2>5, <2>6
<1>2. CASE \E b \in Leaves : node[b].kv = << >>
  <2>1. Places = {}
    BY <1>2, EmptyTree
  <2>2. ASSUME NEW b \in Leaves PROVE node[b].next = 0
    <3>1. node[b].kv = << >>
      BY <2>1, LeafEnds
    <3> QED
      BY <3>1, KeyFacts DEF Leaves
  <2> DEFINE rank == [b \in Leaves |-> 0]
  <2>3. rank \in [Leaves -> Nat] /\ \A b \in Leaves : rank[b] < 1
    OBVIOUS
  <2> HIDE DEF rank
  <2> QED
    BY <2>2, <2>3
<1> QED
  BY <1>1, <1>2

\* The leaves that a scan from the first one visits.
LEMMA ChainWalk ==
  ASSUME Inv, Ordered
  PROVE  \E f : /\ LeafChain(FirstLeaf) = f[<< FirstLeaf, {} >>]
                /\ \A p \in Leaves \X SUBSET Leaves :
                     f[p] = IF node[p[1]].next \notin Leaves \ (p[2] \cup {p[1]}) THEN << p[1] >>
                            ELSE << p[1] >> \o f[<< node[p[1]].next, p[2] \cup {p[1]} >>]
<1> DEFINE P == Leaves \X SUBSET Leaves
           stop == {q \in P : node[q[1]].next \notin Leaves \ (q[2] \cup {q[1]})}
           step == [q \in P |-> << node[q[1]].next, q[2] \cup {q[1]} >>]
           here == [q \in P |-> << q[1] >>]
           body(g) == [q \in P |-> IF node[q[1]].next \notin Leaves \ (q[2] \cup {q[1]}) THEN << q[1] >>
                                   ELSE << q[1] >> \o g[<< node[q[1]].next, q[2] \cup {q[1]} >>]]
           f == CHOOSE g : g = body(g)
<1>1. \E g : g = body(g)
  <2>1. PICK rank \in [Leaves -> Nat], n \in Nat :
           /\ \A b \in Leaves : rank[b] < n
           /\ \A b \in Leaves : node[b].next # 0 =>
                node[b].next \in Leaves /\ rank[node[b].next] < rank[b]
    BY LeavesRanked
  <2> DEFINE rank2 == [q \in P |-> rank[q[1]]]
  <2>2. 0 \notin Leaves
    BY BlockFacts DEF Leaves, Inv
  <2>3. StepsDown(P, rank2, stop, step)
    <3>1. rank2 \in [P -> Nat]
      BY <2>1
    <3>2. ASSUME NEW q \in P \ stop PROVE step[q] \in P /\ rank2[step[q]] < rank2[q]
      <4>1. q[1] \in Leaves /\ q[2] \in SUBSET Leaves /\ node[q[1]].next \in Leaves
        OBVIOUS
      <4>2. rank[node[q[1]].next] < rank[q[1]]
        BY <2>1, <2>2, <4>1
      <4>3. step[q] \in P /\ step[q][1] = node[q[1]].next
        BY <4>1
      <4> QED
        BY <4>2, <4>3
    <3> QED
      BY <3>1, <3>2 DEF StepsDown
  <2>4. \A q \in P : rank2[q] < n
    BY <2>1
  <2>5. \A g : body(g) = [q \in P |-> IF q \in stop THEN here[q] ELSE here[q] \o g[step[q]]]
    OBVIOUS
  <2> HIDE DEF P, rank2, stop, step, here, body
  <2>6. PICK g : IsJoinWalk(g, P, stop, here, step, "before", here)
    BY <2>1, <2>3, <2>4, JoinWalkExists
  <2>7. \A x, y : Join("before", x, y) = x \o y
    BY DEF Join
  <2>8. g = [q \in P |-> IF q \in stop THEN here[q] ELSE here[q] \o g[step[q]]]
    BY <2>6, <2>7 DEF IsJoinWalk
  <2>9. g = body(g)
    BY <2>5, <2>8
  <2> QED
    BY <2>9
<1>2. f = body(f)
  <2> HIDE DEF body
  <2> QED
    BY <1>1
<1>3. LeafChain(FirstLeaf) = f[<< FirstLeaf, {} >>]
  BY DEF LeafChain
<1> HIDE DEF f
<1>4. \A p \in P : f[p] = IF node[p[1]].next \notin Leaves \ (p[2] \cup {p[1]}) THEN << p[1] >>
                         ELSE << p[1] >> \o f[<< node[p[1]].next, p[2] \cup {p[1]} >>]
  BY <1>2
<1> QED
  BY <1>3, <1>4

\* A chain of leaves from b on: each is linked to the next, the last to none.
IsChain(ch, b) ==
  /\ ch \in Seq(Leaves) /\ Len(ch) >= 1 /\ ch[1] = b /\ node[ch[Len(ch)]].next = 0
  /\ \A i \in 1 .. Len(ch) : i > 1 => node[ch[i - 1]].next = ch[i]

\* A leaf in front of the chain from the leaf that it is linked to is a chain.
LEMMA ChainExtends ==
  ASSUME NEW b \in Leaves, NEW ch, IsChain(ch, node[b].next)
  PROVE  IsChain(<< b >> \o ch, b)
<1> DEFINE t == << b >> \o ch
<1>1. /\ t \in Seq(Leaves) /\ Len(t) = Len(ch) + 1 /\ Len(ch) \in Nat /\ t[1] = b
      /\ \A i \in 1 .. Len(t) : i > 1 => i - 1 \in 1 .. Len(ch) /\ t[i] = ch[i - 1]
  <2>1. ch \in Seq(Leaves) /\ << b >> \in Seq(Leaves) /\ Len(<< b >>) = 1 /\ << b >>[1] = b
    BY DEF IsChain
  <2> QED
    BY <2>1, ConcatProperties
<1> HIDE DEF t
<1>2. node[t[Len(t)]].next = 0
  BY <1>1 DEF IsChain
<1>3. ASSUME NEW i \in 1 .. Len(t), i > 1 PROVE node[t[i - 1]].next = t[i]
  <2>1. CASE i = 2
    BY <1>1, <1>3, <2>1 DEF IsChain
  <2>2. CASE i > 2
    <3> DEFINE j == i - 1
    <3>1. j \in 1 .. Len(ch) /\ j > 1 /\ t[i] = ch[j] /\ t[i - 1] = ch[j - 1]
      BY <1>1, <1>3, <2>2
    <3> HIDE DEF j
    <3> QED
      BY <3>1 DEF IsChain
  <2> QED
    BY <1>1, <1>3, <2>1, <2>2
<1>4. IsChain(t, b)
  BY <1>1, <1>2, <1>3 DEF IsChain
<1> QED
  BY <1>4 DEF t

\* The scan ends at a leaf without a next one, not at one that comes again:
\* by induction on the rank of the leaf.
LEMMA ScanChain ==
  ASSUME Inv, Ordered
  PROVE  IsChain(LeafChain(FirstLeaf), FirstLeaf)
<1> DEFINE P == Leaves \X SUBSET Leaves
<1>1. PICK f : /\ LeafChain(FirstLeaf) = f[<< FirstLeaf, {} >>]
               /\ \A p \in P :
                    f[p] = IF node[p[1]].next \notin Leaves \ (p[2] \cup {p[1]}) THEN << p[1] >>
                           ELSE << p[1] >> \o f[<< node[p[1]].next, p[2] \cup {p[1]} >>]
  BY ChainWalk
<1>2. PICK rank \in [Leaves -> Nat], n \in Nat :
        /\ \A b \in Leaves : rank[b] < n
        /\ \A b \in Leaves : node[b].next # 0 =>
             node[b].next \in Leaves /\ rank[node[b].next] < rank[b]
  BY LeavesRanked
<1>3. 0 \notin Leaves /\ FirstLeaf \in Leaves
  BY EndLeaves, BlockFacts DEF Leaves, Inv
\* no leaf that was seen comes again
<1> DEFINE Q == {p \in P : \A b \in p[2] : rank[b] > rank[p[1]]}
           stop == {p \in Q : node[p[1]].next = 0}
           step == [p \in Q |-> << node[p[1]].next, p[2] \cup {p[1]} >>]
           rank2 == [p \in Q |-> rank[p[1]]]
           T == {p \in Q : IsChain(f[p], p[1])}
<1>4. ASSUME NEW p \in Q, node[p[1]].next # 0
      PROVE  /\ step[p] \in Q /\ rank2[step[p]] < rank2[p] /\ step[p][1] = node[p[1]].next
             /\ f[p] = << p[1] >> \o f[step[p]]
  <2> DEFINE b == p[1]
             c == node[p[1]].next
             seen == p[2]
  <2>1. b \in Leaves /\ seen \in SUBSET Leaves /\ p = << b, seen >> /\ \A d \in seen : rank[d] > rank[b]
    OBVIOUS
  <2>2. c \in Leaves /\ rank[c] < rank[b]
    BY <1>2, <1>4, <2>1
  <2> HIDE DEF b, c, seen
  <2>3. \A d \in seen \cup {b} : rank[d] > rank[c]
    BY <1>2, <2>1, <2>2
  <2>4. c \notin seen \cup {b}
    BY <1>2, <2>2, <2>3
  <2>5. step[p] = << c, seen \cup {b} >>
    BY DEF b, c, seen
  <2>6. << c, seen \cup {b} >> \in Q
    BY <2>1, <2>2, <2>3
  <2>7. f[p] = << b >> \o f[<< c, seen \cup {b} >>]
    <3>1. p \in P /\ c \in Leaves \ (seen \cup {b})
      BY <2>2, <2>4
    <3> QED
      BY <1>1, <3>1 DEF b, c, seen
  <2>8. rank2[step[p]] < rank2[p]
    BY <2>1, <2>2, <2>5, <2>6 DEF b
  <2> QED
    BY <2>5, <2>6, <2>7, <2>8 DEF b, c
<1>5. StepsDown(Q, rank2, stop, step)
  <2>1. rank2 \in [Q -> Nat]
    BY <1>2
  <2> HIDE DEF Q, rank2, step
  <2> QED
    BY <1>4, <2>1 DEF StepsDown
<1>6. ASSUME NEW p \in Q, p \in stop \/ step[p] \in T PROVE p \in T
  <2>1. p[1] \in Leaves /\ p \in P
    OBVIOUS
  <2>2. CASE node[p[1]].next = 0
    <3>1. f[p] = << p[1] >>
      BY <1>1, <1>3, <2>1, <2>2
    <3>2. IsChain(<< p[1] >>, p[1])
      BY <2>1, <2>2 DEF IsChain
    <3> QED
      BY <3>1, <3>2
  <2>3. CASE node[p[1]].next # 0
    <3>1. step[p] \in T
      BY <1>6, <2>3
    <3>2. IsChain(f[step[p]], node[p[1]].next) /\ f[p] = << p[1] >> \o f[step[p]]
      BY <1>4, <2>3, <3>1
    <3>3. IsChain(f[p], p[1])
      BY <2>1, <3>2, ChainExtends
    <3> QED
      BY <3>3
  <2> QED
    BY <2>2, <2>3
<1>7. << FirstLeaf, {} >> \in Q
  BY <1>3
<1>8. Q \subseteq T
  <2> HIDE DEF Q, T, stop, step, rank2
  <2> QED
    BY <1>5, <1>6, StepInduction
<1>9. << FirstLeaf, {} >> \in T /\ << FirstLeaf, {} >>[1] = FirstLeaf
  BY <1>7, <1>8
<1> QED
  BY <1>1, <1>9

\* Only the first leaf has no leaf before it.
LEMMA OneFirst ==
  ASSUME Inv, Ordered, NEW b \in Leaves, node[b].last = 0
  PROVE  b = FirstLeaf
<1>1. FirstLeaf \in Leaves /\ node[FirstLeaf].last = 0
  BY EndLeaves
<1>2. CASE \A c \in Leaves : node[c].kv # << >>
  <2> DEFINE key == [p \in Places |-> - KeyAt(p)]
             start == {p \in Places : AtStart(p)}
             step == [p \in Places |-> Pred(p)]
  <2>1. ASSUME NEW c \in Leaves, node[c].last = 0
        PROVE  Place(c, 1) \in Places /\ Place(c, 1) \in start /\ Place(c, 1).blk = c
    <3>1. 1 \in 1 .. Len(node[c].kv)
      BY <1>2, KeyFacts DEF Leaves
    <3>2. Place(c, 1) \in Places
      BY <3>1, PlaceFacts
    <3> QED
      BY <2>1, <3>2 DEF AtStart, Place
  <2>2. NextPoint(Places, key, start, step)
    BY PredPoint
  <2> DEFINE p == Place(b, 1)
             q == Place(FirstLeaf, 1)
  <2>3. p \in Places /\ q \in Places /\ p \in start /\ q \in start /\ p.blk = b /\ q.blk = FirstLeaf
    BY <1>1, <2>1
  <2> HIDE DEF p, q
  <2>4. KeyAt(p) \in Int /\ KeyAt(q) \in Int /\ key[p] = - KeyAt(p) /\ key[q] = - KeyAt(q)
    BY <2>3, PlaceFacts
  <2> HIDE DEF key, start, step
  <2>5. key[p] <= key[q] /\ key[q] <= key[p] /\ (key[p] = key[q] => p = q)
    BY <2>2, <2>3 DEF NextPoint
  <2>6. p = q
    BY <2>4, <2>5
  <2> QED
    BY <2>3, <2>6
<1>3. CASE \E c \in Leaves : node[c].kv = << >>
  <2>1. PICK c \in Leaves : node[c].kv = << >>
    BY <1>3
  <2>2. ASSUME NEW d \in Leaves PROVE d = root
    <3>1. Places = {}
      BY <2>1, EmptyTree
    <3>2. node[d].kv = << >>
      BY <3>1, LeafEnds
    <3> QED
      BY <3>2 DEF Inv, NodesHaveRoom, Leaves
  <2> QED
    BY <1>1, <2>2
<1> QED
  BY <1>2, <1>3

\* The chain has every leaf.
LEMMA ChainWhole ==
  ASSUME Inv, Ordered
  PROVE  Leaves \subseteq ToSet(LeafChain(FirstLeaf))
<1> DEFINE ch == LeafChain(FirstLeaf)
<1>1. IsChain(ch, FirstLeaf)
  BY ScanChain
<1> HIDE DEF ch
<1>2. ch \in Seq(Leaves) /\ Len(ch) \in Nat /\ ToSet(ch) = {ch[i] : i \in 1 .. Len(ch)}
  BY <1>1 DEF IsChain, ToSet
<1>3. PICK rank \in [Leaves -> Nat], n \in Nat :
        /\ \A b \in Leaves : rank[b] < n
        /\ \A b \in Leaves : node[b].next # 0 =>
             node[b].next \in Leaves /\ rank[node[b].next] < rank[b]
  BY LeavesRanked
<1> DEFINE rank2 == [b \in Leaves |-> n - rank[b]]
           stop == {b \in Leaves : node[b].last = 0}
           step == [b \in Leaves |-> node[b].last]
<1>4. ASSUME NEW b \in Leaves, node[b].last # 0
      PROVE  node[b].last \in Leaves /\ node[node[b].last].next = b /\ rank[node[b].last] > rank[b]
  <2> DEFINE c == node[b].last
  <2>1. c \in DOMAIN node /\ node[c].next = b /\ node[c].next # 0
    BY <1>4, LastFacts DEF Leaves
  <2> HIDE DEF c
  <2>2. node[c].leaf
    BY <2>1, NextFacts DEF Leaves
  <2>3. c \in Leaves
    BY <2>1, <2>2 DEF Leaves
  <2>4. rank[c] > rank[b]
    BY <1>3, <2>1, <2>3
  <2> QED
    BY <2>1, <2>3, <2>4 DEF c
<1>5. StepsDown(Leaves, rank2, stop, step)
  <2>1. rank2 \in [Leaves -> Nat]
    BY <1>3
  <2>2. ASSUME NEW b \in Leaves \ stop PROVE step[b] \in Leaves /\ rank2[step[b]] < rank2[b]
    <3>1. node[b].last \in Leaves /\ rank[node[b].last] > rank[b] /\ step[b] = node[b].last
      BY <1>4
    <3> QED
      BY <1>3, <3>1
  <2> QED
    BY <2>1, <2>2 DEF StepsDown
<1>6. ASSUME NEW b \in Leaves, b \in stop \/ step[b] \in ToSet(ch) PROVE b \in ToSet(ch)
  <2>1. CASE node[b].last = 0
    <3>1. b = FirstLeaf
      BY <2>1, OneFirst
    <3> QED
      BY <1>1, <1>2, <3>1 DEF IsChain
  <2>2. CASE node[b].last # 0
    <3>1. PICK i \in 1 .. Len(ch) : ch[i] = node[b].last
      BY <1>2, <1>6, <2>2
    <3>2. node[ch[i]].next = b /\ b # 0
      BY <1>4, <2>2, <3>1, BlockFacts DEF Leaves, Inv
    <3>3. i # Len(ch)
      BY <1>1, <3>2 DEF IsChain
    <3> DEFINE j == i + 1
    <3>4. j \in 1 .. Len(ch) /\ j > 1 /\ j - 1 = i
      BY <1>2, <3>3
    <3> HIDE DEF j
    <3>5. ch[j] = b
      BY <1>1, <3>2, <3>4 DEF IsChain
    <3> QED
      BY <1>2, <3>4, <3>5
  <2> QED
    BY <2>1, <2>2
<1>7. Leaves \subseteq ToSet(ch)
  <2> HIDE DEF stop, step, rank2
  <2> QED
    BY <1>5, <1>6, StepInduction
<1> QED
  BY <1>7 DEF ch

\* A chain of all leaves, each below the next one, is a scan in order.
LEMMA ScanOrdered == Inv /\ Ordered => ScanIsOrdered
<1> SUFFICES ASSUME Inv, Ordered PROVE ScanIsOrdered
  OBVIOUS
<1> DEFINE ch == LeafChain(FirstLeaf)
           kvs == [i \in DOMAIN ch |-> node[ch[i]].kv]
           scan == FlattenSeq(kvs)
<1>1. IsChain(ch, FirstLeaf) /\ Leaves \subseteq ToSet(ch)
  BY ScanChain, ChainWhole
<1> HIDE DEF ch
<1>2. /\ ch \in Seq(Leaves) /\ Len(ch) \in Nat /\ Len(ch) >= 1 /\ DOMAIN ch = 1 .. Len(ch)
      /\ \A i \in 1 .. Len(ch) : ch[i] \in Leaves /\ ch[i] \in DOMAIN node /\ node[ch[i]].kv \in Seq(Item)
  <2>1. ch \in Seq(Leaves) /\ Len(ch) \in Nat /\ Len(ch) >= 1 /\ DOMAIN ch = 1 .. Len(ch)
    BY <1>1 DEF IsChain
  <2>2. ASSUME NEW i \in 1 .. Len(ch)
        PROVE  ch[i] \in Leaves /\ ch[i] \in DOMAIN node /\ node[ch[i]].kv \in Seq(Item)
    BY <2>1, BlockFacts DEF Leaves, Inv
  <2> QED
    BY <2>1, <2>2
<1>3. /\ kvs \in Seq(Seq(Item)) /\ Len(kvs) = Len(ch)
      /\ \A i \in 1 .. Len(ch) : kvs[i] = node[ch[i]].kv
  BY <1>2
<1> HIDE DEF kvs
<1>4. CASE \A b \in Leaves : node[b].kv # << >>
  <2>1. ASSUME NEW i \in 1 .. Len(kvs) PROVE Len(kvs[i]) >= 1 /\ Ascends(kvs[i])
    <3> DEFINE b == ch[i]
    <3>1. b \in Leaves /\ b \in DOMAIN node /\ kvs[i] = node[b].kv /\ Len(node[b].kv) \in Nat /\ Len(node[b].kv) >= 1
      BY <1>2, <1>3, <1>4, KeyFacts
    <3> HIDE DEF b
    <3>2. \A j \in 1 .. Len(node[b].kv) - 1 : node[b].kv[j].key < node[b].kv[j + 1].key
      BY <3>1 DEF Ordered, KeysSorted
    <3> QED
      BY <3>1, <3>2 DEF Ascends
  <2>2. ASSUME NEW i \in 1 .. Len(kvs), i > 1
        PROVE  kvs[i - 1][Len(kvs[i - 1])].key < kvs[i][1].key
    <3> DEFINE b == ch[i - 1]
               c == ch[i]
    <3>1. /\ i - 1 \in 1 .. Len(ch) /\ b \in DOMAIN node /\ c \in Leaves /\ node[b].next = c
          /\ kvs[i - 1] = node[b].kv /\ kvs[i] = node[c].kv
      BY <1>1, <1>2, <1>3, <2>2 DEF IsChain
    <3> HIDE DEF b, c
    <3>2. c # 0
      BY <3>1, BlockFacts DEF Leaves, Inv
    <3>3. MaxKey(node[b].kv) < node[c].kv[1].key /\ MaxKey(node[b].kv) = node[b].kv[Len(node[b].kv)].key
      BY <3>1, <3>2, NextFacts, KeyFacts
    <3> QED
      BY <3>1, <3>3
  <2>3. Ascends(scan)
    BY <1>2, <1>3, <2>1, <2>2, FlattenAscends
  <2> QED
    BY <1>1, <2>3 DEF ScanIsOrdered, Ascends, ch, kvs
<1>5. CASE \E b \in Leaves : node[b].kv = << >>
  <2>1. Places = {}
    BY <1>5, EmptyTree
  <2>2. ASSUME NEW d \in Leaves PROVE node[d].kv = << >> /\ node[d].next = 0
    <3>1. node[d].kv = << >>
      BY <2>1, LeafEnds
    <3> QED
      BY <3>1, KeyFacts DEF Leaves
  <2>3. Len(ch) = 1
    <3>1. CASE Len(ch) > 1
      <4>1. 2 \in 1 .. Len(ch) /\ 1 \in 1 .. Len(ch) /\ 2 - 1 = 1
        BY <1>2, <3>1
      <4>2. node[ch[1]].next = ch[2] /\ ch[2] \in Leaves /\ ch[1] \in Leaves
        BY <1>1, <1>2, <4>1 DEF IsChain
      <4> QED
        BY <2>2, <4>2, BlockFacts DEF Leaves, Inv
    <3> QED
      BY <1>2, <3>1
  <2>4. Len(kvs) = 1 /\ kvs[1] = << >>
    BY <1>2, <1>3, <2>2, <2>3
  <2>5. scan = << >>
    <3>1. kvs \in Seq(Seq(Item)) /\ Len(kvs) >= 1
      BY <1>3, <2>4
    <3>2. PICK f : FlattenSeq(kvs) = f[Len(kvs)] /\ f[1] = kvs[1]
      <4> HIDE DEF kvs
      <4> QED
        BY <3>1, FlattenWalk
    <3> HIDE DEF kvs
    <3> QED
      BY <2>4, <3>2
  <2>6. Ascends(scan)
    BY <2>5 DEF Ascends
  <2> QED
    BY <1>1, <2>6 DEF ScanIsOrdered, Ascends, ch, kvs
<1> QED
  BY <1>4, <1>5

\* A scan along header.next from the first leaf visits every leaf, in the
\* order of the keys, in the middle of a put() too.
THEOREM ScanTheorem == Spec => []ScanIsOrdered
BY InvHolds, OrderHolds, ScanOrdered, PTL
=============================================================================
