---------------------------- MODULE BTreeProofs -----------------------------
(* Theorems about BTree, for every set of keys and values and every size of  *)
(* the blocks.                                                               *)
EXTENDS BTree, SequenceTheorems, WellFoundedInduction, TLAPS

(***************************************************************************)
(* Lemmas on sequences and on the search in a block                        *)
(***************************************************************************)

\* InsertAt() makes room for one item and moves the others as a whole.
LEMMA InsertAtProperties ==
  ASSUME NEW S, NEW s \in Seq(S), NEW i \in 1 .. Len(s) + 1, NEW e \in S
  PROVE  /\ InsertAt(s, i, e) \in Seq(S)
         /\ Len(InsertAt(s, i, e)) = Len(s) + 1
         /\ \A j \in 1 .. Len(s) + 1 :
              InsertAt(s, i, e)[j] = IF j < i THEN s[j] ELSE IF j = i THEN e ELSE s[j - 1]
<1> DEFINE a == SubSeq(s, 1, i - 1)
           b == SubSeq(s, i, Len(s))
           m == a \o <<e>>
<1>1. a \in Seq(S) /\ Len(a) = i - 1 /\ \A j \in 1 .. i - 1 : a[j] = s[j]
  BY SubSeqProperties, ElementOfSeq
<1>2. /\ b \in Seq(S) /\ Len(b) = Len(s) - i + 1
      /\ \A j \in 1 .. Len(s) - i + 1 : b[j] = s[i + j - 1]
  BY SubSeqProperties, ElementOfSeq
<1>3. <<e>> \in Seq(S) /\ Len(<<e>>) = 1 /\ <<e>>[1] = e
  OBVIOUS
<1>4. InsertAt(s, i, e) = m \o b
  BY DEF InsertAt
<1> HIDE DEF a, b
<1>5. m \in Seq(S) /\ Len(m) = i /\ \A j \in 1 .. i : m[j] = IF j < i THEN s[j] ELSE e
  BY <1>1, <1>3, ConcatProperties
<1> HIDE DEF m
<1>6. /\ m \o b \in Seq(S)
      /\ Len(m \o b) = Len(s) + 1
      /\ \A j \in 1 .. Len(s) + 1 : (m \o b)[j] = IF j <= i THEN m[j] ELSE b[j - i]
  <2>1. Len(m) + Len(b) = Len(s) + 1
    BY <1>2, <1>5
  <2>2. /\ m \o b \in Seq(S)
        /\ Len(m \o b) = Len(m) + Len(b)
        /\ \A j \in 1 .. Len(m) + Len(b) :
             (m \o b)[j] = IF j <= Len(m) THEN m[j] ELSE b[j - Len(m)]
    BY <1>2, <1>5, ConcatProperties, Zenon
  <2> QED
    BY <1>5, <2>1, <2>2, Zenon
<1>7. \A j \in 1 .. Len(s) + 1 : j > i => b[j - i] = s[j - 1]
  BY <1>2
<1>8. \A j \in 1 .. Len(s) + 1 :
        (m \o b)[j] = IF j < i THEN s[j] ELSE IF j = i THEN e ELSE s[j - 1]
  BY <1>5, <1>6, <1>7
<1> QED
  BY <1>4, <1>6, <1>8

\* A part of a sequence, empty when m = n + 1.
LEMMA SliceProperties ==
  ASSUME NEW S, NEW s \in Seq(S), NEW m \in Nat, m >= 1, NEW n \in Nat,
         n <= Len(s), m <= n + 1
  PROVE  /\ SubSeq(s, m, n) \in Seq(S)
         /\ Len(SubSeq(s, m, n)) = n - m + 1
         /\ \A i \in 1 .. n - m + 1 : SubSeq(s, m, n)[i] = s[m + i - 1]
<1>1. \A i \in m .. n : s[i] \in S
  BY ElementOfSeq
<1> QED
  BY <1>1, SubSeqProperties

LEMMA FrontProperties ==
  ASSUME NEW S, NEW s \in Seq(S), s # << >>
  PROVE  /\ Front(s) \in Seq(S)
         /\ Len(Front(s)) = Len(s) - 1
         /\ \A i \in 1 .. Len(s) - 1 : Front(s)[i] = s[i]
<1> DEFINE n == Len(s) - 1
           f == SubSeq(s, 1, n)
<1>1. n \in Nat /\ n <= Len(s)
  BY EmptySeq
<1> HIDE DEF n
<1>2. /\ f \in Seq(S) /\ Len(f) = n - 1 + 1
      /\ \A i \in 1 .. n - 1 + 1 : f[i] = s[1 + i - 1]
  BY <1>1, SliceProperties
<1>3. f \in Seq(S) /\ Len(f) = n /\ \A i \in 1 .. n : f[i] = s[i]
  BY <1>1, <1>2
<1> QED
  BY <1>3 DEF Front, n

\* A nonempty set of natural numbers has a least element.
LEMMA LeastElement ==
  ASSUME NEW T, T \subseteq Nat, T # {}
  PROVE  \E x \in T : \A y \in T : x <= y
<1> DEFINE R == {s \in Nat \X Nat : s[1] < s[2]}
<1>1. OpToRel(<, Nat) = R
  BY DEF OpToRel
<1>2. IsWellFoundedOn(R, Nat)
  BY <1>1, NatLessThanWellFounded, Zenon
<1> HIDE DEF R
<1>3. PICK x \in T : \A y \in T : ~ (<<y, x>> \in R)
  BY <1>2, WFMin
<1>4. \A y, z \in Nat : y < z => <<y, z>> \in R
  BY DEF R
<1>5. \A y \in T : ~ (y < x)
  BY <1>3, <1>4
<1> QED
  BY <1>5

\* lub() returns an index of the block or the one after its last item, and
\* separates the keys below k from the others.
LEMMA LubProperties ==
  ASSUME NEW kv \in Seq(Item), NEW k \in Key
  PROVE  /\ Lub(kv, k) \in 1 .. Len(kv) + 1
         /\ Lub(kv, k) = Len(kv) + 1 \/ kv[Lub(kv, k)].key >= k
         /\ \A j \in 1 .. Lub(kv, k) - 1 : kv[j].key < k
<1> DEFINE T == {i \in 1 .. Len(kv) + 1 : i = Len(kv) + 1 \/ kv[i].key >= k}
<1>1. \A i \in 1 .. Len(kv) : kv[i].key \in Int
  <2>1. \A i \in 1 .. Len(kv) : kv[i] \in Item
    BY ElementOfSeq
  <2> QED
    BY <2>1, KeyAssumption DEF Item
<1>2. T \subseteq Nat /\ Len(kv) + 1 \in T
  OBVIOUS
<1>3. PICK x \in T : \A y \in T : x <= y
  BY <1>2, LeastElement
<1>4. \A j \in 1 .. x - 1 : kv[j].key < k
  BY <1>1, <1>3, KeyAssumption
<1>5. \E i \in 1 .. Len(kv) + 1 : /\ i = Len(kv) + 1 \/ kv[i].key >= k
                                  /\ \A j \in 1 .. i - 1 : kv[j].key < k
  BY <1>3, <1>4
<1> QED
  BY <1>5 DEF Lub

(***************************************************************************)
(* The inductive invariant                                                 *)
(***************************************************************************)

\* The structure of the tree.  The parts need each other: a parent has room
\* for a split because only `cur' is full, a descent stays in the tree because
\* it is balanced, and the levels tell the blocks that a split writes apart.
Inv == TypeOK /\ NodesHaveRoom /\ Balanced /\ SiblingsLinked /\ FramesFormPath

\* The parts of a block in use.
LEMMA BlockFacts ==
  ASSUME TypeOK, NEW b \in DOMAIN node
  PROVE  /\ node[b] \in NodeBlock
         /\ b \in Nat /\ b # 0 /\ b < countOfBlock
         /\ node[b].leaf \in BOOLEAN
         /\ node[b].kv \in Seq(Item)
         /\ node[b].next \in Nat /\ node[b].last \in Nat /\ node[b].level \in Nat
         /\ Len(node[b].kv) \in Nat
         /\ \A i \in 1 .. Len(node[b].kv) : node[b].kv[i] \in Item
         /\ Size(node[b]) \in Nat /\ Size(node[b]) >= 2
<1>1. node[b] \in NodeBlock
  BY DEF TypeOK
<1>2. b \in Nat /\ b # 0 /\ b < countOfBlock
  BY DEF TypeOK
<1>3. /\ node[b].leaf \in BOOLEAN /\ node[b].kv \in Seq(Item)
      /\ node[b].next \in Nat /\ node[b].last \in Nat /\ node[b].level \in Nat
  BY <1>1 DEF NodeBlock
<1>4. Size(node[b]) \in Nat /\ Size(node[b]) >= 2
  BY SizeAssumption DEF Size
<1> QED
  BY <1>1, <1>2, <1>3, <1>4, ElementOfSeq, LenProperties

\* The arguments of a running put().
LEMMA ArgFacts ==
  ASSUME Inv, pc # "idle"
  PROVE  arg[1] \in Key /\ arg[2] \in Val /\ cur \in DOMAIN node
BY DEF Inv, TypeOK, FramesFormPath

\* A new item and a changed one are items.
LEMMA ItemFacts ==
  ASSUME NEW k \in Key, NEW v \in Val \cup Nat, NEW it \in Item, NEW f \in {0, 1}
  PROVE  /\ NewItem(k, v) \in Item
         /\ [it EXCEPT !.val = v, !.flag = f] \in Item
         /\ [it EXCEPT !.flag = f] \in Item
         /\ [it EXCEPT !.key = k] \in Item
         /\ it.key \in Key /\ it.val \in Val \cup Nat
         /\ [it EXCEPT !.key = k].val = it.val
BY DEF NewItem, Item

\* What a split changes of the block after the one it splits.
LEMMA RelinkedBlock ==
  ASSUME NEW n \in NodeBlock, NEW l \in Nat
  PROVE  /\ WithLast(n, l) \in NodeBlock
         /\ WithLast(n, l).leaf = n.leaf /\ WithLast(n, l).kv = n.kv
         /\ WithLast(n, l).next = n.next /\ WithLast(n, l).last = l
         /\ WithLast(n, l).level = n.level
BY DEF WithLast, NodeBlock

\* A step that changes no link, no height and no root keeps the siblings linked.
LEMMA LinksKept ==
  ASSUME SiblingsLinked, root \in DOMAIN node, root' = root, DOMAIN node' = DOMAIN node,
         \A b \in DOMAIN node :
           /\ node'[b].next = node[b].next /\ node'[b].last = node[b].last
           /\ node'[b].level = node[b].level
  PROVE  SiblingsLinked'
<1>1. node'[root].next = 0 /\ node'[root].last = 0
  BY DEF SiblingsLinked
<1>2. ASSUME NEW b \in DOMAIN node
      PROVE  /\ node'[b].next # b
             /\ node'[b].next # 0 => /\ node'[b].next \in DOMAIN node
                                     /\ node'[node'[b].next].last = b
                                     /\ node'[node'[b].next].level = node'[b].level
  BY DEF SiblingsLinked
<1>3. ASSUME NEW b \in DOMAIN node
      PROVE  node'[b].last # 0 => /\ node'[b].last \in DOMAIN node
                                  /\ node'[node'[b].last].next = b
  BY DEF SiblingsLinked
<1> QED
  BY <1>1, <1>2, <1>3 DEF SiblingsLinked

\* Changing the items of one leaf changes nothing of the structure but the
\* number of its items.
LEMMA LeafUpdate ==
  ASSUME Inv, NEW b \in DOMAIN node, node[b].leaf, NEW kv \in Seq(Item),
         node' = [node EXCEPT ![b] = [@ EXCEPT !.kv = kv]], root' = root
  PROVE  /\ DOMAIN node' = DOMAIN node
         /\ node' \in [DOMAIN node -> NodeBlock]
         /\ node'[b].kv = kv /\ node'[b].leaf
         /\ \A c \in DOMAIN node \ {b} : node'[c] = node[c]
         /\ \A c \in DOMAIN node : node'[c].leaf = node[c].leaf /\ node'[c].level = node[c].level
         /\ Balanced' /\ SiblingsLinked'
<1>1. /\ DOMAIN node' = DOMAIN node
      /\ node'[b] = [node[b] EXCEPT !.kv = kv]
      /\ \A c \in DOMAIN node \ {b} : node'[c] = node[c]
  BY DEF Inv, TypeOK
<1>2. /\ node'[b] \in NodeBlock /\ node'[b].kv = kv
      /\ node'[b].leaf = node[b].leaf /\ node'[b].level = node[b].level
      /\ node'[b].next = node[b].next /\ node'[b].last = node[b].last
  BY <1>1, BlockFacts DEF Inv, NodeBlock
<1>3. node' \in [DOMAIN node -> NodeBlock]
  BY <1>1, <1>2, BlockFacts DEF Inv, TypeOK
<1>4. \A c \in DOMAIN node :
         /\ node'[c].leaf = node[c].leaf /\ node'[c].level = node[c].level
         /\ node'[c].next = node[c].next /\ node'[c].last = node[c].last
  BY <1>1, <1>2
<1>5. Balanced'
  BY <1>1, <1>4 DEF Inv, Balanced
<1>6. SiblingsLinked'
  BY <1>1, <1>4, LinksKept DEF Inv, TypeOK
<1> QED
  BY <1>1, <1>2, <1>3, <1>4, <1>5, <1>6

(***************************************************************************)
(* Every action preserves it                                               *)
(***************************************************************************)

LEMMA InitInv == Init => Inv
<1> SUFFICES ASSUME Init PROVE Inv
  OBVIOUS
<1> DEFINE n == [leaf |-> TRUE, kv |-> << >>, next |-> 0, last |-> 0, level |-> 0]
<1>1. DOMAIN node = {1} /\ node[1] = n /\ root = 1 /\ pc = "idle"
  BY DEF Init
<1>2. n \in NodeBlock
  BY DEF NodeBlock
<1>3. TypeOK
  <2>1. DOMAIN node \subseteq 1 .. countOfBlock - 1 /\ node \in [DOMAIN node -> NodeBlock]
    BY <1>1, <1>2 DEF Init
  <2>2. stack \in Seq(Frame)
    BY DEF Init
  <2> QED
    BY <1>1, <2>1, <2>2, BlocksAssumption DEF Init, TypeOK
<1>4. NodesHaveRoom
  <2>1. Len(n.kv) = 0 /\ n.leaf
    OBVIOUS
  <2> QED
    BY <1>1, <2>1, SizeAssumption DEF NodesHaveRoom, Full, Size
<1>5. Balanced
  BY <1>1 DEF Balanced
<1>6. SiblingsLinked
  BY <1>1 DEF SiblingsLinked
<1>7. FramesFormPath
  BY <1>1 DEF FramesFormPath, OnPath
<1> QED
  BY <1>3, <1>4, <1>5, <1>6, <1>7 DEF Inv

LEMMA PutCallInv ==
  ASSUME Inv, NEW k \in Key, NEW v \in Val, PutCall(k, v)
  PROVE  Inv'
<1> USE DEF Inv
<1>1. /\ node' = node /\ root' = root /\ pc = "idle" /\ pc' = "down"
      /\ cur' = root /\ stack' = << >> /\ arg' = <<k, v>>
  BY DEF PutCall, meta
<1>2. TypeOK'
  <2>1. stack' \in Seq(Frame)
    BY <1>1
  <2> QED
    BY <1>1, <2>1 DEF TypeOK, PutCall, meta
<1>3. NodesHaveRoom'
  BY <1>1 DEF NodesHaveRoom, Full, Size
<1>4. Balanced' /\ SiblingsLinked'
  BY <1>1 DEF Balanced, SiblingsLinked
<1>5. FramesFormPath'
  BY <1>1 DEF FramesFormPath, OnPath, TypeOK
<1> QED
  BY <1>2, <1>3, <1>4, <1>5

\* What Descend finds in an interior block: a child one level below it.
LEMMA ChildFacts ==
  ASSUME Inv, NEW b \in DOMAIN node, ~ node[b].leaf, NEW k \in Key
  PROVE  /\ ChildIndex(node[b], k) \in 1 .. Len(node[b].kv)
         /\ node[b].kv[ChildIndex(node[b], k)].val \in DOMAIN node
         /\ node[node[b].kv[ChildIndex(node[b], k)].val].level + 1 = node[b].level
<1>1. node[b].kv \in Seq(Item) /\ Len(node[b].kv) \in Nat
  BY BlockFacts DEF Inv
<1>2. Len(node[b].kv) # 0
  BY <1>1, EmptySeq DEF Inv, NodesHaveRoom
<1>3. ChildIndex(node[b], k) \in 1 .. Len(node[b].kv)
  BY <1>1, <1>2, LubProperties DEF ChildIndex
<1> QED
  BY <1>3 DEF Inv, Balanced

LEMMA DescendInv ==
  ASSUME Inv, Descend
  PROVE  Inv'
<1> USE DEF Inv
<1> DEFINE n == node[cur]
           i == ChildIndex(n, arg[1])
           f == [blk |-> cur, idx |-> i, max |-> Lub(n.kv, arg[1]) = Len(n.kv) + 1]
<1>1. /\ node' = node /\ root' = root /\ pc = "down" /\ pc' = "down" /\ ~ n.leaf
      /\ cur' = n.kv[i].val /\ stack' = Append(stack, f) /\ arg' = arg
  BY DEF Descend, meta
<1>2. arg[1] \in Key /\ cur \in DOMAIN node
  BY <1>1, ArgFacts
<1>3. /\ i \in 1 .. Len(n.kv) /\ cur' \in DOMAIN node
      /\ node[cur'].level + 1 = n.level
  BY <1>1, <1>2, ChildFacts
<1> HIDE DEF i
<1>4. Len(n.kv) \in Nat /\ n.level \in Nat /\ node[cur'].level \in Nat /\ cur \in Nat
  BY <1>2, <1>3, BlockFacts
<1>5. f \in Frame
  BY <1>3, <1>4 DEF Frame
<1> HIDE DEF f
<1>6. /\ stack' \in Seq(Frame) /\ stack' # << >> /\ Len(stack') = Len(stack) + 1
      /\ \A j \in 1 .. Len(stack) : stack'[j] = stack[j]
      /\ stack'[Len(stack) + 1] = f
  BY <1>1, <1>5, AppendProperties DEF TypeOK
<1>7. TypeOK'
  BY <1>1, <1>3, <1>6 DEF TypeOK, Descend, meta
<1>8. NodesHaveRoom'
  BY <1>1 DEF NodesHaveRoom, Full, Size
<1>9. Balanced' /\ SiblingsLinked'
  BY <1>1 DEF Balanced, SiblingsLinked
<1>10. FramesFormPath'
  <2>1. Len(stack) \in Nat /\ stack \in Seq(Frame)
    BY LenProperties DEF TypeOK
  <2>2. root = stack'[1].blk
    BY <1>1, <1>6, <2>1, EmptySeq DEF FramesFormPath, f
  <2>3. ASSUME NEW j \in 1 .. Len(stack')
        PROVE  OnPath(j)'
    <3>1. CASE j = Len(stack')
      BY <3>1, <1>1, <1>2, <1>3, <1>4, <1>6, <2>1 DEF f, OnPath
    <3>2. CASE j # Len(stack')
      <4>1. j \in 1 .. Len(stack)
        BY <3>2, <1>6, <2>1
      <4>2. stack'[j + 1].blk = IF j = Len(stack) THEN cur ELSE stack[j + 1].blk
        BY <4>1, <1>6, <2>1 DEF f
      <4>3. /\ stack[j].blk \in DOMAIN node /\ ~ node[stack[j].blk].leaf
            /\ node[stack[j].blk].level = n.level + Len(stack) - j + 1
            /\ stack[j].idx \in 1 .. Len(node[stack[j].blk].kv)
            /\ node[stack[j].blk].kv[stack[j].idx].val =
                 IF j = Len(stack) THEN cur ELSE stack[j + 1].blk
        BY <4>1, <1>1 DEF FramesFormPath, OnPath
      <4>4. stack'[j] = stack[j] /\ j # Len(stack') /\ Len(stack') = Len(stack) + 1
        BY <3>2, <4>1, <1>6
      <4>5. n.level + Len(stack) - j + 1 = node[cur'].level + Len(stack') - j + 1
        <5>1. n.level \in Int /\ node[cur'].level \in Int /\ j \in Int
          BY <4>1, <1>4
        <5>2. Len(stack) \in Int /\ Len(stack') = Len(stack) + 1 /\ n.level = node[cur'].level + 1
          BY <4>4, <1>3, <5>1, <2>1
        <5> HIDE DEF n
        <5> QED
          BY <5>1, <5>2
      <4> QED
        BY <1>1, <4>2, <4>3, <4>4, <4>5 DEF OnPath
    <3> QED
      BY <3>1, <3>2
  <2> QED
    BY <1>1, <1>3, <1>6, <2>2, <2>3 DEF FramesFormPath
<1> QED
  BY <1>7, <1>8, <1>9, <1>10

\* Growing the file makes room for one more block.
LEMMA GrowFacts ==
  ASSUME NEW number \in Nat, NEW count \in Nat, count >= 2, count <= number
  PROVE  Grow(number, count) \in Nat /\ count + 1 <= Grow(number, count)
BY DEF Grow

\* insertValue() keeps the counters of the metadata in order.
LEMMA StoreValueFacts ==
  ASSUME TypeOK, StoreValue
  PROVE  /\ countOfBlock' \in Nat /\ countOfBlock' >= countOfBlock
         /\ numberOfBlock' \in Nat /\ countOfBlock' <= numberOfBlock'
<1>1. PICK d \in {0, 1} :
        /\ countOfBlock' = countOfBlock + d
        /\ numberOfBlock' = IF d = 1 THEN Grow(numberOfBlock, countOfBlock) ELSE numberOfBlock
  BY DEF StoreValue, NewDataBlocks
<1> QED
  BY <1>1, GrowFacts DEF TypeOK

\* put() returning without a change to the blocks.
LEMMA ReturnInv ==
  ASSUME Inv, node' = node, UNCHANGED <<root, countOfBlock>>, countOfItem' \in Nat,
         \A b \in DOMAIN node : ~ Full(node[b]),
         NEW r \in {"stored", "duplicate", "error"}, Return(r),
         numberOfBlock' \in Nat, countOfBlock <= numberOfBlock'
  PROVE  Inv'
<1> USE DEF Inv
<1>1. /\ pc' = "idle" /\ cur' = 0 /\ stack' = << >> /\ arg' = << >> /\ ret' = r
      /\ stack' \in Seq(Frame)
  BY DEF Return
<1>2. TypeOK'
  BY <1>1 DEF TypeOK
<1>3. NodesHaveRoom'
  BY <1>1 DEF NodesHaveRoom, Full, Size
<1>4. Balanced' /\ SiblingsLinked'
  BY DEF Balanced, SiblingsLinked
<1>5. FramesFormPath'
  BY <1>1 DEF FramesFormPath, OnPath
<1> QED
  BY <1>2, <1>3, <1>4, <1>5

LEMMA LeafDuplicateInv ==
  ASSUME Inv, LeafDuplicate
  PROVE  Inv'
<1>1. \A b \in DOMAIN node : ~ Full(node[b])
  BY DEF Inv, NodesHaveRoom, LeafDuplicate, AtLeaf
<1>2. numberOfBlock' \in Nat /\ countOfBlock <= numberOfBlock'
  BY DEF LeafDuplicate, meta, Inv, TypeOK
<1> QED
  BY <1>1, <1>2, ReturnInv DEF LeafDuplicate, meta, Inv, TypeOK

LEMMA LeafValueErrorInv ==
  ASSUME Inv, LeafValueError
  PROVE  Inv'
<1>1. \A b \in DOMAIN node : ~ Full(node[b])
  BY DEF Inv, NodesHaveRoom, LeafValueError, AtLeaf
<1>2. numberOfBlock' \in Nat /\ countOfBlock <= numberOfBlock'
  BY GrowFacts DEF LeafValueError, Inv, TypeOK
<1> QED
  BY <1>1, <1>2, ReturnInv DEF LeafValueError, Inv, TypeOK

\* The parent of cur and the root, when a frame is left to return to.
LEMMA PathFacts ==
  ASSUME Inv, pc # "idle", stack # << >>
  PROVE  /\ Len(stack) \in Nat /\ Len(stack) >= 1
         /\ Parent \in Frame
         /\ Parent.blk \in DOMAIN node /\ ~ node[Parent.blk].leaf
         /\ node[Parent.blk].level = node[cur].level + 1
         /\ Parent.idx \in 1 .. Len(node[Parent.blk].kv)
         /\ node[Parent.blk].kv[Parent.idx].val = cur
         /\ ~ node[root].leaf /\ root # cur
         /\ root = stack[1].blk
<1>1. Len(stack) \in Nat /\ Len(stack) >= 1
  BY EmptySeq DEF Inv, TypeOK
<1>2. cur \in DOMAIN node /\ node[cur].level \in Nat
  BY ArgFacts, BlockFacts DEF Inv
<1>3. OnPath(Len(stack)) /\ OnPath(1)
  BY <1>1 DEF Inv, FramesFormPath
<1>4. node[Parent.blk].level = node[cur].level + 1
  <2>1. node[Parent.blk].level = node[cur].level + Len(stack) - Len(stack) + 1
    BY <1>3 DEF OnPath, Parent, Last
  <2> QED
    BY <1>1, <1>2, <2>1
<1>5. /\ Parent.blk \in DOMAIN node /\ ~ node[Parent.blk].leaf
      /\ Parent.idx \in 1 .. Len(node[Parent.blk].kv)
      /\ node[Parent.blk].kv[Parent.idx].val = cur
  BY <1>3 DEF OnPath, Parent, Last
<1>6. root = stack[1].blk
  BY DEF Inv, FramesFormPath
<1>7. ~ node[root].leaf /\ node[root].level = node[cur].level + Len(stack) - 1 + 1
  BY <1>3, <1>6 DEF OnPath
<1>8. root # cur
  BY <1>1, <1>2, <1>7
<1>9. Parent \in Frame
  BY <1>1, ElementOfSeq DEF Inv, TypeOK, Parent, Last
<1> QED
  BY <1>1, <1>4, <1>5, <1>6, <1>7, <1>8, <1>9

\* What LeafRevive and LeafInsert have in common: the leaf gets new items, at
\* least one and no more than it has room for, and the way up begins.
LEMMA LeafChangeInv ==
  ASSUME Inv, AtLeaf, StoreValue, NEW kv \in Seq(Item),
         Len(kv) \in 1 .. Size(node[cur]),
         node' = [node EXCEPT ![cur] = [@ EXCEPT !.kv = kv]],
         pc' = "up", UNCHANGED <<root, countOfItem, cur, stack, arg, ret>>
  PROVE  Inv'
<1>1. /\ pc = "down" /\ node[cur].leaf /\ cur \in DOMAIN node
  BY ArgFacts DEF AtLeaf
<1>2. /\ DOMAIN node' = DOMAIN node /\ node' \in [DOMAIN node -> NodeBlock]
      /\ node'[cur].kv = kv /\ node'[cur].leaf
      /\ \A c \in DOMAIN node \ {cur} : node'[c] = node[c]
      /\ \A c \in DOMAIN node : node'[c].leaf = node[c].leaf /\ node'[c].level = node[c].level
      /\ Balanced' /\ SiblingsLinked'
  BY <1>1, LeafUpdate DEF Inv
<1>3. TypeOK'
  BY <1>2, StoreValueFacts DEF Inv, TypeOK
<1>4. NodesHaveRoom'
  <2>1. \A b \in DOMAIN node : ~ Full(node[b]) /\ (node[b].kv = << >> => b = root /\ node[b].leaf)
    BY <1>1 DEF Inv, NodesHaveRoom
  <2>2. \A b \in DOMAIN node : node[b].kv = << >> => b = cur
    <3> SUFFICES ASSUME NEW b \in DOMAIN node, node[b].kv = << >>
                 PROVE  b = cur
      OBVIOUS
    <3>1. b = root /\ node[b].leaf
      BY <2>1
    <3>2. stack # << >> => ~ node[root].leaf
      BY <1>1, PathFacts
    <3> QED
      BY <1>1, <3>1, <3>2 DEF Inv, FramesFormPath
  <2>3. kv # << >>
    OBVIOUS
  <2>4. \A b \in DOMAIN node : Size(node'[b]) = Size(node[b])
    BY <1>2 DEF Size
  <2>5. ASSUME NEW b \in DOMAIN node
        PROVE  /\ Len(node'[b].kv) <= Size(node'[b])
               /\ Full(node'[b]) => b = cur
               /\ node'[b].kv # << >>
    <3>1. CASE b = cur
      <4>1. node'[b].kv = kv /\ Size(node'[b]) = Size(node[cur])
        BY <3>1, <1>2, <2>4
      <4>2. Len(kv) <= Size(node[cur])
        OBVIOUS
      <4> QED
        BY <3>1, <4>1, <4>2, <2>3
    <3>2. CASE b # cur
      BY <3>2, <1>2, <2>1, <2>2 DEF Inv, NodesHaveRoom
    <3> QED
      BY <3>1, <3>2
  <2> QED
    BY <1>2, <2>5 DEF NodesHaveRoom, Full, Size
<1>5. FramesFormPath'
  <2>1. \A j \in 1 .. Len(stack) : node'[stack[j].blk] = node[stack[j].blk]
    BY <1>1, <1>2 DEF Inv, FramesFormPath, OnPath
  <2>2. node'[cur].level = node[cur].level /\ stack' = stack /\ cur' = cur /\ root' = root /\ arg' = arg
    BY <1>1, <1>2
  <2>3. ASSUME NEW j \in 1 .. Len(stack)
        PROVE  OnPath(j)'
    <3>1. OnPath(j) /\ DOMAIN node' = DOMAIN node
      BY <1>1, <1>2 DEF Inv, FramesFormPath
    <3> QED
      BY <2>1, <2>2, <3>1 DEF OnPath
  <2>4. cur \in DOMAIN node /\ arg # << >> /\ root = IF stack = << >> THEN cur ELSE stack[1].blk
    BY <1>1 DEF Inv, FramesFormPath
  <2> QED
    BY <1>2, <2>2, <2>3, <2>4 DEF FramesFormPath
<1> QED
  BY <1>2, <1>3, <1>4, <1>5 DEF Inv

LEMMA LeafReviveInv ==
  ASSUME Inv, LeafRevive
  PROVE  Inv'
<1> DEFINE n == node[cur]
           i == LeafIndex
           it == [n.kv[i] EXCEPT !.val = arg[2], !.flag = 1]
           kv == [n.kv EXCEPT ![i] = it]
<1>1. /\ pc = "down" /\ cur \in DOMAIN node /\ arg[1] \in Key /\ arg[2] \in Val
  BY ArgFacts DEF LeafRevive, AtLeaf
<1>2. n.kv \in Seq(Item) /\ Len(n.kv) \in Nat
  BY <1>1, BlockFacts DEF Inv
<1>3. i \in 1 .. Len(n.kv)
  BY <1>1, <1>2, LubProperties DEF LeafRevive, KeyFound, Found, LeafIndex
<1> HIDE DEF i
<1>4. it \in Item
  BY <1>1, <1>2, <1>3, ElementOfSeq, ItemFacts
<1>5. node' = [node EXCEPT ![cur].kv[i] = it]
  BY DEF LeafRevive, i
<1> HIDE DEF it
<1>6. node' = [node EXCEPT ![cur] = [@ EXCEPT !.kv = kv]]
  BY <1>1, <1>5
<1>7. kv \in Seq(Item) /\ Len(kv) = Len(n.kv)
  BY <1>2, <1>3, <1>4, ExceptSeq
<1> HIDE DEF kv
<1>8. Len(kv) \in 1 .. Size(n)
  BY <1>1, <1>2, <1>3, <1>7, BlockFacts DEF Inv, NodesHaveRoom
<1> QED
  BY <1>6, <1>7, <1>8, LeafChangeInv DEF LeafRevive

LEMMA LeafInsertInv ==
  ASSUME Inv, LeafInsert
  PROVE  Inv'
<1> DEFINE n == node[cur]
           kv == InsertAt(n.kv, LeafIndex, NewItem(arg[1], arg[2]))
<1>1. /\ pc = "down" /\ cur \in DOMAIN node /\ arg[1] \in Key /\ arg[2] \in Val
  BY ArgFacts DEF LeafInsert, AtLeaf
<1>2. n.kv \in Seq(Item) /\ Len(n.kv) \in Nat
  BY <1>1, BlockFacts DEF Inv
<1>3. LeafIndex \in 1 .. Len(n.kv) + 1
  BY <1>1, <1>2, LubProperties DEF LeafIndex
<1>4. NewItem(arg[1], arg[2]) \in Item
  BY <1>1 DEF NewItem, Item
<1>5. kv \in Seq(Item) /\ Len(kv) = Len(n.kv) + 1
  BY <1>2, <1>3, <1>4, InsertAtProperties
<1>6. node' = [node EXCEPT ![cur] = [@ EXCEPT !.kv = kv]]
  BY DEF LeafInsert
<1> HIDE DEF kv
<1>7. Len(n.kv) <= Size(n) /\ Len(n.kv) # Size(n)
  BY <1>1 DEF Inv, NodesHaveRoom, Full
<1>8. Len(kv) \in 1 .. Size(n)
  BY <1>1, <1>2, <1>5, <1>7, BlockFacts DEF Inv
<1> QED
  BY <1>5, <1>6, <1>8, LeafChangeInv DEF LeafInsert

LEMMA RemoveByFlagInv ==
  ASSUME Inv, NEW b \in Leaves, NEW i \in 1 .. Len(node[b].kv), RemoveByFlag(b, i)
  PROVE  Inv'
<1> DEFINE n == node[b]
           it == [n.kv[i] EXCEPT !.flag = 0]
           kv == [n.kv EXCEPT ![i] = it]
<1>1. b \in DOMAIN node /\ n.leaf /\ pc = "idle"
  BY DEF Leaves, RemoveByFlag
<1>2. n.kv \in Seq(Item) /\ Len(n.kv) \in Nat
  BY <1>1, BlockFacts DEF Inv
<1>3. it \in Item
  <2>1. n.kv[i] \in Item
    BY <1>2, ElementOfSeq
  <2> QED
    BY <2>1 DEF Item
<1>4. node' = [node EXCEPT ![b].kv[i] = it]
  BY DEF RemoveByFlag
<1> HIDE DEF it
<1>5. node' = [node EXCEPT ![b] = [@ EXCEPT !.kv = kv]]
  BY <1>1, <1>4
<1>6. kv \in Seq(Item) /\ Len(kv) = Len(n.kv)
  BY <1>2, <1>3, ExceptSeq
<1> HIDE DEF kv
<1>7. UNCHANGED <<root, countOfItem, countOfBlock, numberOfBlock, pc, cur, stack, arg, ret>>
  BY DEF RemoveByFlag, meta, call
<1>8. /\ DOMAIN node' = DOMAIN node /\ node' \in [DOMAIN node -> NodeBlock]
      /\ node'[b].kv = kv /\ node'[b].leaf
      /\ \A c \in DOMAIN node \ {b} : node'[c] = node[c]
      /\ \A c \in DOMAIN node : node'[c].leaf = node[c].leaf /\ node'[c].level = node[c].level
      /\ Balanced' /\ SiblingsLinked'
  BY <1>1, <1>5, <1>6, <1>7, LeafUpdate
<1>9. TypeOK'
  BY <1>7, <1>8 DEF Inv, TypeOK
<1>10. NodesHaveRoom'
  <2>1. \A c \in DOMAIN node : Size(node'[c]) = Size(node[c])
    BY <1>8 DEF Size
  <2>2. \A c \in DOMAIN node :
          Len(node'[c].kv) = Len(node[c].kv) /\ (node'[c].kv = << >> => node[c].kv = << >>)
    BY <1>2, <1>6, <1>8
  <2> QED
    BY <1>7, <1>8, <2>1, <2>2 DEF Inv, NodesHaveRoom, Full
<1>11. FramesFormPath'
  BY <1>1, <1>7 DEF FramesFormPath
<1> QED
  BY <1>8, <1>9, <1>10, <1>11 DEF Inv

LEMMA PutReturnInv ==
  ASSUME Inv, PutReturn
  PROVE  Inv'
<1>1. pc = "up" /\ stack = << >> /\ ~ Full(node[root]) /\ root = cur
  BY DEF PutReturn, Inv, FramesFormPath
<1>2. \A b \in DOMAIN node : ~ Full(node[b])
  BY <1>1 DEF Inv, NodesHaveRoom
<1>3. countOfItem' \in Nat /\ numberOfBlock' \in Nat /\ countOfBlock <= numberOfBlock'
  BY DEF PutReturn, CountItem, Inv, TypeOK
<1> QED
  BY <1>2, <1>3, ReturnInv DEF PutReturn

\* The key of the son changes nothing else of the parent.
LEMMA UpdatedKeysFacts ==
  ASSUME Inv, pc = "up", stack # << >>
  PROVE  LET n  == node[Parent.blk]
             kv == UpdatedKeys(n, Parent, node[cur])
         IN  /\ kv \in Seq(Item) /\ Len(kv) = Len(n.kv)
             /\ \A i \in 1 .. Len(n.kv) : kv[i].val = n.kv[i].val
<1> DEFINE n == node[Parent.blk]
           s == node[cur].kv
           it == [n.kv[Parent.idx] EXCEPT !.key = MaxKey(s)]
           kv == [n.kv EXCEPT ![Parent.idx] = it]
<1>1. Parent.blk \in DOMAIN node /\ Parent.idx \in 1 .. Len(n.kv) /\ cur \in DOMAIN node
  BY PathFacts, ArgFacts
<1>2. n.kv \in Seq(Item) /\ s \in Seq(Item) /\ Len(s) \in Nat /\ Len(s) # 0
  BY <1>1, BlockFacts, EmptySeq DEF Inv, NodesHaveRoom
<1>3. n.kv[Parent.idx] \in Item /\ s[Len(s)] \in Item
  BY <1>1, <1>2, ElementOfSeq
<1>4. it \in Item /\ it.val = n.kv[Parent.idx].val
  BY <1>3 DEF Item, MaxKey, Last
<1> HIDE DEF it
<1>5. /\ kv \in Seq(Item) /\ Len(kv) = Len(n.kv)
      /\ \A i \in 1 .. Len(n.kv) : kv[i] = IF i = Parent.idx THEN it ELSE n.kv[i]
  BY <1>1, <1>2, <1>4, ExceptSeq
<1>6. UpdatedKeys(n, Parent, node[cur]) = IF Parent.max THEN kv ELSE n.kv
  BY DEF UpdatedKeys, it
<1> HIDE DEF kv
<1> QED
  BY <1>2, <1>4, <1>5, <1>6

\* Popping a frame leaves the frames above it on the path, if their blocks
\* keep their items.
LEMMA PopFacts ==
  ASSUME Inv, pc = "up", stack # << >>
  PROVE  /\ Front(stack) \in Seq(Frame)
         /\ Len(Front(stack)) = Len(stack) - 1
         /\ \A j \in 1 .. Len(stack) - 1 : Front(stack)[j] = stack[j]
         /\ root = IF Front(stack) = << >> THEN Parent.blk ELSE Front(stack)[1].blk
<1>1. Len(stack) \in Nat /\ Len(stack) >= 1 /\ stack \in Seq(Frame) /\ root = stack[1].blk
  BY PathFacts DEF Inv, TypeOK
<1>2. /\ Front(stack) \in Seq(Frame) /\ Len(Front(stack)) = Len(stack) - 1
      /\ \A j \in 1 .. Len(stack) - 1 : Front(stack)[j] = stack[j]
  BY <1>1, FrontProperties
<1>3. CASE Len(stack) = 1
  BY <1>1, <1>2, <1>3, EmptySeq DEF Parent, Last
<1>4. CASE Len(stack) > 1
  BY <1>1, <1>2, <1>4, EmptySeq
<1> QED
  BY <1>1, <1>2, <1>3, <1>4

\* The path after a frame has returned to its parent: it holds again, since
\* the blocks of the outer frames kept their items.
LEMMA AscendPath ==
  ASSUME Inv, pc = "up", stack # << >>,
         cur' = Parent.blk, stack' = Front(stack), root' = root, arg' = arg,
         Parent.blk \in DOMAIN node',
         node'[Parent.blk].level = node[Parent.blk].level,
         \A b \in DOMAIN node : node[b].level > node[Parent.blk].level =>
           /\ b \in DOMAIN node' /\ node'[b].leaf = node[b].leaf
           /\ node'[b].kv = node[b].kv /\ node'[b].level = node[b].level
  PROVE  FramesFormPath'
<1>1. Len(stack) \in Nat /\ Len(stack) >= 1 /\ node[Parent.blk].level = node[cur].level + 1
  BY PathFacts
<1>2. node[cur].level \in Nat /\ arg # << >>
  BY ArgFacts, BlockFacts DEF Inv, FramesFormPath
<1>3. ASSUME NEW j \in 1 .. Len(stack')
      PROVE  OnPath(j)'
  <2>1. /\ j \in 1 .. Len(stack) - 1 /\ j \in 1 .. Len(stack)
        /\ stack'[j] = stack[j] /\ Len(stack') = Len(stack) - 1
    BY <1>1, PopFacts
  <2>2. OnPath(j)
    BY <2>1 DEF Inv, FramesFormPath
  <2>3. node[stack[j].blk].level = node[cur].level + Len(stack) - j + 1
    BY <2>2 DEF OnPath
  <2>4. node[stack[j].blk].level > node[Parent.blk].level
    BY <1>1, <1>2, <2>1, <2>3
  <2>5. /\ stack[j].blk \in DOMAIN node' /\ ~ node'[stack[j].blk].leaf
        /\ node'[stack[j].blk].kv = node[stack[j].blk].kv
        /\ node'[stack[j].blk].level = node[stack[j].blk].level
    BY <2>2, <2>4 DEF OnPath
  <2>6. node'[stack[j].blk].level = node'[cur'].level + Len(stack') - j + 1
    <3>1. node'[cur'].level = node[cur].level + 1
      BY <1>1
    <3>2. /\ node'[stack[j].blk].level = node[cur].level + Len(stack) - j + 1
          /\ Len(stack') = Len(stack) - 1 /\ j \in Int
      BY <2>1, <2>3, <2>5
    <3> QED
      BY <3>1, <3>2, <1>1, <1>2
  <2>7. (IF j = Len(stack') THEN cur' ELSE stack'[j + 1].blk)
          = IF j = Len(stack) THEN cur ELSE stack[j + 1].blk
    BY <1>1, <2>1, PopFacts DEF Parent, Last
  <2> QED
    BY <2>1, <2>2, <2>5, <2>6, <2>7 DEF OnPath
<1> QED
  BY <1>2, <1>3, PopFacts DEF FramesFormPath

LEMMA AscendKeepInv ==
  ASSUME Inv, AscendKeep
  PROVE  Inv'
<1> DEFINE p == Parent.blk
           kv == UpdatedKeys(node[p], Parent, node[cur])
<1>1. /\ pc = "up" /\ stack # << >> /\ ~ Full(node[cur]) /\ root' = root /\ arg' = arg
      /\ cur' = p /\ stack' = Front(stack) /\ pc' = pc
      /\ UNCHANGED <<countOfItem, countOfBlock, numberOfBlock, ret>>
      /\ node' = [node EXCEPT ![p] = [node[p] EXCEPT !.kv = kv]]
  BY DEF AscendKeep, meta
<1>2. /\ p \in DOMAIN node /\ ~ node[p].leaf /\ cur \in DOMAIN node
      /\ node[cur].level \in Nat /\ node[p].level = node[cur].level + 1
  BY <1>1, PathFacts, ArgFacts, BlockFacts DEF Inv
<1>3. /\ kv \in Seq(Item) /\ Len(kv) = Len(node[p].kv)
      /\ \A i \in 1 .. Len(node[p].kv) : kv[i].val = node[p].kv[i].val
  BY <1>1, UpdatedKeysFacts
<1> HIDE DEF kv
<1>4. /\ DOMAIN node' = DOMAIN node
      /\ \A b \in DOMAIN node \ {p} : node'[b] = node[b]
      /\ node'[p] = [node[p] EXCEPT !.kv = kv]
  BY <1>1, <1>2 DEF Inv, TypeOK
<1>5. /\ node'[p] \in NodeBlock /\ node'[p].kv = kv
      /\ node'[p].leaf = node[p].leaf /\ node'[p].level = node[p].level
      /\ node'[p].next = node[p].next /\ node'[p].last = node[p].last
  BY <1>2, <1>3, <1>4, BlockFacts DEF Inv, NodeBlock
<1>6. \A b \in DOMAIN node :
        /\ node'[b].leaf = node[b].leaf /\ node'[b].level = node[b].level
        /\ node'[b].next = node[b].next /\ node'[b].last = node[b].last
        /\ Len(node'[b].kv) = Len(node[b].kv)
        /\ \A i \in 1 .. Len(node[b].kv) : node'[b].kv[i].val = node[b].kv[i].val
  BY <1>3, <1>4, <1>5
<1>7. TypeOK'
  <2>1. node' \in [DOMAIN node -> NodeBlock]
    BY <1>1, <1>4, <1>5, BlockFacts DEF Inv, TypeOK
  <2>2. stack' \in Seq(Frame)
    BY <1>1, PopFacts
  <2> QED
    BY <1>1, <1>2, <1>4, <2>1, <2>2 DEF Inv, TypeOK
<1>8. NodesHaveRoom'
  <2>1. \A b \in DOMAIN node : ~ Full(node[b]) /\ node[b].kv # << >>
    BY <1>1 DEF Inv, NodesHaveRoom
  <2>2. \A b \in DOMAIN node : Size(node'[b]) = Size(node[b]) /\ Len(node[b].kv) # 0
    BY <1>6, <2>1, EmptySeq, BlockFacts DEF Size, Inv
  <2>3. \A b \in DOMAIN node : ~ Full(node'[b]) /\ Len(node'[b].kv) # 0
    BY <1>6, <2>1, <2>2 DEF Full
  <2>4. \A b \in DOMAIN node : node'[b].kv # << >>
    BY <2>3
  <2> QED
    BY <1>4, <1>6, <2>2, <2>3, <2>4 DEF Inv, NodesHaveRoom
<1>9. Balanced'
  BY <1>4, <1>6 DEF Inv, Balanced
<1>10. SiblingsLinked'
  BY <1>1, <1>4, <1>6, LinksKept DEF Inv, TypeOK
<1>11. FramesFormPath'
  <2>1. ASSUME NEW b \in DOMAIN node, node[b].level > node[p].level
        PROVE  b # p /\ node'[b] = node[b]
    <3>1. b # p
      BY <1>2, <2>1
    <3> QED
      BY <1>4, <3>1
  <2> QED
    BY <1>1, <1>2, <1>4, <1>5, <2>1, AscendPath
<1> QED
  BY <1>7, <1>8, <1>9, <1>10, <1>11 DEF Inv

\* Splitting a full block leaves both halves with items and with room.
LEMMA SplitFacts ==
  ASSUME NEW kv \in Seq(Item), NEW size \in Nat, size >= 2, Len(kv) = size
  PROVE  /\ Lower(kv) \in Seq(Item) /\ Len(Lower(kv)) \in 1 .. size - 1
         /\ Upper(kv) \in Seq(Item) /\ Len(Upper(kv)) \in 1 .. size - 1
         /\ \A i \in 1 .. Len(Lower(kv)) : Lower(kv)[i] = kv[i]
         /\ \A i \in 1 .. Len(Upper(kv)) :
              Len(Lower(kv)) + i \in 1 .. size /\ Upper(kv)[i] = kv[Len(Lower(kv)) + i]
<1> DEFINE h == (Len(kv) + 1) \div 2
<1>1. h \in Nat /\ h >= 1 /\ h <= size - 1
  OBVIOUS
<1> HIDE DEF h
<1> DEFINE lo == SubSeq(kv, 1, h)
           up == SubSeq(kv, h + 1, Len(kv))
<1>2. lo \in Seq(Item) /\ Len(lo) = h - 1 + 1 /\ \A i \in 1 .. h - 1 + 1 : lo[i] = kv[1 + i - 1]
  BY <1>1, SliceProperties
<1>3. /\ up \in Seq(Item) /\ Len(up) = Len(kv) - (h + 1) + 1
      /\ \A i \in 1 .. Len(kv) - (h + 1) + 1 : up[i] = kv[h + 1 + i - 1]
  BY <1>1, SliceProperties
<1> HIDE DEF lo, up
<1>4. Len(lo) = h /\ \A i \in 1 .. h : lo[i] = kv[i]
  BY <1>1, <1>2
<1>5. Len(up) = size - h /\ \A i \in 1 .. size - h : h + i \in 1 .. size /\ up[i] = kv[h + i]
  BY <1>1, <1>3
<1> QED
  BY <1>1, <1>2, <1>3, <1>4, <1>5 DEF Lower, Upper, lo, up, h

\* The parent of a split block gets one item and no new child but the new block.
LEMMA SplitKeysFacts ==
  ASSUME NEW kv \in Seq(Item), NEW f \in Frame, f.idx \in 1 .. Len(kv),
         NEW keep \in Seq(Item), Len(keep) >= 1, NEW b \in Nat, NEW next \in Nat
  PROVE  /\ SplitKeys(kv, f, b, keep, next) \in Seq(Item)
         /\ Len(SplitKeys(kv, f, b, keep, next)) = Len(kv) + 1
         /\ \A i \in 1 .. Len(kv) + 1 :
              \/ SplitKeys(kv, f, b, keep, next)[i].val \in {b, next}
              \/ \E j \in 1 .. Len(kv) : SplitKeys(kv, f, b, keep, next)[i].val = kv[j].val
<1> DEFINE it == [kv[f.idx] EXCEPT !.val = next, !.flag = 1]
           moved == [kv EXCEPT ![f.idx] = it]
           k == MaxKey(keep)
           l == Lub(moved, k)
           new == NewItem(k, b)
           r == InsertAt(moved, l, new)
<1>1. kv[f.idx] \in Item /\ keep[Len(keep)] \in Item
  BY ElementOfSeq
<1>2. k \in Key /\ it \in Item /\ it.val = next
  BY <1>1 DEF Item, MaxKey, Last
<1> HIDE DEF it, k
<1>3. new \in Item /\ new.val = b
  BY <1>2 DEF NewItem, Item
<1>4. /\ moved \in Seq(Item) /\ Len(moved) = Len(kv)
      /\ \A i \in 1 .. Len(kv) : moved[i] = IF i = f.idx THEN it ELSE kv[i]
  BY <1>2, ExceptSeq
<1>5. SplitKeys(kv, f, b, keep, next) = r
  <2>1. [kv EXCEPT ![f.idx].val = next, ![f.idx].flag = 1] = moved
    BY DEF it
  <2> QED
    BY <2>1 DEF SplitKeys, k
<1> HIDE DEF moved
<1>6. l \in 1 .. Len(moved) + 1
  BY <1>2, <1>4, LubProperties
<1> HIDE DEF l, new
<1>7. /\ r \in Seq(Item) /\ Len(r) = Len(moved) + 1
      /\ \A i \in 1 .. Len(moved) + 1 :
           r[i] = IF i < l THEN moved[i] ELSE IF i = l THEN new ELSE moved[i - 1]
  BY <1>3, <1>4, <1>6, InsertAtProperties
<1> HIDE DEF r
<1>8. ASSUME NEW i \in 1 .. Len(kv) + 1
      PROVE  r[i].val \in {b, next} \/ \E j \in 1 .. Len(kv) : r[i].val = kv[j].val
  <2>1. CASE i = l
    BY <2>1, <1>3, <1>4, <1>7
  <2>2. CASE i < l
    <3>1. i \in 1 .. Len(kv) /\ r[i] = moved[i]
      BY <2>2, <1>4, <1>6, <1>7
    <3> QED
      BY <3>1, <1>2, <1>4
  <2>3. CASE i > l
    <3>1. i - 1 \in 1 .. Len(kv) /\ r[i] = moved[i - 1]
      BY <2>3, <1>4, <1>6, <1>7
    <3> QED
      BY <3>1, <1>2, <1>4
  <2>4. i \in Nat /\ l \in Nat
    BY <1>4, <1>6
  <2> QED
    BY <2>1, <2>2, <2>3, <2>4
<1> QED
  BY <1>4, <1>5, <1>7, <1>8

\* The items of the parent after the split of its son.
SplitParent == SplitKeys(UpdatedKeys(node[Parent.blk], Parent, node[cur]), Parent, cur,
                         Lower(node[cur].kv), countOfBlock)

\* The blocks after the split of a son: the new block, the son, the parent and
\* the others, of which one is linked back to the new block.
LEMMA SplitBlocks ==
  ASSUME Inv, AscendSplit
  PROVE  /\ countOfBlock \in Nat /\ countOfBlock >= 2 /\ countOfBlock \notin DOMAIN node
         /\ DOMAIN node' = DOMAIN node \cup {countOfBlock}
         /\ SplitParent \in Seq(Item) /\ Len(SplitParent) = Len(node[Parent.blk].kv) + 1
         /\ \A i \in 1 .. Len(SplitParent) : SplitParent[i].val \in {cur, countOfBlock}
              \/ \E j \in 1 .. Len(node[Parent.blk].kv) : SplitParent[i].val = node[Parent.blk].kv[j].val
         /\ node'[countOfBlock] \in NodeBlock /\ node'[countOfBlock].leaf = node[cur].leaf
         /\ node'[countOfBlock].kv = Upper(node[cur].kv) /\ node'[countOfBlock].next = node[cur].next
         /\ node'[countOfBlock].last = cur /\ node'[countOfBlock].level = node[cur].level
         /\ node'[cur] \in NodeBlock /\ node'[cur].leaf = node[cur].leaf
         /\ node'[cur].kv = Lower(node[cur].kv) /\ node'[cur].next = countOfBlock
         /\ node'[cur].last = node[cur].last /\ node'[cur].level = node[cur].level
         /\ node'[Parent.blk] \in NodeBlock /\ node'[Parent.blk].leaf = node[Parent.blk].leaf
         /\ node'[Parent.blk].kv = SplitParent /\ node'[Parent.blk].next = node[Parent.blk].next
         /\ node'[Parent.blk].last = node[Parent.blk].last /\ node'[Parent.blk].level = node[Parent.blk].level
         /\ \A b \in DOMAIN node \ {cur, Parent.blk} :
              /\ node'[b] \in NodeBlock /\ node'[b].leaf = node[b].leaf
              /\ node'[b].kv = node[b].kv /\ node'[b].next = node[b].next
              /\ node'[b].last = IF b = node[cur].next THEN countOfBlock ELSE node[b].last
              /\ node'[b].level = node[b].level
<1> DEFINE p == Parent.blk
           next == countOfBlock
           kv == SplitParent
           son == node[cur]
           keep == Lower(son.kv)
           mid == UpdatedKeys(node[p], Parent, son)
<1>1. /\ pc = "up" /\ stack # << >> /\ Full(son) /\ root' = root /\ arg' = arg
      /\ cur' = p /\ stack' = Front(stack) /\ pc' = "up"
      /\ UNCHANGED <<countOfItem, ret>>
      /\ countOfBlock' = countOfBlock + 1
      /\ numberOfBlock' = Grow(numberOfBlock, countOfBlock)
  BY DEF AscendSplit
<1>2. /\ p \in DOMAIN node /\ ~ node[p].leaf /\ cur \in DOMAIN node
      /\ son.level \in Nat /\ node[p].level = son.level + 1
      /\ p # cur /\ cur \in Nat /\ root # cur
      /\ Parent.idx \in 1 .. Len(node[p].kv)
  BY <1>1, PathFacts, ArgFacts, BlockFacts DEF Inv
<1>3. next \in Nat /\ next >= 2 /\ next \notin DOMAIN node
  BY BlockFacts DEF Inv, TypeOK
<1>4. son.next # 0 =>
        /\ son.next \in DOMAIN node /\ son.next # cur /\ son.next # p
        /\ node[son.next].level = son.level /\ node[son.next].last = cur
  BY <1>2 DEF Inv, SiblingsLinked
<1>5. /\ mid \in Seq(Item) /\ Len(mid) = Len(node[p].kv)
      /\ \A i \in 1 .. Len(node[p].kv) : mid[i].val = node[p].kv[i].val
  BY <1>1, UpdatedKeysFacts
<1>6. /\ son.kv \in Seq(Item) /\ Size(son) \in Nat /\ Size(son) >= 2 /\ Len(son.kv) = Size(son)
  BY <1>1, <1>2, BlockFacts DEF Inv, Full
<1>7. /\ keep \in Seq(Item) /\ Len(keep) \in 1 .. Size(son) - 1
      /\ Upper(son.kv) \in Seq(Item) /\ Len(Upper(son.kv)) \in 1 .. Size(son) - 1
      /\ \A i \in 1 .. Len(keep) : i \in 1 .. Len(son.kv) /\ keep[i] = son.kv[i]
      /\ \A i \in 1 .. Len(Upper(son.kv)) :
           Len(keep) + i \in 1 .. Len(son.kv) /\ Upper(son.kv)[i] = son.kv[Len(keep) + i]
  <2> DEFINE sk == son.kv
             sz == Size(son)
  <2>1. sk \in Seq(Item) /\ sz \in Nat /\ sz >= 2 /\ Len(sk) = sz
    BY <1>6
  <2> HIDE DEF sk, sz
  <2>2. /\ Lower(sk) \in Seq(Item) /\ Len(Lower(sk)) \in 1 .. sz - 1
        /\ Upper(sk) \in Seq(Item) /\ Len(Upper(sk)) \in 1 .. sz - 1
        /\ \A i \in 1 .. Len(Lower(sk)) : i \in 1 .. Len(sk) /\ Lower(sk)[i] = sk[i]
        /\ \A i \in 1 .. Len(Upper(sk)) :
             Len(Lower(sk)) + i \in 1 .. Len(sk) /\ Upper(sk)[i] = sk[Len(Lower(sk)) + i]
    BY <2>1, SplitFacts
  <2> QED
    BY <2>2 DEF sk, sz
<1>8. /\ kv \in Seq(Item) /\ Len(kv) = Len(node[p].kv) + 1
      /\ \A i \in 1 .. Len(kv) : kv[i].val \in {cur, next}
           \/ \E j \in 1 .. Len(node[p].kv) : kv[i].val = node[p].kv[j].val
  <2>1. /\ mid \in Seq(Item) /\ Parent \in Frame /\ Parent.idx \in 1 .. Len(mid)
        /\ keep \in Seq(Item) /\ Len(keep) >= 1 /\ cur \in Nat /\ next \in Nat
    BY <1>1, <1>2, <1>3, <1>5, <1>6, <1>7, PathFacts
  <2>0. kv = SplitKeys(mid, Parent, cur, keep, next)
    BY DEF SplitParent
  <2> HIDE DEF mid, keep, next, kv
  <2>2. /\ kv \in Seq(Item) /\ Len(kv) = Len(mid) + 1
        /\ \A i \in 1 .. Len(mid) + 1 : kv[i].val \in {cur, next}
             \/ \E j \in 1 .. Len(mid) : kv[i].val = mid[j].val
    <3>1. kv \in Seq(Item)
      BY <2>0, <2>1, SplitKeysFacts
    <3>2. Len(kv) = Len(mid) + 1
      <4>1. Len(SplitKeys(mid, Parent, cur, keep, next)) = Len(mid) + 1
        BY <2>1, SplitKeysFacts
      <4> QED
        BY <4>1, <2>0
    <3>3. \A i \in 1 .. Len(mid) + 1 : kv[i].val \in {cur, next}
             \/ \E j \in 1 .. Len(mid) : kv[i].val = mid[j].val
      <4>1. \A i \in 1 .. Len(mid) + 1 :
              \/ SplitKeys(mid, Parent, cur, keep, next)[i].val \in {cur, next}
              \/ \E j \in 1 .. Len(mid) :
                   SplitKeys(mid, Parent, cur, keep, next)[i].val = mid[j].val
        BY <2>1, SplitKeysFacts
      <4> QED
        BY <4>1, <2>0
    <3> QED
      BY <3>1, <3>2, <3>3
  <2> QED
    BY <1>5, <2>2
<1> HIDE DEF keep
<1>9. /\ DOMAIN node' = DOMAIN node \cup {next}
      /\ node'[next] = Sibling(son, cur)
      /\ node'[cur] = [son EXCEPT !.kv = keep, !.next = next]
      /\ node'[p] = [node[p] EXCEPT !.kv = kv]
      /\ \A b \in DOMAIN node \ {cur, p} :
           node'[b] = IF b = son.next THEN WithLast(node[b], next) ELSE node[b]
  <2>1. node' = [b \in DOMAIN node \cup {next} |->
                       CASE b = next     -> Sibling(son, cur)
                         [] b = cur      -> [son EXCEPT !.kv = keep, !.next = next]
                         [] b = p        -> [node[p] EXCEPT !.kv = kv]
                         [] b = son.next -> WithLast(node[b], next)
                         [] OTHER        -> node[b]]
    BY DEF AscendSplit, keep, SplitParent
  <2>2. son.next \notin {next, cur, p}
    BY <1>2, <1>3, <1>4, BlockFacts DEF Inv
  <2> QED
    BY <2>1, <2>2, <1>2, <1>3
<1> HIDE DEF mid
<1>10. /\ node'[next] \in NodeBlock /\ node'[next].leaf = son.leaf
       /\ node'[next].kv = Upper(son.kv) /\ node'[next].next = son.next
       /\ node'[next].last = cur /\ node'[next].level = son.level
  BY <1>2, <1>7, <1>9, BlockFacts DEF Sibling, NodeBlock, Inv
<1>11. /\ node'[cur] \in NodeBlock /\ node'[cur].leaf = son.leaf
       /\ node'[cur].kv = keep /\ node'[cur].next = next
       /\ node'[cur].last = son.last /\ node'[cur].level = son.level
  <2>1. son \in NodeBlock /\ keep \in Seq(Item) /\ next \in Nat
    BY <1>2, <1>3, <1>7, BlockFacts DEF Inv
  <2>2. node'[cur] = [son EXCEPT !.kv = keep, !.next = next]
    BY <1>9
  <2> HIDE DEF son, next
  <2> QED
    BY <2>1, <2>2 DEF NodeBlock
<1>12. /\ node'[p] \in NodeBlock /\ node'[p].leaf = node[p].leaf
       /\ node'[p].kv = kv /\ node'[p].next = node[p].next
       /\ node'[p].last = node[p].last /\ node'[p].level = node[p].level
  BY <1>2, <1>8, <1>9, BlockFacts DEF NodeBlock, Inv
<1>13. ASSUME NEW b \in DOMAIN node \ {cur, p}
       PROVE  /\ node'[b] \in NodeBlock /\ node'[b].leaf = node[b].leaf
              /\ node'[b].kv = node[b].kv /\ node'[b].next = node[b].next
              /\ node'[b].last = IF b = son.next THEN next ELSE node[b].last
              /\ node'[b].level = node[b].level
  <2>1. node[b] \in NodeBlock /\ next \in Nat
    BY <1>3, BlockFacts DEF Inv
  <2>2. node'[b] = IF b = son.next THEN WithLast(node[b], next) ELSE node[b]
    BY <1>9
  <2> HIDE DEF son, next
  <2>3. CASE b = son.next
    BY <2>1, <2>2, <2>3, RelinkedBlock
  <2>4. CASE b # son.next
    BY <2>1, <2>2, <2>4
  <2> QED
    BY <2>3, <2>4
<1> QED
  BY <1>3, <1>8, <1>9, <1>10, <1>11, <1>12, <1>13 DEF keep

LEMMA AscendSplitInv ==
  ASSUME Inv, AscendSplit
  PROVE  Inv'
<1> DEFINE p == Parent.blk
           son == node[cur]
           next == countOfBlock
           keep == Lower(son.kv)
           mid == UpdatedKeys(node[p], Parent, son)
           kv == SplitParent
<1>1. /\ pc = "up" /\ stack # << >> /\ Full(son) /\ root' = root /\ arg' = arg
      /\ cur' = p /\ stack' = Front(stack) /\ pc' = "up"
      /\ UNCHANGED <<countOfItem, ret>>
      /\ countOfBlock' = countOfBlock + 1
      /\ numberOfBlock' = Grow(numberOfBlock, countOfBlock)
  BY DEF AscendSplit
<1>2. /\ p \in DOMAIN node /\ ~ node[p].leaf /\ cur \in DOMAIN node
      /\ son.level \in Nat /\ node[p].level = son.level + 1
      /\ p # cur /\ cur \in Nat /\ root # cur
      /\ Parent.idx \in 1 .. Len(node[p].kv)
  BY <1>1, PathFacts, ArgFacts, BlockFacts DEF Inv
<1>3. next \in Nat /\ next >= 2 /\ next \notin DOMAIN node
  BY BlockFacts DEF Inv, TypeOK
<1>4. son.next # 0 =>
        /\ son.next \in DOMAIN node /\ son.next # cur /\ son.next # p
        /\ node[son.next].level = son.level /\ node[son.next].last = cur
  BY <1>2 DEF Inv, SiblingsLinked
<1>5. /\ mid \in Seq(Item) /\ Len(mid) = Len(node[p].kv)
      /\ \A i \in 1 .. Len(node[p].kv) : mid[i].val = node[p].kv[i].val
  BY <1>1, UpdatedKeysFacts
<1>6. /\ son.kv \in Seq(Item) /\ Size(son) \in Nat /\ Size(son) >= 2 /\ Len(son.kv) = Size(son)
  BY <1>1, <1>2, BlockFacts DEF Inv, Full
<1>7. /\ keep \in Seq(Item) /\ Len(keep) \in 1 .. Size(son) - 1
      /\ Upper(son.kv) \in Seq(Item) /\ Len(Upper(son.kv)) \in 1 .. Size(son) - 1
      /\ \A i \in 1 .. Len(keep) : i \in 1 .. Len(son.kv) /\ keep[i] = son.kv[i]
      /\ \A i \in 1 .. Len(Upper(son.kv)) :
           Len(keep) + i \in 1 .. Len(son.kv) /\ Upper(son.kv)[i] = son.kv[Len(keep) + i]
  <2> DEFINE sk == son.kv
             sz == Size(son)
  <2>1. sk \in Seq(Item) /\ sz \in Nat /\ sz >= 2 /\ Len(sk) = sz
    BY <1>6
  <2> HIDE DEF sk, sz
  <2>2. /\ Lower(sk) \in Seq(Item) /\ Len(Lower(sk)) \in 1 .. sz - 1
        /\ Upper(sk) \in Seq(Item) /\ Len(Upper(sk)) \in 1 .. sz - 1
        /\ \A i \in 1 .. Len(Lower(sk)) : i \in 1 .. Len(sk) /\ Lower(sk)[i] = sk[i]
        /\ \A i \in 1 .. Len(Upper(sk)) :
             Len(Lower(sk)) + i \in 1 .. Len(sk) /\ Upper(sk)[i] = sk[Len(Lower(sk)) + i]
    BY <2>1, SplitFacts
  <2> QED
    BY <2>2 DEF sk, sz
<1>8. /\ next \in Nat /\ next >= 2 /\ next \notin DOMAIN node
      /\ DOMAIN node' = DOMAIN node \cup {next}
      /\ kv \in Seq(Item) /\ Len(kv) = Len(node[p].kv) + 1
      /\ \A i \in 1 .. Len(kv) : kv[i].val \in {cur, next}
           \/ \E j \in 1 .. Len(node[p].kv) : kv[i].val = node[p].kv[j].val
      /\ node'[next] \in NodeBlock /\ node'[next].leaf = node[cur].leaf
      /\ node'[next].kv = Upper(node[cur].kv) /\ node'[next].next = node[cur].next
      /\ node'[next].last = cur /\ node'[next].level = node[cur].level
      /\ node'[cur] \in NodeBlock /\ node'[cur].leaf = node[cur].leaf
      /\ node'[cur].kv = Lower(node[cur].kv) /\ node'[cur].next = next
      /\ node'[cur].last = node[cur].last /\ node'[cur].level = node[cur].level
      /\ node'[p] \in NodeBlock /\ node'[p].leaf = node[p].leaf
      /\ node'[p].kv = kv /\ node'[p].next = node[p].next
      /\ node'[p].last = node[p].last /\ node'[p].level = node[p].level
      /\ \A b \in DOMAIN node \ {cur, p} :
           /\ node'[b] \in NodeBlock /\ node'[b].leaf = node[b].leaf
           /\ node'[b].kv = node[b].kv /\ node'[b].next = node[b].next
           /\ node'[b].last = IF b = node[cur].next THEN next ELSE node[b].last
           /\ node'[b].level = node[b].level
  BY SplitBlocks
<1>9. /\ DOMAIN node' = DOMAIN node \cup {next}
  BY <1>8
<1>10. /\ node'[next] \in NodeBlock /\ node'[next].leaf = son.leaf
       /\ node'[next].kv = Upper(son.kv) /\ node'[next].next = son.next
       /\ node'[next].last = cur /\ node'[next].level = son.level
  BY <1>8
<1>11. /\ node'[cur] \in NodeBlock /\ node'[cur].leaf = son.leaf
       /\ node'[cur].kv = keep /\ node'[cur].next = next
       /\ node'[cur].last = son.last /\ node'[cur].level = son.level
  BY <1>8
<1>12. /\ node'[p] \in NodeBlock /\ node'[p].leaf = node[p].leaf
       /\ node'[p].kv = kv /\ node'[p].next = node[p].next
       /\ node'[p].last = node[p].last /\ node'[p].level = node[p].level
  BY <1>8
<1>13. ASSUME NEW b \in DOMAIN node \ {cur, p}
       PROVE  /\ node'[b] \in NodeBlock /\ node'[b].leaf = node[b].leaf
              /\ node'[b].kv = node[b].kv /\ node'[b].next = node[b].next
              /\ node'[b].last = IF b = son.next THEN next ELSE node[b].last
              /\ node'[b].level = node[b].level
  BY <1>8
<1> HIDE DEF kv, keep, mid
<1>14. TypeOK'
  <2>1. ASSUME NEW b \in DOMAIN node'
        PROVE  node'[b] \in NodeBlock
    <3>1. b \in DOMAIN node \cup {next}
      BY <1>9
    <3> HIDE DEF son, next, keep, kv, p
    <3>2. CASE b = next
      BY <3>2, <1>10
    <3>3. CASE b = cur
      BY <3>3, <1>11
    <3>4. CASE b = p
      BY <3>4, <1>12
    <3>5. CASE b \in DOMAIN node \ {cur, p}
      BY <3>5, <1>13
    <3> QED
      BY <3>1, <3>2, <3>3, <3>4, <3>5
  <2>2. DOMAIN node' \subseteq 1 .. countOfBlock' - 1
    <3>1. DOMAIN node \subseteq 1 .. countOfBlock - 1 /\ countOfBlock \in Nat /\ countOfBlock >= 2
      BY DEF Inv, TypeOK
    <3>2. DOMAIN node' = DOMAIN node \cup {countOfBlock} /\ countOfBlock' = countOfBlock + 1
      BY <1>1, <1>9
    <3> QED
      BY <3>1, <3>2
  <2>3. node' \in [DOMAIN node' -> NodeBlock]
    <3>1. node' = [b \in DOMAIN node' |-> node'[b]]
      BY DEF AscendSplit
    <3> QED
      BY <2>1, <3>1
  <2>4. countOfBlock' \in Nat /\ countOfBlock' >= 2 /\ numberOfBlock' \in Nat
        /\ countOfBlock' <= numberOfBlock'
    BY <1>1, GrowFacts DEF Inv, TypeOK
  <2>5. stack' \in Seq(Frame) /\ root' \in DOMAIN node' /\ cur' \in DOMAIN node'
    BY <1>1, <1>2, <1>9, PopFacts DEF Inv, TypeOK
  <2> QED
    BY <1>1, <2>2, <2>3, <2>4, <2>5 DEF Inv, TypeOK
<1>15. NodesHaveRoom'
  <2>1. Size(node'[next]) = Size(son) /\ Size(node'[cur]) = Size(son)
        /\ Size(node'[p]) = Size(node[p])
    BY <1>10, <1>11, <1>12 DEF Size
  <2>2. /\ Len(node'[next].kv) \in 1 .. Size(son) - 1
        /\ Len(node'[cur].kv) \in 1 .. Size(son) - 1
    BY <1>7, <1>10, <1>11
  <2>3. Len(node[p].kv) < Size(node[p]) /\ Len(node[p].kv) \in Nat /\ Size(node[p]) \in Nat
    BY <1>2, BlockFacts DEF Inv, NodesHaveRoom, Full
  <2>4. Len(node'[p].kv) <= Size(node'[p]) /\ Len(node'[p].kv) >= 1
    BY <1>8, <1>12, <2>1, <2>3
  <2>5. ASSUME NEW b \in DOMAIN node \ {cur, p}
        PROVE  /\ Len(node'[b].kv) <= Size(node'[b]) /\ Len(node'[b].kv) # Size(node'[b])
               /\ node'[b].kv # << >>
    <3>1. Size(node'[b]) = Size(node[b]) /\ node'[b].kv = node[b].kv
      BY <1>13 DEF Size
    <3> QED
      BY <1>1, <3>1 DEF Inv, NodesHaveRoom, Full
  <2>6. ASSUME NEW b \in DOMAIN node'
        PROVE  /\ Len(node'[b].kv) <= Size(node'[b])
               /\ Len(node'[b].kv) = Size(node'[b]) => b = p
               /\ node'[b].kv # << >>
    <3>1. CASE b = next
      BY <3>1, <1>6, <2>1, <2>2
    <3>2. CASE b = cur
      BY <3>2, <1>6, <2>1, <2>2
    <3>3. CASE b = p
      BY <3>3, <2>4
    <3>4. CASE b \in DOMAIN node \ {cur, p}
      BY <3>4, <2>5
    <3> QED
      BY <1>9, <3>1, <3>2, <3>3, <3>4
  <2> QED
    BY <1>1, <2>6 DEF NodesHaveRoom, Full, Size
<1>16. Balanced'
  <2>1. ASSUME NEW b \in DOMAIN node
        PROVE  b \in DOMAIN node' /\ node'[b].leaf = node[b].leaf /\ node'[b].level = node[b].level
    BY <1>9, <1>11, <1>12, <1>13
  <2> DEFINE Child(c, l) == c \in DOMAIN node' /\ node'[c].level + 1 = l
  <2>2. ASSUME NEW b \in DOMAIN node, ~ node[b].leaf, NEW i \in 1 .. Len(node[b].kv)
        PROVE  Child(node[b].kv[i].val, node[b].level)
    BY <2>1, <2>2 DEF Inv, Balanced
  <2>3. ASSUME NEW b \in DOMAIN node', ~ node'[b].leaf, NEW i \in 1 .. Len(node'[b].kv)
        PROVE  Child(node'[b].kv[i].val, node'[b].level)
    <3>1. CASE b = next
      <4>1. /\ ~ son.leaf /\ node'[b].level = son.level
            /\ Len(keep) + i \in 1 .. Len(son.kv) /\ node'[b].kv[i] = son.kv[Len(keep) + i]
        BY <3>1, <2>3, <1>7, <1>10
      <4> HIDE DEF Child
      <4> QED
        BY <4>1, <2>2, <1>2
    <3>2. CASE b = cur
      <4>1. /\ ~ son.leaf /\ node'[b].level = son.level
            /\ i \in 1 .. Len(son.kv) /\ node'[b].kv[i] = son.kv[i]
        BY <3>2, <2>3, <1>7, <1>11
      <4> HIDE DEF Child
      <4> QED
        BY <4>1, <2>2, <1>2
    <3>3. CASE b = p
      <4>1. /\ node'[b].level = node[p].level
            /\ \/ node'[b].kv[i].val \in {cur, next}
               \/ \E j \in 1 .. Len(node[p].kv) : node'[b].kv[i].val = node[p].kv[j].val
        BY <3>3, <1>8, <1>12, <2>3
      <4>2. Child(cur, node[p].level) /\ Child(next, node[p].level)
        BY <1>2, <1>9, <1>10, <1>11
      <4> HIDE DEF Child
      <4> QED
        BY <4>1, <4>2, <2>2, <1>2
    <3>4. CASE b \in DOMAIN node \ {cur, p}
      <4>1. /\ ~ node[b].leaf /\ node'[b].level = node[b].level /\ node'[b].kv = node[b].kv
        BY <3>4, <2>3, <1>13
      <4> HIDE DEF Child
      <4> QED
        BY <4>1, <2>2, <2>3, <3>4
    <3> QED
      BY <1>9, <3>1, <3>2, <3>3, <3>4
  <2>4. ASSUME NEW b \in DOMAIN node'
        PROVE  node'[b].leaf <=> node'[b].level = 0
    <3>1. CASE b = next
      BY <3>1, <1>2, <1>10 DEF Inv, Balanced
    <3>2. CASE b \in DOMAIN node
      BY <3>2, <2>1 DEF Inv, Balanced
    <3> QED
      BY <1>9, <3>1, <3>2
  <2> QED
    BY <2>3, <2>4 DEF Balanced
<1>17. SiblingsLinked'
  <2>1. node'[root'].next = 0 /\ node'[root'].last = 0
    <3>1. root # son.next
      <4>1. root # 0 /\ node[root].last = 0 /\ cur # 0
        BY <1>2, BlockFacts DEF Inv, SiblingsLinked, TypeOK
      <4> QED
        BY <1>4, <4>1
    <3>2. root \in DOMAIN node /\ node[root].next = 0 /\ node[root].last = 0
      BY DEF Inv, SiblingsLinked, TypeOK
    <3> QED
      BY <1>1, <1>2, <1>12, <1>13, <3>1, <3>2
  <2>2. ASSUME NEW b \in DOMAIN node'
        PROVE  /\ node'[b].next # b
               /\ node'[b].next # 0 => /\ node'[b].next \in DOMAIN node'
                                       /\ node'[node'[b].next].last = b
                                       /\ node'[node'[b].next].level = node'[b].level
    <3>1. CASE b = next
      <4>1. node'[b].next = son.next /\ node'[b].level = son.level
        BY <3>1, <1>10
      <4>2. CASE son.next = 0
        BY <3>1, <4>1, <4>2, <1>3
      <4>3. CASE son.next # 0
        BY <3>1, <4>1, <4>3, <1>3, <1>4, <1>9, <1>13
      <4> QED
        BY <4>2, <4>3
    <3>2. CASE b = cur
      BY <3>2, <1>2, <1>3, <1>9, <1>10, <1>11
    <3>3. CASE b \in DOMAIN node \ {cur}
      <4>1. node'[b].next = node[b].next /\ node'[b].level = node[b].level
        BY <3>3, <1>12, <1>13
      <4>2. /\ node[b].next # b
            /\ node[b].next # 0 => /\ node[b].next \in DOMAIN node
                                   /\ node[node[b].next].last = b
                                   /\ node[node[b].next].level = node[b].level
        BY <3>3 DEF Inv, SiblingsLinked
      <4>3. ASSUME node[b].next # 0
            PROVE  /\ node'[node[b].next].last = b
                   /\ node'[node[b].next].level = node[b].level
                   /\ node[b].next \in DOMAIN node'
        <5>1. node[b].next # son.next
          BY <3>3, <4>2, <4>3, <1>4
        <5>2. \A c \in DOMAIN node \ {son.next} :
                node'[c].last = node[c].last /\ node'[c].level = node[c].level
          BY <1>11, <1>12, <1>13
        <5> QED
          BY <4>2, <4>3, <5>1, <5>2, <1>9
      <4> QED
        BY <4>1, <4>2, <4>3
    <3> QED
      BY <1>9, <3>1, <3>2, <3>3
  <2>3. ASSUME NEW b \in DOMAIN node', node'[b].last # 0
        PROVE  node'[b].last \in DOMAIN node' /\ node'[node'[b].last].next = b
    <3>1. CASE b = next
      BY <3>1, <1>2, <1>9, <1>10, <1>11
    <3>2. CASE b \in DOMAIN node /\ b = son.next
      <4>1. b # cur /\ b # p
        BY <3>2, <1>4, BlockFacts DEF Inv
      <4>2. node'[b].last = next
        BY <3>2, <4>1, <1>13
      <4> QED
        BY <3>2, <4>2, <1>9, <1>10
    <3>3. CASE b \in DOMAIN node /\ b # son.next
      <4>1. node'[b].last = node[b].last
        BY <3>3, <1>11, <1>12, <1>13
      <4>2. node[b].last \in DOMAIN node /\ node[node[b].last].next = b
        BY <3>3, <4>1, <2>3 DEF Inv, SiblingsLinked
      <4>3. node[b].last # cur
        BY <3>3, <4>2
      <4>4. \A c \in DOMAIN node \ {cur} : node'[c].next = node[c].next
        BY <1>12, <1>13
      <4> QED
        BY <4>1, <4>2, <4>3, <4>4, <1>9
    <3> QED
      BY <1>9, <3>1, <3>2, <3>3
  <2> QED
    BY <2>1, <2>2, <2>3 DEF SiblingsLinked
<1>18. FramesFormPath'
  <2>1. ASSUME NEW b \in DOMAIN node, node[b].level > node[p].level
        PROVE  /\ b \in DOMAIN node' /\ node'[b].leaf = node[b].leaf
               /\ node'[b].kv = node[b].kv /\ node'[b].level = node[b].level
    <3>1. b # cur /\ b # p
      BY <1>2, <2>1
    <3> QED
      BY <3>1, <1>9, <1>13
  <2> QED
    BY <1>1, <1>2, <1>9, <1>12, <2>1, AscendPath
<1> QED
  BY <1>14, <1>15, <1>16, <1>17, <1>18 DEF Inv

\* The two items of a new root.
NewRootItems == << NewItem(MaxKey(Lower(node[root].kv)), root),
                   NewItem(MaxKey(node[root].kv), countOfBlock + 1) >>

\* The blocks after the split of the root: the new root, its two children, and
\* the others.
LEMMA RootSplitBlocks ==
  ASSUME Inv, PutSplitRoot
  PROVE  /\ countOfBlock \in Nat /\ countOfBlock >= 2 /\ countOfBlock \notin DOMAIN node
         /\ countOfBlock + 1 \in Nat /\ countOfBlock + 1 \notin DOMAIN node
         /\ DOMAIN node' = DOMAIN node \cup {countOfBlock, countOfBlock + 1}
         /\ NewRootItems \in Seq(Item) /\ Len(NewRootItems) = 2 /\ NewRootItems # << >>
         /\ NewRootItems[1].val = root /\ NewRootItems[2].val = countOfBlock + 1
         /\ node'[countOfBlock] \in NodeBlock /\ ~ node'[countOfBlock].leaf
         /\ node'[countOfBlock].kv = NewRootItems /\ node'[countOfBlock].next = 0
         /\ node'[countOfBlock].last = 0 /\ node'[countOfBlock].level = node[root].level + 1
         /\ node'[countOfBlock + 1] \in NodeBlock /\ node'[countOfBlock + 1].leaf = node[root].leaf
         /\ node'[countOfBlock + 1].kv = Upper(node[root].kv) /\ node'[countOfBlock + 1].next = 0
         /\ node'[countOfBlock + 1].last = root /\ node'[countOfBlock + 1].level = node[root].level
         /\ node'[root] \in NodeBlock /\ node'[root].leaf = node[root].leaf
         /\ node'[root].kv = Lower(node[root].kv) /\ node'[root].next = countOfBlock + 1
         /\ node'[root].last = 0 /\ node'[root].level = node[root].level
         /\ \A b \in DOMAIN node \ {root} : node'[b] = node[b]
<1> DEFINE old == node[root]
           newRoot == countOfBlock
           next == countOfBlock + 1
           keep == Lower(old.kv)
           two == NewRootItems
           top == [leaf |-> FALSE, next |-> 0, last |-> 0, level |-> old.level + 1, kv |-> two]
<1>1. /\ pc = "up" /\ stack = << >> /\ Full(old) /\ cur = root
      /\ root' = newRoot /\ pc' = "idle" /\ cur' = 0 /\ stack' = << >> /\ arg' = << >>
      /\ ret' = "stored" /\ countOfItem' = countOfItem + 1
      /\ countOfBlock' = countOfBlock + 2
      /\ numberOfBlock' = Grow(Grow(numberOfBlock, countOfBlock), countOfBlock + 1)
  BY DEF PutSplitRoot, Return, CountItem, Inv, FramesFormPath
<1>2. /\ root \in DOMAIN node /\ old \in NodeBlock /\ root \in Nat /\ root # 0
      /\ old.leaf \in BOOLEAN /\ old.kv \in Seq(Item) /\ old.level \in Nat
      /\ Size(old) \in Nat /\ Size(old) >= 2 /\ Len(old.kv) = Size(old)
      /\ old.next = 0 /\ old.last = 0
  BY <1>1, BlockFacts DEF Inv, TypeOK, Full, SiblingsLinked
<1>3. /\ newRoot \in Nat /\ newRoot >= 2 /\ newRoot \notin DOMAIN node
      /\ next \in Nat /\ next >= 2 /\ next \notin DOMAIN node /\ next # newRoot
  BY BlockFacts DEF Inv, TypeOK
<1>4. /\ keep \in Seq(Item) /\ Len(keep) \in 1 .. Size(old) - 1
      /\ Upper(old.kv) \in Seq(Item) /\ Len(Upper(old.kv)) \in 1 .. Size(old) - 1
      /\ \A i \in 1 .. Len(keep) : i \in 1 .. Len(old.kv) /\ keep[i] = old.kv[i]
      /\ \A i \in 1 .. Len(Upper(old.kv)) :
           Len(keep) + i \in 1 .. Len(old.kv) /\ Upper(old.kv)[i] = old.kv[Len(keep) + i]
  <2> DEFINE sk == old.kv
             sz == Size(old)
  <2>1. sk \in Seq(Item) /\ sz \in Nat /\ sz >= 2 /\ Len(sk) = sz
    BY <1>2
  <2> HIDE DEF sk, sz
  <2>2. /\ Lower(sk) \in Seq(Item) /\ Len(Lower(sk)) \in 1 .. sz - 1
        /\ Upper(sk) \in Seq(Item) /\ Len(Upper(sk)) \in 1 .. sz - 1
        /\ \A i \in 1 .. Len(Lower(sk)) : i \in 1 .. Len(sk) /\ Lower(sk)[i] = sk[i]
        /\ \A i \in 1 .. Len(Upper(sk)) :
             Len(Lower(sk)) + i \in 1 .. Len(sk) /\ Upper(sk)[i] = sk[Len(Lower(sk)) + i]
    BY <2>1, SplitFacts
  <2> QED
    BY <2>2 DEF sk, sz
<1>5. MaxKey(keep) \in Key /\ MaxKey(old.kv) \in Key
  <2>1. keep[Len(keep)] \in Item /\ old.kv[Len(old.kv)] \in Item
    BY <1>2, <1>4, ElementOfSeq
  <2> QED
    BY <2>1 DEF MaxKey, Last, Item
<1> HIDE DEF keep
<1>6. /\ two \in Seq(Item) /\ Len(two) = 2 /\ two # << >> /\ two[1].val = root /\ two[2].val = next
  <2>1. /\ NewItem(MaxKey(keep), root) \in Item /\ NewItem(MaxKey(keep), root).val = root
        /\ NewItem(MaxKey(old.kv), next) \in Item /\ NewItem(MaxKey(old.kv), next).val = next
    BY <1>2, <1>3, <1>5 DEF NewItem, Item
  <2> QED
    BY <2>1 DEF NewRootItems, keep
<1> HIDE DEF two
<1>7. /\ top \in NodeBlock /\ ~ top.leaf /\ top.kv = two /\ top.next = 0 /\ top.last = 0
      /\ top.level = old.level + 1
  BY <1>2, <1>6 DEF NodeBlock
<1> HIDE DEF top
<1>8. /\ DOMAIN node' = DOMAIN node \cup {newRoot, next}
      /\ node'[newRoot] = top
      /\ node'[next] = [Sibling(old, root) EXCEPT !.next = 0]
      /\ node'[root] = [old EXCEPT !.kv = keep, !.next = next]
      /\ \A b \in DOMAIN node \ {root} : node'[b] = node[b]
  <2>1. node' = [b \in DOMAIN node \cup {newRoot, next} |->
                   CASE b = newRoot -> top
                     [] b = next    -> [Sibling(old, root) EXCEPT !.next = 0]
                     [] b = root    -> [old EXCEPT !.kv = keep, !.next = next]
                     [] OTHER       -> node[b]]
    BY DEF PutSplitRoot, top, two, keep, NewRootItems
  <2> QED
    BY <2>1, <1>2, <1>3
<1>9. /\ node'[next] \in NodeBlock /\ node'[next].leaf = old.leaf
      /\ node'[next].kv = Upper(old.kv) /\ node'[next].next = 0
      /\ node'[next].last = root /\ node'[next].level = old.level
  BY <1>2, <1>4, <1>8 DEF Sibling, NodeBlock
<1>10. /\ node'[root] \in NodeBlock /\ node'[root].leaf = old.leaf
       /\ node'[root].kv = keep /\ node'[root].next = next
       /\ node'[root].last = 0 /\ node'[root].level = old.level
  BY <1>2, <1>3, <1>4, <1>8 DEF NodeBlock
<1> QED
  BY <1>3, <1>6, <1>7, <1>8, <1>9, <1>10 DEF two, keep

LEMMA PutSplitRootInv ==
  ASSUME Inv, PutSplitRoot
  PROVE  Inv'
<1> DEFINE old == node[root]
           newRoot == countOfBlock
           next == countOfBlock + 1
           keep == Lower(old.kv)
           two == NewRootItems
<1>1. /\ pc = "up" /\ stack = << >> /\ Full(old) /\ cur = root
      /\ root' = newRoot /\ pc' = "idle" /\ cur' = 0 /\ stack' = << >> /\ arg' = << >>
      /\ ret' = "stored" /\ countOfItem' = countOfItem + 1
      /\ countOfBlock' = countOfBlock + 2
      /\ numberOfBlock' = Grow(Grow(numberOfBlock, countOfBlock), countOfBlock + 1)
  BY DEF PutSplitRoot, Return, CountItem, Inv, FramesFormPath
<1>2. /\ root \in DOMAIN node /\ old \in NodeBlock /\ root \in Nat /\ root # 0
      /\ old.leaf \in BOOLEAN /\ old.kv \in Seq(Item) /\ old.level \in Nat
      /\ Size(old) \in Nat /\ Size(old) >= 2 /\ Len(old.kv) = Size(old)
      /\ old.next = 0 /\ old.last = 0
  BY <1>1, BlockFacts DEF Inv, TypeOK, Full, SiblingsLinked
<1>3. /\ newRoot \in Nat /\ newRoot >= 2 /\ newRoot \notin DOMAIN node
      /\ next \in Nat /\ next >= 2 /\ next \notin DOMAIN node /\ next # newRoot
  BY BlockFacts DEF Inv, TypeOK
<1>4. /\ keep \in Seq(Item) /\ Len(keep) \in 1 .. Size(old) - 1
      /\ Upper(old.kv) \in Seq(Item) /\ Len(Upper(old.kv)) \in 1 .. Size(old) - 1
      /\ \A i \in 1 .. Len(keep) : i \in 1 .. Len(old.kv) /\ keep[i] = old.kv[i]
      /\ \A i \in 1 .. Len(Upper(old.kv)) :
           Len(keep) + i \in 1 .. Len(old.kv) /\ Upper(old.kv)[i] = old.kv[Len(keep) + i]
  <2> DEFINE sk == old.kv
             sz == Size(old)
  <2>1. sk \in Seq(Item) /\ sz \in Nat /\ sz >= 2 /\ Len(sk) = sz
    BY <1>2
  <2> HIDE DEF sk, sz
  <2>2. /\ Lower(sk) \in Seq(Item) /\ Len(Lower(sk)) \in 1 .. sz - 1
        /\ Upper(sk) \in Seq(Item) /\ Len(Upper(sk)) \in 1 .. sz - 1
        /\ \A i \in 1 .. Len(Lower(sk)) : i \in 1 .. Len(sk) /\ Lower(sk)[i] = sk[i]
        /\ \A i \in 1 .. Len(Upper(sk)) :
             Len(Lower(sk)) + i \in 1 .. Len(sk) /\ Upper(sk)[i] = sk[Len(Lower(sk)) + i]
    BY <2>1, SplitFacts
  <2> QED
    BY <2>2 DEF sk, sz
<1>6. /\ two \in Seq(Item) /\ Len(two) = 2 /\ two # << >> /\ two[1].val = root /\ two[2].val = next
  BY RootSplitBlocks
<1>7. /\ node'[newRoot] \in NodeBlock /\ ~ node'[newRoot].leaf /\ node'[newRoot].kv = two
      /\ node'[newRoot].next = 0 /\ node'[newRoot].last = 0
      /\ node'[newRoot].level = old.level + 1
  BY RootSplitBlocks
<1>8. /\ DOMAIN node' = DOMAIN node \cup {newRoot, next}
      /\ \A b \in DOMAIN node \ {root} : node'[b] = node[b]
  BY RootSplitBlocks
<1>9. /\ node'[next] \in NodeBlock /\ node'[next].leaf = old.leaf
      /\ node'[next].kv = Upper(old.kv) /\ node'[next].next = 0
      /\ node'[next].last = root /\ node'[next].level = old.level
  BY RootSplitBlocks
<1>10. /\ node'[root] \in NodeBlock /\ node'[root].leaf = old.leaf
       /\ node'[root].kv = keep /\ node'[root].next = next
       /\ node'[root].last = 0 /\ node'[root].level = old.level
  BY RootSplitBlocks
<1> HIDE DEF keep, two
<1>11. TypeOK'
  <2>1. ASSUME NEW b \in DOMAIN node'
        PROVE  node'[b] \in NodeBlock
    <3>1. b = newRoot \/ b = next \/ b = root \/ b \in DOMAIN node \ {root}
      BY <1>8
    <3> HIDE DEF newRoot, next
    <3> QED
      BY <3>1, <1>7, <1>8, <1>9, <1>10, BlockFacts DEF Inv
  <2>2. DOMAIN node' \subseteq 1 .. countOfBlock' - 1
    BY <1>1, <1>3, <1>8, BlockFacts DEF Inv, TypeOK
  <2>3. node' \in [DOMAIN node' -> NodeBlock]
    <3>1. node' = [b \in DOMAIN node' |-> node'[b]]
      BY DEF PutSplitRoot
    <3> QED
      BY <2>1, <3>1
  <2>4. /\ countOfBlock' \in Nat /\ countOfBlock' >= 2 /\ numberOfBlock' \in Nat
        /\ countOfBlock' <= numberOfBlock' /\ countOfItem' \in Nat
    <3> DEFINE g == Grow(numberOfBlock, countOfBlock)
    <3>1. g \in Nat /\ countOfBlock + 1 <= g
      BY GrowFacts DEF Inv, TypeOK
    <3> HIDE DEF g
    <3>2. Grow(g, countOfBlock + 1) \in Nat /\ countOfBlock + 1 + 1 <= Grow(g, countOfBlock + 1)
      BY <3>1, <1>3, GrowFacts
    <3> QED
      BY <1>1, <1>3, <3>2 DEF Inv, TypeOK, g
  <2>5. stack' \in Seq(Frame) /\ root' \in DOMAIN node'
    BY <1>1, <1>8
  <2> QED
    BY <1>1, <2>2, <2>3, <2>4, <2>5 DEF TypeOK
<1>12. NodesHaveRoom'
  <2>1. ASSUME NEW b \in DOMAIN node'
        PROVE  /\ Len(node'[b].kv) <= Size(node'[b]) /\ Len(node'[b].kv) # Size(node'[b])
               /\ node'[b].kv # << >>
    <3>1. CASE b = newRoot
      <4>1. Size(node'[b]) = NodeSize /\ node'[b].kv = two
        BY <3>1, <1>7, <1>8 DEF Size
      <4>2. Len(two) = 2 /\ two # << >>
        BY ONLY <1>6
      <4>3. 2 <= NodeSize /\ 2 # NodeSize
        BY SizeAssumption
      <4> QED
        BY <4>1, <4>2, <4>3
    <3>2. CASE b = next
      <4>1. Size(node'[b]) = Size(old)
        BY <3>2, <1>9 DEF Size
      <4> QED
        BY <3>2, <4>1, <1>2, <1>4, <1>9
    <3>3. CASE b = root
      <4>1. Size(node'[b]) = Size(old)
        BY <3>3, <1>10 DEF Size
      <4> QED
        BY <3>3, <4>1, <1>2, <1>4, <1>10
    <3>4. CASE b \in DOMAIN node \ {root}
      <4>1. Size(node'[b]) = Size(node[b]) /\ node'[b].kv = node[b].kv
        BY <3>4, <1>8 DEF Size
      <4> QED
        BY <3>4, <4>1, <1>1 DEF Inv, NodesHaveRoom, Full
    <3> QED
      BY <1>8, <3>1, <3>2, <3>3, <3>4
  <2> QED
    BY <2>1 DEF NodesHaveRoom, Full, Size
<1>13. Balanced'
  <2> DEFINE Child(c, l) == c \in DOMAIN node' /\ node'[c].level + 1 = l
  <2>1. ASSUME NEW b \in DOMAIN node
        PROVE  b \in DOMAIN node' /\ node'[b].leaf = node[b].leaf /\ node'[b].level = node[b].level
    BY <1>8, <1>10
  <2>2. ASSUME NEW b \in DOMAIN node, ~ node[b].leaf, NEW i \in 1 .. Len(node[b].kv)
        PROVE  Child(node[b].kv[i].val, node[b].level)
    BY <2>1, <2>2 DEF Inv, Balanced
  <2>3. ASSUME NEW b \in DOMAIN node', ~ node'[b].leaf, NEW i \in 1 .. Len(node'[b].kv)
        PROVE  Child(node'[b].kv[i].val, node'[b].level)
    <3>1. CASE b = newRoot
      <4>1. node'[b].level = old.level + 1 /\ node'[b].kv[i].val \in {root, next}
        <5>1. node'[b].level = old.level + 1 /\ node'[b].kv = two
          BY <3>1, <1>7
        <5>2. i = 1 \/ i = 2
          BY <2>3, <5>1, <1>6
        <5> QED
          BY <5>1, <5>2, <1>6
      <4>2. root \in DOMAIN node'
        BY <1>2, <1>8
      <4>3. next \in DOMAIN node'
        BY <1>8
      <4> HIDE DEF next, newRoot
      <4>4. Child(root, old.level + 1) /\ Child(next, old.level + 1)
        BY <4>2, <4>3, <1>9, <1>10
      <4> HIDE DEF Child
      <4> QED
        BY <4>1, <4>4
    <3>2. CASE b = next
      <4>1. /\ ~ old.leaf /\ node'[b].level = old.level
            /\ Len(keep) + i \in 1 .. Len(old.kv) /\ node'[b].kv[i] = old.kv[Len(keep) + i]
        BY <3>2, <2>3, <1>4, <1>9
      <4> HIDE DEF Child
      <4> QED
        BY <4>1, <2>2, <1>2
    <3>3. CASE b = root
      <4>1. /\ ~ old.leaf /\ node'[b].level = old.level
            /\ i \in 1 .. Len(old.kv) /\ node'[b].kv[i] = old.kv[i]
        BY <3>3, <2>3, <1>4, <1>10
      <4> HIDE DEF Child
      <4> QED
        BY <4>1, <2>2, <1>2
    <3>4. CASE b \in DOMAIN node \ {root}
      <4>1. node'[b] = node[b]
        BY <3>4, <1>8
      <4> HIDE DEF Child
      <4> QED
        BY <4>1, <2>2, <2>3, <3>4
    <3> QED
      BY <1>8, <3>1, <3>2, <3>3, <3>4
  <2>4. ASSUME NEW b \in DOMAIN node'
        PROVE  node'[b].leaf <=> node'[b].level = 0
    <3>1. CASE b = newRoot
      BY <3>1, <1>2, <1>7, <1>8
    <3>2. CASE b = next
      BY <3>2, <1>2, <1>9 DEF Inv, Balanced
    <3>3. CASE b \in DOMAIN node
      BY <3>3, <2>1 DEF Inv, Balanced
    <3> QED
      BY <1>8, <3>1, <3>2, <3>3
  <2> QED
    BY <2>3, <2>4 DEF Balanced
<1>14. SiblingsLinked'
  <2>1. node'[root'].next = 0 /\ node'[root'].last = 0
    BY <1>1, <1>7, <1>8
  <2>2. ASSUME NEW b \in DOMAIN node \ {root}
        PROVE  /\ node[b].next # b
               /\ node[b].next # 0 =>
                    /\ node[b].next \in DOMAIN node \ {root}
                    /\ node[node[b].next].last = b
                    /\ node[node[b].next].level = node[b].level
               /\ node[b].last # 0 => /\ node[b].last \in DOMAIN node \ {root}
                                      /\ node[node[b].last].next = b
    <3>1. b # 0
      BY BlockFacts DEF Inv
    <3> QED
      BY <3>1, <1>2 DEF Inv, SiblingsLinked
  <2>3. ASSUME NEW b \in DOMAIN node'
        PROVE  /\ node'[b].next # b
               /\ node'[b].next # 0 => /\ node'[b].next \in DOMAIN node'
                                       /\ node'[node'[b].next].last = b
                                       /\ node'[node'[b].next].level = node'[b].level
               /\ node'[b].last # 0 => /\ node'[b].last \in DOMAIN node'
                                       /\ node'[node'[b].last].next = b
    <3>1. CASE b = newRoot
      BY <3>1, <1>3, <1>7, <1>8
    <3>2. CASE b = next
      <4>1. root \in DOMAIN node'
        BY <1>2, <1>8
      <4>2. next # 0 /\ root # 0
        BY <1>2, <1>3
      <4> HIDE DEF next, newRoot
      <4> QED
        BY <3>2, <4>1, <4>2, <1>9, <1>10
    <3>3. CASE b = root
      BY <3>3, <1>2, <1>3, <1>8, <1>9, <1>10
    <3>4. CASE b \in DOMAIN node \ {root}
      BY <3>4, <2>2, <1>8
    <3> QED
      BY <1>8, <3>1, <3>2, <3>3, <3>4
  <2> QED
    BY <2>1, <2>3 DEF SiblingsLinked
<1>15. FramesFormPath'
  BY <1>1 DEF FramesFormPath
<1> QED
  BY <1>11, <1>12, <1>13, <1>14, <1>15 DEF Inv

(***************************************************************************)
(* The theorems                                                            *)
(***************************************************************************)

LEMMA NextInv == Inv /\ [Next]_vars => Inv'
<1> SUFFICES ASSUME Inv, [Next]_vars PROVE Inv'
  OBVIOUS
<1>1. ASSUME NEW k \in Key, NEW v \in Val, PutCall(k, v) PROVE Inv'
  BY <1>1, PutCallInv
<1>2. CASE Descend
  BY <1>2, DescendInv
<1>3. CASE LeafDuplicate
  BY <1>3, LeafDuplicateInv
<1>4. CASE LeafValueError
  BY <1>4, LeafValueErrorInv
<1>5. CASE LeafRevive
  BY <1>5, LeafReviveInv
<1>6. CASE LeafInsert
  BY <1>6, LeafInsertInv
<1>7. CASE AscendKeep
  BY <1>7, AscendKeepInv
<1>8. CASE AscendSplit
  BY <1>8, AscendSplitInv
<1>9. CASE PutReturn
  BY <1>9, PutReturnInv
<1>10. CASE PutSplitRoot
  BY <1>10, PutSplitRootInv
<1>11. ASSUME NEW b \in Leaves, NEW i \in 1 .. Len(node[b].kv), RemoveByFlag(b, i) PROVE Inv'
  BY <1>11, RemoveByFlagInv
<1>12. CASE UNCHANGED vars
  <2>1. /\ UNCHANGED <<node, root, countOfItem, countOfBlock, numberOfBlock>>
        /\ UNCHANGED <<pc, cur, stack, arg, ret>>
    BY <1>12 DEF vars, meta, call
  <2>2. TypeOK'
    BY <2>1 DEF Inv, TypeOK
  <2>3. NodesHaveRoom'
    BY <2>1 DEF Inv, NodesHaveRoom, Full, Size
  <2>4. Balanced'
    BY <2>1 DEF Inv, Balanced
  <2>5. SiblingsLinked'
    BY <2>1 DEF Inv, SiblingsLinked
  <2>6. FramesFormPath'
    BY <2>1 DEF Inv, FramesFormPath, OnPath
  <2> QED
    BY <2>2, <2>3, <2>4, <2>5, <2>6 DEF Inv
<1>13. CASE PutStep
  BY <1>13, <1>2, <1>3, <1>4, <1>5, <1>6, <1>7, <1>8, <1>9, <1>10 DEF PutStep
<1>14. CASE \E k \in Key, v \in Val : PutCall(k, v)
  BY <1>14, <1>1
<1>15. CASE \E b \in Leaves : \E i \in 1 .. Len(node[b].kv) : RemoveByFlag(b, i)
  BY <1>15, <1>11
<1> QED
  BY <1>12, <1>13, <1>14, <1>15 DEF Next

\* The invariant holds in every behaviour of the tree.
THEOREM InvHolds == Spec => []Inv
<1> QED
  BY InitInv, NextInv, PTL DEF Spec

\* Every variable keeps its type: block numbers stay those of the file, and a
\* new block is always inside it (getFreeNodeBlock() resizes in time).
THEOREM TypeCorrect == Spec => []TypeOK
<1>1. Inv => TypeOK
  BY DEF Inv
<1> QED
  BY InvHolds, <1>1, PTL

\* assert(count < size()) of NodeBlock::insert() never fires and maxKey() is
\* never asked of an empty block, whatever the sizes of the blocks.
THEOREM RoomTheorem == Spec => []NodesHaveRoom
<1>1. Inv => NodesHaveRoom
  BY DEF Inv
<1> QED
  BY InvHolds, <1>1, PTL

\* The tree is balanced: every descent reaches a leaf at the same depth.
THEOREM BalanceTheorem == Spec => []Balanced
<1>1. Inv => Balanced
  BY DEF Inv
<1> QED
  BY InvHolds, <1>1, PTL

\* The links that Iterator::next() and prev() follow are inverses of each other.
THEOREM LinkTheorem == Spec => []SiblingsLinked
<1>1. Inv => SiblingsLinked
  BY DEF Inv
<1> QED
  BY InvHolds, <1>1, PTL

\* The frames of the recursion stay a path of the tree while it is split.
THEOREM PathTheorem == Spec => []FramesFormPath
<1>1. Inv => FramesFormPath
  BY DEF Inv
<1> QED
  BY InvHolds, <1>1, PTL

(***************************************************************************)
(* The order of the keys                                                   *)
(***************************************************************************)

\* A block is the child of one item.
LEMMA OneSlot ==
  ASSUME Ordered, NEW p \in DOMAIN node, NEW q \in DOMAIN node, ~ node[p].leaf, ~ node[q].leaf,
         NEW i \in 1 .. Len(node[p].kv), NEW j \in 1 .. Len(node[q].kv),
         node[p].kv[i].val = node[q].kv[j].val
  PROVE  p = q /\ i = j
BY DEF Ordered, OneParent

\* The block t is s with the item e inserted at i.
IsInsert(t, s, i, e) ==
  /\ t \in Seq(Item) /\ Len(t) = Len(s) + 1
  /\ \A j \in 1 .. Len(s) + 1 : t[j] = IF j < i THEN s[j] ELSE IF j = i THEN e ELSE s[j - 1]

LEMMA ItemInserted ==
  ASSUME NEW s \in Seq(Item), NEW i \in 1 .. Len(s) + 1, NEW e \in Item
  PROVE  IsInsert(InsertAt(s, i, e), s, i, e)
<1> DEFINE t == InsertAt(s, i, e)
<1>1. /\ t \in Seq(Item) /\ Len(t) = Len(s) + 1
      /\ \A j \in 1 .. Len(s) + 1 : t[j] = IF j < i THEN s[j] ELSE IF j = i THEN e ELSE s[j - 1]
  BY ONLY s \in Seq(Item), i \in 1 .. Len(s) + 1, e \in Item, InsertAtProperties, SMTT(20)
<1> HIDE DEF t
<1>2. IsInsert(t, s, i, e)
  BY ONLY <1>1 DEF IsInsert
<1> QED
  BY <1>2 DEF t

(***************************************************************************)
(* The search for a key                                                    *)
(***************************************************************************)

\* The keys of a block, and the largest of them.
LEMMA KeyFacts ==
  ASSUME Inv, NEW b \in DOMAIN node
  PROVE  /\ Len(node[b].kv) \in Nat
         /\ \A i \in 1 .. Len(node[b].kv) : node[b].kv[i].key \in Int
         /\ MaxKey(node[b].kv) = node[b].kv[Len(node[b].kv)].key
         /\ node[b].kv # << >> => Len(node[b].kv) >= 1 /\ MaxKey(node[b].kv) \in Int
         /\ ~ node[b].leaf \/ node[b].next # 0 \/ node[b].last # 0 => node[b].kv # << >>
<1>1. /\ Len(node[b].kv) \in Nat /\ node[b].kv \in Seq(Item)
      /\ \A i \in 1 .. Len(node[b].kv) : node[b].kv[i] \in Item
  BY BlockFacts DEF Inv
<1>2. \A i \in 1 .. Len(node[b].kv) : node[b].kv[i].key \in Int
  BY <1>1, KeyAssumption DEF Item
<1>3. node[b].kv # << >> => Len(node[b].kv) >= 1
  BY <1>1, EmptySeq
<1>4. MaxKey(node[b].kv) = node[b].kv[Len(node[b].kv)].key
  BY DEF MaxKey, Last
<1>5. ~ node[b].leaf \/ node[b].next # 0 \/ node[b].last # 0 => node[b].kv # << >>
  BY DEF Inv, NodesHaveRoom, SiblingsLinked
<1> QED
  BY <1>1, <1>2, <1>3, <1>4, <1>5

\* A child of an interior block.
LEMMA SonFacts ==
  ASSUME Inv, Ordered, NEW p \in DOMAIN node, ~ node[p].leaf,
         NEW i \in 1 .. Len(node[p].kv), NEW c, c = node[p].kv[i].val
  PROVE  /\ c \in DOMAIN node /\ c # 0 /\ c # p /\ c # root
         /\ node[c].level + 1 = node[p].level
         /\ node[c].kv # << >>
         /\ node[c].next = IF i < Len(node[p].kv) THEN node[p].kv[i + 1].val
                           ELSE IF node[p].next = 0 THEN 0 ELSE node[node[p].next].kv[1].val
<1>1. c \in DOMAIN node /\ node[c].level + 1 = node[p].level
  BY DEF Inv, Balanced
<1>2. /\ c # 0 /\ node[p].level \in Nat /\ node[c].level \in Nat
      /\ root \in DOMAIN node /\ node[root].level \in Nat
  BY <1>1, BlockFacts DEF Inv, TypeOK
<1>3. c # p
  BY <1>1, <1>2
<1>4. c # root
  BY <1>1, <1>2 DEF Ordered, OneParent
<1>5. node[c].kv # << >>
  BY <1>1, <1>4 DEF Inv, NodesHaveRoom
<1>6. node[c].next = IF i < Len(node[p].kv) THEN node[p].kv[i + 1].val
                     ELSE IF node[p].next = 0 THEN 0 ELSE node[node[p].next].kv[1].val
  BY DEF Ordered, ChildrenLinked
<1> QED
  BY <1>1, <1>2, <1>3, <1>4, <1>5, <1>6

\* The block after another on its level, seen from either of them.
LEMMA NextFacts ==
  ASSUME Inv, Ordered, NEW b \in DOMAIN node, node[b].next # 0, NEW c, c = node[b].next
  PROVE  /\ c \in DOMAIN node /\ node[c].last = b /\ node[c].level = node[b].level
         /\ c # b /\ node[c].leaf = node[b].leaf
         /\ node[b].kv # << >> /\ node[c].kv # << >>
         /\ MaxKey(node[b].kv) < node[c].kv[1].key
<1>1. /\ c \in DOMAIN node /\ node[c].last = b /\ node[c].level = node[b].level /\ c # b
  BY DEF Inv, SiblingsLinked
<1>2. node[c].leaf = node[b].leaf
  <2>1. node[c].leaf \in BOOLEAN /\ node[b].leaf \in BOOLEAN
    BY <1>1, BlockFacts DEF Inv
  <2>2. (node[c].leaf <=> node[c].level = 0) /\ (node[b].leaf <=> node[b].level = 0)
    BY <1>1 DEF Inv, Balanced
  <2> QED
    BY <1>1, <2>1, <2>2
<1>3. b # 0
  BY BlockFacts DEF Inv
<1>4. node[b].kv # << >> /\ node[c].kv # << >>
  BY <1>1, <1>3, KeyFacts
<1>5. MaxKey(node[b].kv) < node[c].kv[1].key
  BY DEF Ordered, KeysSorted
<1> QED
  BY <1>1, <1>2, <1>4, <1>5

\* ... and the block before it.
LEMMA LastFacts ==
  ASSUME Inv, Ordered, NEW b \in DOMAIN node, node[b].last # 0, NEW c, c = node[b].last
  PROVE  c \in DOMAIN node /\ node[c].next = b /\ node[c].next # 0 /\ node[c].level = node[b].level
<1>1. c \in DOMAIN node /\ node[c].next = b
  BY DEF Inv, SiblingsLinked
<1>2. b # 0
  BY BlockFacts DEF Inv
<1> QED
  BY <1>1, <1>2, NextFacts

\* The separators of a parent are exact where no put() is about to raise one,
\* which is at its last item only.
LEMMA SeparatorFacts ==
  ASSUME Inv, Ordered, NEW p \in DOMAIN node, ~ node[p].leaf,
         NEW i \in 1 .. Len(node[p].kv), NEW c, c = node[p].kv[i].val
  PROVE  \/ i = Len(node[p].kv) /\ node[p].next = 0 /\ StaleSeparator(p, i)
         \/ node[p].kv[i].key = MaxKey(node[c].kv)
<1>1. CASE StaleSeparator(p, i)
  <2>1. stack # << >> /\ pc = "up" /\ Parent.max /\ p = Parent.blk /\ i = Parent.idx
    BY <1>1 DEF StaleSeparator
  <2>2. Len(stack) \in 1 .. Len(stack) /\ Parent = stack[Len(stack)]
    BY <2>1, PathFacts DEF Parent, Last
  <2> QED
    BY <1>1, <2>1, <2>2 DEF Ordered, PutInRange
<1>2. CASE ~ StaleSeparator(p, i)
  BY <1>2 DEF Ordered, SeparatorsExact
<1> QED
  BY <1>1, <1>2

\* A block that covers a key is where the search in its parent leads, and the
\* parent covers the key as well.
LEMMA ParentCovers ==
  ASSUME Inv, Ordered, NEW k \in Key, NEW p \in DOMAIN node, ~ node[p].leaf,
         NEW i \in 1 .. Len(node[p].kv), NEW c, c = node[p].kv[i].val, Covers(c, k)
  PROVE  Covers(p, k) /\ ChildIndex(node[p], k) = i
<1> DEFINE kv == node[p].kv
           n == Len(kv)
<1>1. /\ c \in DOMAIN node /\ c # 0 /\ node[c].kv # << >>
      /\ node[c].next = IF i < n THEN kv[i + 1].val
                        ELSE IF node[p].next = 0 THEN 0 ELSE node[node[p].next].kv[1].val
  BY SonFacts
<1>2. /\ n \in Nat /\ i \in 1 .. n /\ kv \in Seq(Item) /\ k \in Int /\ n >= 1 /\ MaxKey(kv) = kv[n].key
      /\ \A j \in 1 .. n : kv[j].key \in Int
      /\ \A j1, j2 \in 1 .. n : j1 < j2 => kv[j1].key < kv[j2].key
      /\ MaxKey(node[c].kv) \in Int
  BY <1>1, KeyFacts, BlockFacts, KeyAssumption DEF Ordered, KeysSorted, Inv
<1>3. ASSUME i > 1 PROVE kv[i - 1].key < k
  <2> DEFINE d == kv[i - 1].val
  <2>1. i - 1 \in 1 .. n /\ i - 1 < n /\ i - 1 + 1 = i
    BY <1>3, <1>2
  <2>2. d \in DOMAIN node /\ d # 0 /\ node[d].next = c
    BY <2>1, SonFacts
  <2>3. node[c].last = d
    BY <1>1, <2>2, NextFacts
  <2>4. MaxKey(node[d].kv) < k
    BY <2>2, <2>3 DEF Covers
  <2>5. kv[i - 1].key = MaxKey(node[d].kv)
    BY <2>1, SeparatorFacts
  <2> QED
    BY <2>4, <2>5
<1>4. k <= kv[i].key \/ (i = n /\ node[p].next = 0)
  <2>1. CASE node[c].next = 0
    <3>1. i = n
      <4>1. ASSUME i < n PROVE FALSE
        <5>1. i + 1 \in 1 .. n
          BY <4>1, <1>2
        <5>2. kv[i + 1].val # 0
          BY <5>1, SonFacts
        <5> QED
          BY <2>1, <4>1, <5>2, <1>1
      <4> QED
        BY <4>1, <1>2
    <3>2. node[p].next = 0
      <4>1. ASSUME node[p].next # 0 PROVE FALSE
        <5> DEFINE q == node[p].next
        <5>1. q \in DOMAIN node /\ ~ node[q].leaf /\ node[q].kv # << >>
          BY <4>1, NextFacts
        <5>2. 1 \in 1 .. Len(node[q].kv)
          BY <5>1, KeyFacts
        <5>3. node[q].kv[1].val # 0
          BY <5>1, <5>2, SonFacts
        <5> QED
          BY <2>1, <3>1, <4>1, <5>3, <1>1
      <4> QED
        BY <4>1
    <3> QED
      BY <3>1, <3>2
  <2>2. CASE node[c].next # 0
    BY <2>2, SeparatorFacts DEF Covers
  <2> QED
    BY <2>1, <2>2
<1>5. ChildIndex(node[p], k) = i
  <2> DEFINE l == Lub(kv, k)
  <2>1. /\ l \in 1 .. n + 1 /\ (l = n + 1 \/ kv[l].key >= k)
        /\ \A j \in 1 .. l - 1 : kv[j].key < k
    BY <1>2, LubProperties
  <2>2. ChildIndex(node[p], k) = IF l = n + 1 THEN n ELSE l
    BY DEF ChildIndex
  <2> HIDE DEF l, kv, n
  <2>3. l >= i
    <3>1. ASSUME l < i PROVE FALSE
      <4>1. i > 1 /\ l \in 1 .. n /\ i - 1 \in 1 .. n /\ (l = i - 1 \/ l < i - 1)
        BY <3>1, <2>1, <1>2
      <4>2. kv[l].key < k
        BY <4>1, <1>2, <1>3
      <4> QED
        BY <4>1, <4>2, <2>1, <1>2
    <3> QED
      BY <3>1, <2>1, <1>2
  <2>4. CASE k <= kv[i].key
    <3>1. ~ (i < l)
      BY <2>4, <2>1, <1>2
    <3> QED
      BY <3>1, <2>1, <2>2, <2>3, <1>2
  <2>5. CASE i = n
    BY <2>1, <2>2, <2>3, <2>5, <1>2
  <2> QED
    BY <1>4, <2>4, <2>5
<1>6. ASSUME node[p].next # 0 PROVE k <= MaxKey(kv)
  <2>1. k <= kv[i].key
    BY <1>4, <1>6
  <2>2. i = n \/ kv[i].key < kv[n].key
    BY <1>2
  <2> QED
    BY <2>1, <2>2, <1>2
<1>7. ASSUME node[p].last # 0 PROVE MaxKey(node[node[p].last].kv) < k
  <2> DEFINE q == node[p].last
             m == Len(node[q].kv)
             d == node[q].kv[m].val
  <2>1. q \in DOMAIN node /\ node[q].next = p /\ node[q].next # 0
    BY <1>7, LastFacts
  <2>2. /\ ~ node[q].leaf /\ node[q].kv # << >> /\ MaxKey(node[q].kv) < kv[1].key
    BY <2>1, NextFacts
  <2>3. m \in 1 .. m /\ MaxKey(node[q].kv) = node[q].kv[m].key /\ MaxKey(node[q].kv) \in Int
    BY <2>1, <2>2, KeyFacts
  <2>4. CASE i > 1
    <3>1. kv[1].key <= kv[i - 1].key
      BY <2>4, <1>2
    <3>2. kv[1].key \in Int /\ kv[i - 1].key \in Int
      BY <2>4, <1>2
    <3>3. kv[i - 1].key < k
      BY <2>4, <1>3
    <3> HIDE DEF kv, q, m
    <3> QED
      BY <2>2, <2>3, <3>1, <3>2, <3>3, <1>2 DEF q
  <2>5. CASE i = 1
    <3>1. d \in DOMAIN node /\ d # 0 /\ node[d].next = c
      BY <2>1, <2>2, <2>3, <2>5, SonFacts, SMTT(20)
    <3>2. node[c].last = d
      BY <3>1, <1>1, NextFacts
    <3>3. MaxKey(node[d].kv) < k
      BY <3>1, <3>2 DEF Covers
    <3>4. node[q].kv[m].key = MaxKey(node[d].kv)
      BY <2>1, <2>2, <2>3, SeparatorFacts
    <3> QED
      BY <2>3, <3>3, <3>4
  <2> QED
    BY <1>2, <2>4, <2>5
<1> QED
  BY <1>5, <1>6, <1>7 DEF Covers

\* The walk of getLeaf() from every block of a set, as GetLeaf defines it.
Child(b, k) == node[b].kv[ChildIndex(node[b], k)].val
IsWalk(f, S, k) == f = [b \in S |-> IF node[b].leaf THEN b ELSE f[Child(b, k)]]

Below(n) == {b \in DOMAIN node : node[b].level <= n}

\* The recursion of GetLeaf is well founded: a child is a level below its
\* parent, so the walk from one level extends to the walk from the next.
LEMMA WalkExists ==
  ASSUME Inv, NEW k \in Key, NEW n \in Nat
  PROVE  \E f : IsWalk(f, Below(n), k)
<1> DEFINE T == {m \in Nat : ~ \E f : IsWalk(f, Below(m), k)}
<1>1. ASSUME NEW x \in T, \A y \in T : x <= y
      PROVE  FALSE
  <2>1. x \in Nat /\ ~ \E f : IsWalk(f, Below(x), k)
    OBVIOUS
  <2>2. CASE x = 0
    <3> DEFINE f == [b \in Below(0) |-> b]
    <3>1. \A b \in Below(0) : node[b].leaf
      <4>1. \A b \in Below(0) : b \in DOMAIN node /\ node[b].level \in Nat /\ node[b].level <= 0
        BY BlockFacts DEF Below, Inv
      <4> QED
        BY <4>1 DEF Inv, Balanced
    <3>2. IsWalk(f, Below(0), k)
      BY <3>1 DEF IsWalk
    <3> QED
      BY <2>1, <2>2, <3>2
  <2>3. CASE x # 0
    <3>1. x - 1 \in Nat /\ x - 1 \notin T
      BY <1>1, <2>1, <2>3
    <3>2. PICK f : IsWalk(f, Below(x - 1), k)
      BY <3>1
    <3> DEFINE g == [b \in Below(x) |-> IF node[b].leaf THEN b ELSE f[Child(b, k)]]
    <3>3. ASSUME NEW b \in Below(x), ~ node[b].leaf
          PROVE  g[Child(b, k)] = f[Child(b, k)]
      <4> DEFINE c == Child(b, k)
      <4>1. /\ b \in DOMAIN node /\ node[b].level <= x /\ node[b].level \in Nat
            /\ c \in DOMAIN node /\ node[c].level + 1 = node[b].level /\ node[c].level \in Nat
        BY <3>3, ChildFacts, BlockFacts DEF Below, Inv, Child
      <4> HIDE DEF c
      <4>2. c \in Below(x) /\ c \in Below(x - 1)
        BY <2>1, <4>1 DEF Below
      <4>3. f[c] = IF node[c].leaf THEN c ELSE f[Child(c, k)]
        BY <3>2, <4>2 DEF IsWalk
      <4>4. g[c] = f[c]
        BY <4>2, <4>3
      <4> QED
        BY <4>4 DEF c
    <3>4. IsWalk(g, Below(x), k)
      BY <3>3 DEF IsWalk
    <3> QED
      BY <2>1, <3>4
  <2> QED
    BY <2>2, <2>3
<1>2. T = {}
  <2>1. T \subseteq Nat
    OBVIOUS
  <2> HIDE DEF T
  <2>2. ASSUME T # {} PROVE FALSE
    BY <1>1, <2>1, <2>2, LeastElement
  <2> QED
    BY <2>2
<1> QED
  BY <1>2

\* The walk over the whole tree: what GetLeaf unfolds to.
LEMMA WalkFacts ==
  ASSUME Inv, Ordered, NEW k \in Key
  PROVE  \E f : /\ GetLeaf(k) = f[root]
                /\ \A b \in DOMAIN node : f[b] = IF node[b].leaf THEN b ELSE f[Child(b, k)]
<1>1. DOMAIN node = Below(node[root].level) /\ node[root].level \in Nat
  BY BlockFacts DEF Below, Ordered, OneParent, Inv, TypeOK
<1>2. \E f : IsWalk(f, DOMAIN node, k)
  BY <1>1, WalkExists
<1> DEFINE f == CHOOSE g : IsWalk(g, DOMAIN node, k)
<1>3. IsWalk(f, DOMAIN node, k)
  BY <1>2, Zenon
<1>4. GetLeaf(k) = f[root]
  BY DEF GetLeaf, IsWalk, Child
<1> HIDE DEF f
<1> QED
  BY <1>3, <1>4 DEF IsWalk

\* getLeaf() ends in a leaf.
LEMMA LeafReached ==
  ASSUME Inv, Ordered, NEW k \in Key
  PROVE  GetLeaf(k) \in Leaves
<1>1. PICK f : /\ GetLeaf(k) = f[root]
               /\ \A b \in DOMAIN node : f[b] = IF node[b].leaf THEN b ELSE f[Child(b, k)]
  BY WalkFacts
<1> DEFINE T == {m \in Nat : \E b \in DOMAIN node : node[b].level = m /\ f[b] \notin Leaves}
<1>2. ASSUME NEW x \in T, \A y \in T : x <= y
      PROVE  FALSE
  <2>1. PICK b \in DOMAIN node : node[b].level = x /\ f[b] \notin Leaves
    OBVIOUS
  <2>2. CASE node[b].leaf
    BY <2>1, <2>2, <1>1 DEF Leaves
  <2>3. CASE ~ node[b].leaf
    <3> DEFINE c == Child(b, k)
    <3>1. c \in DOMAIN node /\ node[c].level + 1 = x /\ node[c].level \in Nat
      BY <2>1, <2>3, ChildFacts, BlockFacts DEF Inv, Child
    <3>2. f[c] \notin Leaves
      BY <2>1, <2>3, <1>1
    <3> HIDE DEF c
    <3>3. node[c].level \in T
      BY <3>1, <3>2
    <3> QED
      BY <3>1, <3>3, <1>2
  <2> QED
    BY <2>2, <2>3
<1>3. T = {}
  <2>1. T \subseteq Nat
    OBVIOUS
  <2> HIDE DEF T
  <2>2. ASSUME T # {} PROVE FALSE
    BY <1>2, <2>1, <2>2, LeastElement
  <2> QED
    BY <2>2
<1>4. root \in DOMAIN node /\ node[root].level \in Nat
  BY BlockFacts DEF Inv, TypeOK
<1> QED
  BY <1>1, <1>3, <1>4

\* getLeaf() ends in the leaf that covers the key: from every block that
\* covers it upwards, the walk from the root passes through the parent.
LEMMA CoverReached ==
  ASSUME Inv, Ordered, NEW k \in Key, NEW b \in Leaves, Covers(b, k)
  PROVE  GetLeaf(k) = b
<1>1. PICK f : /\ GetLeaf(k) = f[root]
               /\ \A c \in DOMAIN node : f[c] = IF node[c].leaf THEN c ELSE f[Child(c, k)]
  BY WalkFacts
<1> DEFINE top == node[root].level
           T == {m \in Nat : \E c \in DOMAIN node : /\ node[c].level + m = top
                                                    /\ Covers(c, k) /\ f[c] # f[root]}
<1>2. top \in Nat /\ root \in DOMAIN node
  BY BlockFacts DEF Inv, TypeOK
<1>3. ASSUME NEW x \in T, \A y \in T : x <= y
      PROVE  FALSE
  <2>1. PICK c \in DOMAIN node : node[c].level + x = top /\ Covers(c, k) /\ f[c] # f[root]
    OBVIOUS
  <2>2. c # root /\ node[c].level \in Nat
    BY <2>1, BlockFacts DEF Inv
  <2>3. PICK p \in DOMAIN node : ~ node[p].leaf /\ \E i \in 1 .. Len(node[p].kv) : node[p].kv[i].val = c
    BY <2>2 DEF Ordered, OneParent
  <2>4. PICK i \in 1 .. Len(node[p].kv) : node[p].kv[i].val = c
    BY <2>3
  <2>5. Covers(p, k) /\ ChildIndex(node[p], k) = i
    BY <2>1, <2>3, <2>4, ParentCovers
  <2>6. f[p] = f[c]
    BY <2>3, <2>4, <2>5, <1>1 DEF Child
  <2>7. node[p].level = node[c].level + 1 /\ node[p].level \in Nat /\ node[p].level <= top
    <3>1. node[p].level = node[c].level + 1
      BY <2>3, <2>4, SonFacts
    <3>2. node[p].level \in Nat
      BY <2>3, BlockFacts DEF Inv
    <3>3. node[p].level <= top
      BY <2>3 DEF Ordered, OneParent
    <3> QED
      BY <3>1, <3>2, <3>3
  <2> HIDE DEF top
  <2>8. x - 1 \in Nat /\ node[p].level + (x - 1) = top
    BY <2>1, <2>2, <2>7, <1>2
  <2>9. x - 1 \in T
    BY <2>1, <2>5, <2>6, <2>8
  <2> QED
    BY <2>8, <2>9, <1>3
<1>4. T = {}
  <2>1. T \subseteq Nat
    OBVIOUS
  <2> HIDE DEF T
  <2>2. ASSUME T # {} PROVE FALSE
    BY <1>3, <2>1, <2>2, LeastElement
  <2> QED
    BY <2>2
<1>5. b \in DOMAIN node /\ node[b].leaf /\ node[b].level \in Nat /\ node[b].level <= top
  BY BlockFacts DEF Leaves, Inv, Ordered, OneParent
<1>6. top - node[b].level \in Nat /\ node[b].level + (top - node[b].level) = top
  BY <1>2, <1>5
<1>7. f[b] = f[root]
  BY <1>4, <1>5, <1>6
<1> QED
  BY <1>1, <1>5, <1>7

\* A leaf covers the keys that it holds.
LEMMA OwnKeyCovered ==
  ASSUME Inv, Ordered, NEW b \in Leaves, NEW i \in 1 .. Len(node[b].kv)
  PROVE  Covers(b, node[b].kv[i].key)
<1> DEFINE kv == node[b].kv
           n == Len(kv)
<1>1. b \in DOMAIN node
  BY DEF Leaves
<1>2. /\ n \in Nat /\ i \in 1 .. n /\ MaxKey(kv) = kv[n].key
      /\ \A j \in 1 .. n : kv[j].key \in Int
      /\ \A j1, j2 \in 1 .. n : j1 < j2 => kv[j1].key < kv[j2].key
  BY <1>1, KeyFacts DEF Ordered, KeysSorted
<1>3. ASSUME node[b].last # 0 PROVE MaxKey(node[node[b].last].kv) < kv[1].key
  BY <1>1, <1>3, LastFacts, NextFacts
<1>4. ASSUME node[b].last # 0 PROVE MaxKey(node[node[b].last].kv) \in Int
  BY <1>1, <1>4, LastFacts, NextFacts, KeyFacts
<1> HIDE DEF kv, n
<1>5. kv[1].key <= kv[i].key /\ kv[i].key <= kv[n].key /\ kv[1].key \in Int
  BY <1>2
<1> QED
  BY <1>2, <1>3, <1>4, <1>5, SMTT(20) DEF Covers, kv

LEMMA KeysReached == Inv /\ Ordered => EveryKeyReachable
<1> SUFFICES ASSUME Inv, Ordered, NEW b \in Leaves, NEW i \in 1 .. Len(node[b].kv)
             PROVE  GetLeaf(node[b].kv[i].key) = b /\ Lub(node[b].kv, node[b].kv[i].key) = i
  BY DEF EveryKeyReachable
<1> DEFINE kv == node[b].kv
           n == Len(kv)
           k == kv[i].key
           l == Lub(kv, k)
<1>1. /\ b \in DOMAIN node /\ kv \in Seq(Item) /\ n \in Nat /\ i \in 1 .. n /\ k \in Key
      /\ \A j \in 1 .. n : kv[j].key \in Int
      /\ \A j1, j2 \in 1 .. n : j1 < j2 => kv[j1].key < kv[j2].key
  BY BlockFacts, KeyFacts DEF Ordered, KeysSorted, Leaves, Inv, Item
<1>2. GetLeaf(k) = b
  BY <1>1, OwnKeyCovered, CoverReached
<1>3. /\ l \in 1 .. n + 1 /\ (l = n + 1 \/ kv[l].key >= k)
      /\ \A j \in 1 .. l - 1 : kv[j].key < k
  BY <1>1, LubProperties
<1> HIDE DEF kv, n, l
<1>4. ~ (l < i)
  BY <1>1, <1>3 DEF k
<1>5. ~ (i < l)
  BY <1>1, <1>3 DEF k
<1> QED
  BY <1>1, <1>2, <1>3, <1>4, <1>5 DEF kv, l

(***************************************************************************)
(* Every action keeps the keys in order                                    *)
(***************************************************************************)

LEMMA InitOrdered == Init => Ordered
<1> SUFFICES ASSUME Init PROVE Ordered
  OBVIOUS
<1>1. /\ DOMAIN node = {1} /\ root = 1 /\ pc = "idle"
      /\ node[1].leaf /\ node[1].kv = << >> /\ node[1].next = 0 /\ node[1].level = 0
  BY DEF Init
<1>2. KeysSorted
  <2>1. Len(node[1].kv) = 0
    BY <1>1
  <2> QED
    BY <1>1, <2>1 DEF KeysSorted
<1>3. SeparatorsExact /\ ChildrenLinked
  BY <1>1 DEF SeparatorsExact, ChildrenLinked
<1>4. OneParent /\ PutInRange
  BY <1>1 DEF OneParent, PutInRange
<1> QED
  BY <1>2, <1>3, <1>4 DEF Ordered

\* A step that keeps the shape of the tree and every key, taken when no
\* separator is behind, keeps the order.
LEMMA OrderKept ==
  ASSUME Inv, Ordered, ~ (pc = "up" /\ stack # << >>),
         root' = root, DOMAIN node' = DOMAIN node,
         \A b \in DOMAIN node :
           /\ node'[b].leaf = node[b].leaf /\ node'[b].level = node[b].level
           /\ node'[b].next = node[b].next
           /\ Len(node'[b].kv) = Len(node[b].kv)
           /\ \A i \in 1 .. Len(node[b].kv) :
                /\ node'[b].kv[i].key = node[b].kv[i].key
                /\ ~ node[b].leaf => node'[b].kv[i].val = node[b].kv[i].val
  PROVE  KeysSorted' /\ SeparatorsExact' /\ ChildrenLinked' /\ OneParent'
<1>1. ASSUME NEW b \in DOMAIN node, node[b].kv # << >>
      PROVE  MaxKey(node'[b].kv) = MaxKey(node[b].kv) /\ 1 \in 1 .. Len(node[b].kv)
  <2>1. Len(node[b].kv) \in 1 .. Len(node[b].kv) /\ 1 \in 1 .. Len(node[b].kv)
    BY <1>1, KeyFacts
  <2> QED
    BY <2>1 DEF MaxKey, Last
<1>2. KeysSorted'
  <2>1. ASSUME NEW b \in DOMAIN node, node[b].next # 0
        PROVE  MaxKey(node'[b].kv) < node'[node[b].next].kv[1].key
    <3> DEFINE c == node[b].next
    <3>1. /\ c \in DOMAIN node /\ node[b].kv # << >> /\ node[c].kv # << >>
          /\ MaxKey(node[b].kv) < node[c].kv[1].key
      BY <2>1, NextFacts
    <3>2. MaxKey(node'[b].kv) = MaxKey(node[b].kv) /\ node'[c].kv[1].key = node[c].kv[1].key
      BY <3>1, <1>1
    <3> QED
      BY <3>1, <3>2
  <2> QED
    BY <2>1 DEF Ordered, KeysSorted
<1>3. SeparatorsExact'
  <2>1. ASSUME NEW b \in DOMAIN node, ~ node[b].leaf, NEW i \in 1 .. Len(node[b].kv)
        PROVE  node'[b].kv[i].key = MaxKey(node'[node'[b].kv[i].val].kv)
    <3> DEFINE c == node[b].kv[i].val
    <3>1. c \in DOMAIN node /\ node[c].kv # << >>
      BY <2>1, SonFacts
    <3>2. node[b].kv[i].key = MaxKey(node[c].kv)
      BY <2>1 DEF Ordered, SeparatorsExact, StaleSeparator
    <3> QED
      BY <2>1, <3>1, <3>2, <1>1
  <2> QED
    BY <2>1 DEF SeparatorsExact
<1>4. ChildrenLinked'
  <2>1. ASSUME NEW b \in DOMAIN node, ~ node[b].leaf, NEW i \in 1 .. Len(node[b].kv)
        PROVE  node'[node'[b].kv[i].val].next =
                 IF i < Len(node'[b].kv) THEN node'[b].kv[i + 1].val
                 ELSE IF node'[b].next = 0 THEN 0 ELSE node'[node'[b].next].kv[1].val
    <3> DEFINE c == node[b].kv[i].val
    <3>1. /\ c \in DOMAIN node
          /\ node[c].next = IF i < Len(node[b].kv) THEN node[b].kv[i + 1].val
                            ELSE IF node[b].next = 0 THEN 0 ELSE node[node[b].next].kv[1].val
      BY <2>1, SonFacts
    <3>2. node'[b].kv[i].val = c /\ node'[c].next = node[c].next
      BY <2>1, <3>1
    <3>3. CASE i < Len(node[b].kv)
      <4>1. i + 1 \in 1 .. Len(node[b].kv)
        BY <3>3, KeyFacts
      <4> QED
        BY <2>1, <3>1, <3>2, <3>3, <4>1
    <3>4. CASE ~ (i < Len(node[b].kv)) /\ node[b].next = 0
      BY <2>1, <3>1, <3>2, <3>4
    <3>5. CASE ~ (i < Len(node[b].kv)) /\ node[b].next # 0
      <4> DEFINE d == node[b].next
      <4>1. d \in DOMAIN node /\ ~ node[d].leaf /\ node[d].kv # << >>
        BY <2>1, <3>5, NextFacts
      <4>2. node'[d].kv[1].val = node[d].kv[1].val
        BY <4>1, <1>1
      <4> QED
        BY <2>1, <3>1, <3>2, <3>5, <4>2
    <3> QED
      BY <3>3, <3>4, <3>5
  <2> QED
    BY <2>1 DEF ChildrenLinked
<1>5. OneParent'
  <2>1. root \in DOMAIN node
    BY DEF Inv, TypeOK
  <2>2. ASSUME NEW b \in DOMAIN node, b # root
        PROVE  \E p \in DOMAIN node : /\ ~ node'[p].leaf
                                      /\ \E i \in 1 .. Len(node'[p].kv) : node'[p].kv[i].val = b
    <3>1. PICK p \in DOMAIN node : ~ node[p].leaf /\ \E i \in 1 .. Len(node[p].kv) : node[p].kv[i].val = b
      BY <2>2 DEF Ordered, OneParent
    <3> QED
      BY <3>1
  <2>3. ASSUME NEW p \in DOMAIN node, NEW q \in DOMAIN node, ~ node[p].leaf, ~ node[q].leaf,
               NEW i \in 1 .. Len(node[p].kv), NEW j \in 1 .. Len(node[q].kv),
               node'[p].kv[i].val = node'[q].kv[j].val
        PROVE  p = q /\ i = j
    BY <2>3 DEF Ordered, OneParent
  <2>4. \A b \in DOMAIN node : node'[b].level <= node'[root].level
    BY <2>1 DEF Ordered, OneParent
  <2> QED
    BY <2>1, <2>2, <2>3, <2>4 DEF OneParent
<1> QED
  BY <1>2, <1>3, <1>4, <1>5

\* ... in particular a step that changes no block.
LEMMA TreeKept ==
  ASSUME Inv, Ordered, ~ (pc = "up" /\ stack # << >>), UNCHANGED <<node, root>>
  PROVE  KeysSorted' /\ SeparatorsExact' /\ ChildrenLinked' /\ OneParent'
<1>1. \A b \in DOMAIN node :
           /\ node'[b].leaf = node[b].leaf /\ node'[b].level = node[b].level
           /\ node'[b].next = node[b].next
           /\ Len(node'[b].kv) = Len(node[b].kv)
           /\ \A i \in 1 .. Len(node[b].kv) :
                /\ node'[b].kv[i].key = node[b].kv[i].key
                /\ ~ node[b].leaf => node'[b].kv[i].val = node[b].kv[i].val
  OBVIOUS
<1> QED
  BY <1>1, OrderKept

LEMMA PutCallOrdered ==
  ASSUME Inv, Ordered, NEW k \in Key, NEW v \in Val, PutCall(k, v)
  PROVE  Ordered'
<1>1. /\ UNCHANGED <<node, root>> /\ pc = "idle" /\ pc' = "down"
      /\ cur' = root /\ stack' = << >>
  BY DEF PutCall, meta
<1>2. PutInRange'
  <2>1. node[root].next = 0 /\ node[root].last = 0
    BY DEF Inv, SiblingsLinked
  <2> QED
    BY <1>1, <2>1 DEF PutInRange, Covers
<1> QED
  BY <1>1, <1>2, TreeKept DEF Ordered

LEMMA DescendOrdered ==
  ASSUME Inv, Ordered, Descend
  PROVE  Ordered'
<1> DEFINE n == node[cur]
           k == arg[1]
           l == Lub(n.kv, k)
           i == ChildIndex(n, k)
           c == n.kv[i].val
           f == [blk |-> cur, idx |-> i, max |-> l = Len(n.kv) + 1]
<1>1. /\ UNCHANGED <<node, root, arg>> /\ pc = "down" /\ pc' = "down" /\ ~ n.leaf
      /\ cur' = c /\ stack' = Append(stack, f)
  BY DEF Descend, meta
<1>2. /\ k \in Key /\ k \in Int /\ cur \in DOMAIN node /\ n.kv \in Seq(Item)
      /\ Len(n.kv) \in Nat /\ Len(n.kv) >= 1
      /\ MaxKey(n.kv) = n.kv[Len(n.kv)].key
      /\ \A j \in 1 .. Len(n.kv) : n.kv[j].key \in Int
      /\ \A j1, j2 \in 1 .. Len(n.kv) : j1 < j2 => n.kv[j1].key < n.kv[j2].key
  BY <1>1, ArgFacts, KeyFacts, BlockFacts, KeyAssumption DEF Ordered, KeysSorted, Inv
<1>3. /\ l \in 1 .. Len(n.kv) + 1 /\ (l = Len(n.kv) + 1 \/ n.kv[l].key >= k)
      /\ \A j \in 1 .. l - 1 : n.kv[j].key < k
  BY <1>2, LubProperties
<1>4. i = IF l = Len(n.kv) + 1 THEN Len(n.kv) ELSE l
  BY DEF ChildIndex
<1>5. l = Len(n.kv) + 1 <=> k > MaxKey(n.kv)
  <2>1. ASSUME l = Len(n.kv) + 1 PROVE n.kv[Len(n.kv)].key < k
    BY <2>1, <1>2, <1>3
  <2>2. ASSUME l # Len(n.kv) + 1 PROVE k <= n.kv[Len(n.kv)].key
    <3>1. l \in 1 .. Len(n.kv) /\ n.kv[l].key >= k
      BY <2>2, <1>2, <1>3
    <3>2. l = Len(n.kv) \/ n.kv[l].key < n.kv[Len(n.kv)].key
      BY <3>1, <1>2
    <3> HIDE DEF l, n, k
    <3> QED
      BY <3>1, <3>2, <1>2
  <2> HIDE DEF l, n, k
  <2> QED
    BY <2>1, <2>2, <1>2
<1> HIDE DEF l
<1>6. i \in 1 .. Len(n.kv)
  BY <1>2, <1>3, <1>4
<1> HIDE DEF i
<1>7. c \in DOMAIN node /\ c # 0 /\ node[c].kv # << >> /\ MaxKey(node[c].kv) \in Int
  BY <1>1, <1>2, <1>6, SonFacts, KeyFacts, SMTT(30)
<1>8. n.kv[i].key = MaxKey(node[c].kv)
  BY <1>1, <1>2, <1>6, SeparatorFacts DEF StaleSeparator
<1>9. Covers(cur, k)
  BY <1>1 DEF Ordered, PutInRange
<1>10. k > MaxKey(node[c].kv) <=> k > MaxKey(n.kv)
  <2>1. CASE l = Len(n.kv) + 1
    BY <2>1, <1>2, <1>4, <1>5, <1>8
  <2>2. CASE l # Len(n.kv) + 1
    BY <2>2, <1>2, <1>3, <1>4, <1>5, <1>6, <1>8
  <2> QED
    BY <2>1, <2>2
<1>11. Covers(c, k)
  <2>1. ASSUME node[c].last # 0 PROVE MaxKey(node[node[c].last].kv) < k
    <3> DEFINE d == node[c].last
    <3>1. d \in DOMAIN node /\ node[d].next = c
      BY <2>1, <1>7, LastFacts
    <3>2. CASE i > 1
      <4> DEFINE e == n.kv[i - 1].val
      <4>1. i - 1 \in 1 .. Len(n.kv) /\ i - 1 < Len(n.kv) /\ i - 1 + 1 = i
        BY <3>2, <1>2, <1>6
      <4>2. e \in DOMAIN node /\ node[e].next = c
        <5>1. node[e].next = n.kv[i - 1 + 1].val /\ e \in DOMAIN node
          BY <4>1, <1>1, <1>2 DEF Ordered, ChildrenLinked, Inv, Balanced
        <5> QED
          BY <4>1, <5>1
      <4>3. e = d
        BY <4>2, <1>7, NextFacts
      <4>4. n.kv[i - 1].key = MaxKey(node[e].kv)
        BY <4>1, <1>1, <1>2, SeparatorFacts DEF StaleSeparator
      <4>5. n.kv[i - 1].key < k
        <5>1. i <= l /\ i - 1 \in 1 .. l - 1
          BY <4>1, <1>3, <1>4
        <5> QED
          BY ONLY <5>1, <1>3
      <4> QED
        BY <4>3, <4>4, <4>5
    <3>3. CASE i = 1
      <4>1. ASSUME n.last = 0 PROVE FALSE
        <5>1. d # root /\ node[d].level = node[c].level
          <6>1. d # root
            BY <3>1, <1>7 DEF Inv, SiblingsLinked
          <6> QED
            BY <6>1, <2>1, <1>7, LastFacts
        <5>2. PICK p \in DOMAIN node : ~ node[p].leaf /\ \E j \in 1 .. Len(node[p].kv) : node[p].kv[j].val = d
          BY <3>1, <5>1 DEF Ordered, OneParent
        <5>3. PICK j \in 1 .. Len(node[p].kv) : node[p].kv[j].val = d
          BY <5>2
        <5>4. c = IF j < Len(node[p].kv) THEN node[p].kv[j + 1].val
                  ELSE IF node[p].next = 0 THEN 0 ELSE node[node[p].next].kv[1].val
          BY <3>1, <5>2, <5>3, SonFacts
        <5>5. CASE j < Len(node[p].kv)
          <6>1. j + 1 \in 1 .. Len(node[p].kv) /\ j + 1 # 1
            BY <5>5, KeyFacts
          <6>2. node[p].kv[j + 1].val = c /\ n.kv[1].val = c /\ 1 \in 1 .. Len(n.kv) /\ ~ n.leaf
            BY <5>4, <5>5, <3>3, <1>1, <1>6
          <6> QED
            BY <6>1, <6>2, <5>2, <1>2, OneSlot
        <5>6. CASE ~ (j < Len(node[p].kv))
          <6> DEFINE q == node[p].next
          <6>1. q # 0 /\ c = node[q].kv[1].val
            BY <5>4, <5>6, <1>7
          <6>2. q \in DOMAIN node /\ node[q].last = p /\ ~ node[q].leaf /\ node[q].kv # << >>
            BY <6>1, <5>2, NextFacts
          <6>3. 1 \in 1 .. Len(node[q].kv)
            BY <6>2, KeyFacts
          <6>4. q = cur
            <7>1. n.kv[1].val = c /\ 1 \in 1 .. Len(n.kv) /\ ~ n.leaf
              BY <3>3, <1>1, <1>6
            <7> QED
              BY <6>1, <6>2, <6>3, <7>1, <1>2, OneSlot
          <6> QED
            BY <4>1, <6>2, <6>4, <5>2, BlockFacts DEF Inv
        <5> QED
          BY <5>5, <5>6
      <4>2. ASSUME n.last # 0 PROVE MaxKey(node[d].kv) < k
        <5> DEFINE q == n.last
                   m == Len(node[q].kv)
                   e == node[q].kv[m].val
        <5>1. q \in DOMAIN node /\ node[q].next = cur /\ node[q].next # 0
          BY <4>2, <1>2, LastFacts
        <5>2. ~ node[q].leaf /\ node[q].kv # << >>
          BY <5>1, <1>1, NextFacts
        <5>3. m \in 1 .. m /\ MaxKey(node[q].kv) = node[q].kv[m].key
          BY <5>1, <5>2, KeyFacts
        <5>4. e \in DOMAIN node /\ node[e].next = c
          BY <5>1, <5>2, <5>3, <3>3, SonFacts, SMTT(20)
        <5>5. e = d
          BY <5>4, <1>7, NextFacts
        <5>6. node[q].kv[m].key = MaxKey(node[e].kv)
          BY <5>1, <5>2, <5>3, <1>1, SeparatorFacts DEF StaleSeparator
        <5>7. MaxKey(node[q].kv) < k
          BY <4>2, <1>9 DEF Covers
        <5> QED
          BY <5>3, <5>5, <5>6, <5>7
      <4> QED
        BY <4>1, <4>2
    <3> QED
      BY <3>2, <3>3, <1>6, SMTT(30)
  <2>2. ASSUME node[c].next # 0 PROVE k <= MaxKey(node[c].kv)
    <3>1. CASE n.next # 0
      <4>1. k <= MaxKey(n.kv) /\ MaxKey(n.kv) \in Int
        BY <3>1, <1>2, <1>9 DEF Covers
      <4> QED
        BY <4>1, <1>2, <1>7, <1>10
    <3>2. CASE n.next = 0
      <4>1. i < Len(n.kv)
        BY <2>2, <3>2, <1>1, <1>2, <1>6, SonFacts
      <4>2. l # Len(n.kv) + 1 /\ l = i
        BY <4>1, <1>2, <1>4, <1>6
      <4> QED
        BY <4>2, <1>2, <1>3, <1>6, <1>8
    <3> QED
      BY <3>1, <3>2
  <2> QED
    BY <2>1, <2>2 DEF Covers
<1>12. PutInRange'
  <2>1. /\ stack \in Seq(Frame) /\ Len(stack) \in Nat
        /\ stack' # << >> /\ Len(stack') = Len(stack) + 1
        /\ \A j \in 1 .. Len(stack) : stack'[j] = stack[j]
        /\ stack'[Len(stack) + 1] = f
    <3>1. f \in Frame
      <4>1. cur \in Nat /\ i \in Nat
        BY <1>2, <1>6, BlockFacts DEF Inv
      <4> QED
        BY <4>1 DEF Frame
    <3> HIDE DEF f
    <3> QED
      BY <1>1, <3>1, AppendProperties, LenProperties DEF Inv, TypeOK
  <2>2. Parent' = f
    BY <2>1 DEF Parent, Last
  <2>3. f.max <=> k > MaxKey(n.kv)
    BY <1>5
  <2>4. ASSUME NEW j \in 1 .. Len(stack')
        PROVE  /\ stack'[j].max = f.max
               /\ stack'[j].max => /\ stack'[j].idx = Len(node[stack'[j].blk].kv)
                                   /\ node[stack'[j].blk].next = 0
    <3>1. CASE j = Len(stack) + 1
      <4>1. stack'[j] = f /\ f.blk = cur /\ f.idx = i
        BY <3>1, <2>1
      <4>2. ASSUME f.max PROVE i = Len(n.kv) /\ n.next = 0
        <5>1. k > MaxKey(n.kv) /\ MaxKey(n.kv) \in Int
          BY <4>2, <2>3, <1>2
        <5>2. i = Len(n.kv)
          BY <5>1, <1>4, <1>5
        <5>3. ~ (k <= MaxKey(n.kv))
          BY <5>1, <1>2
        <5> QED
          BY <5>2, <5>3, <1>9 DEF Covers
      <4> HIDE DEF f
      <4> QED
        BY <4>1, <4>2
    <3>2. CASE j \in 1 .. Len(stack)
      <4>1. stack # << >>
        BY <3>2
      <4>2. Len(stack) \in 1 .. Len(stack) /\ Parent = stack[Len(stack)]
        BY <3>2, <2>1 DEF Parent, Last
      <4>3. Parent.max <=> k > MaxKey(n.kv)
        BY <4>1, <1>1 DEF Ordered, PutInRange
      <4>4. /\ stack[j].max = Parent.max
            /\ stack[j].max => /\ stack[j].idx = Len(node[stack[j].blk].kv)
                               /\ node[stack[j].blk].next = 0
        BY <3>2, <1>1 DEF Ordered, PutInRange
      <4>5. stack[j].max \in BOOLEAN /\ f.max \in BOOLEAN
        <5>1. stack[j] \in Frame
          BY <3>2, <2>1, ElementOfSeq
        <5>2. stack[j].max \in BOOLEAN
          BY <5>1 DEF Frame
        <5> QED
          BY <5>2
      <4> HIDE DEF f
      <4> QED
        BY <3>2, <4>3, <4>4, <4>5, <2>1, <2>3
    <3> QED
      BY <2>1, <3>1, <3>2
  <2>5. Covers(c, k) /\ (f.max <=> k > MaxKey(node[c].kv))
    BY <2>3, <1>10, <1>11
  <2> HIDE DEF f, c, k
  <2>6. \A j \in 1 .. Len(stack') :
          /\ stack'[j].max = Parent'.max
          /\ stack'[j].max => /\ stack'[j].idx = Len(node'[stack'[j].blk].kv)
                              /\ node'[stack'[j].blk].next = 0
    BY <2>2, <2>4, <1>1
  <2>7. arg' = arg /\ k = arg'[1]
    BY <1>1 DEF k
  <2> QED
    BY <1>1, <2>2, <2>5, <2>6, <2>7 DEF PutInRange, Covers
<1>13. KeysSorted' /\ SeparatorsExact' /\ ChildrenLinked' /\ OneParent'
  BY <1>1, TreeKept
<1> QED
  BY <1>12, <1>13 DEF Ordered

\* A put() that ends without a change of the blocks.
LEMMA ReturnOrdered ==
  ASSUME Inv, Ordered, ~ (pc = "up" /\ stack # << >>), UNCHANGED <<node, root>>, pc' = "idle"
  PROVE  Ordered'
<1>1. PutInRange'
  BY DEF PutInRange
<1> QED
  BY <1>1, TreeKept DEF Ordered

\* The way up begins: the frames are those of the way down, and the interior
\* blocks have not changed.
LEMMA FramesKept ==
  ASSUME Inv, Ordered, pc = "down", pc' = "up", UNCHANGED <<stack, root>>,
         \A b \in DOMAIN node : ~ node[b].leaf =>
           Len(node'[b].kv) = Len(node[b].kv) /\ node'[b].next = node[b].next
  PROVE  PutInRange'
<1>1. ASSUME NEW j \in 1 .. Len(stack)
      PROVE  /\ stack[j].max = Parent.max
             /\ stack[j].max => /\ stack[j].idx = Len(node'[stack[j].blk].kv)
                                /\ node'[stack[j].blk].next = 0
  <2>1. OnPath(j)
    BY DEF Inv, FramesFormPath
  <2>2. stack[j].blk \in DOMAIN node /\ ~ node[stack[j].blk].leaf
    BY <2>1 DEF OnPath
  <2> QED
    BY <2>2 DEF Ordered, PutInRange
<1>2. Parent' = Parent
  BY DEF Parent, Last
<1> QED
  BY <1>1, <1>2 DEF PutInRange

LEMMA LeafReviveOrdered ==
  ASSUME Inv, Ordered, LeafRevive
  PROVE  Ordered'
<1> DEFINE n == node[cur]
           i == LeafIndex
           it == [n.kv[i] EXCEPT !.val = arg[2], !.flag = 1]
           kv == [n.kv EXCEPT ![i] = it]
<1>1. /\ pc = "down" /\ pc' = "up" /\ UNCHANGED <<stack, root>>
      /\ cur \in DOMAIN node /\ n.leaf
  BY ArgFacts DEF LeafRevive, AtLeaf
<1>2. n.kv \in Seq(Item) /\ Len(n.kv) \in Nat
  BY <1>1, BlockFacts DEF Inv
<1>3. node' = [node EXCEPT ![cur].kv[i] = it]
  BY DEF LeafRevive
<1>4. i \in 1 .. Len(n.kv)
  BY <1>1, <1>2, ArgFacts, LubProperties DEF LeafRevive, KeyFound, Found, LeafIndex
<1>5. it.key = n.kv[i].key
  <2>1. n.kv[i] \in Item
    BY <1>2, <1>4, ElementOfSeq
  <2> QED
    BY <2>1 DEF Item
<1> HIDE DEF it, i
<1>6. Len(kv) = Len(n.kv) /\ \A j \in 1 .. Len(n.kv) : kv[j].key = n.kv[j].key
  BY <1>2, <1>4, <1>5
<1> HIDE DEF kv
<1>7. node' = [node EXCEPT ![cur] = [node[cur] EXCEPT !.kv = kv]]
  BY <1>1, <1>3 DEF kv
<1>8. node[cur] \in NodeBlock
  BY <1>1, BlockFacts DEF Inv
<1>9. /\ DOMAIN node' = DOMAIN node
      /\ \A b \in DOMAIN node \ {cur} : node'[b] = node[b]
      /\ node'[cur] = [node[cur] EXCEPT !.kv = kv]
  BY <1>1, <1>7 DEF Inv, TypeOK
<1>10. /\ node'[cur].leaf = n.leaf /\ node'[cur].level = n.level
       /\ node'[cur].next = n.next /\ node'[cur].kv = kv
  BY <1>8, <1>9 DEF NodeBlock
<1>11. \A b \in DOMAIN node :
         /\ node'[b].leaf = node[b].leaf /\ node'[b].level = node[b].level
         /\ node'[b].next = node[b].next
         /\ Len(node'[b].kv) = Len(node[b].kv)
         /\ \A j \in 1 .. Len(node[b].kv) :
              /\ node'[b].kv[j].key = node[b].kv[j].key
              /\ ~ node[b].leaf => node'[b].kv[j].val = node[b].kv[j].val
  BY <1>1, <1>6, <1>9, <1>10
<1>12. PutInRange'
  BY <1>1, <1>11, FramesKept
<1>13. KeysSorted' /\ SeparatorsExact' /\ ChildrenLinked' /\ OneParent'
  BY <1>1, <1>9, <1>11, OrderKept
<1> QED
  BY <1>12, <1>13 DEF Ordered

LEMMA RemoveByFlagOrdered ==
  ASSUME Inv, Ordered, NEW b \in Leaves, NEW i \in 1 .. Len(node[b].kv), RemoveByFlag(b, i)
  PROVE  Ordered'
<1> DEFINE n == node[b]
           it == [n.kv[i] EXCEPT !.flag = 0]
           kv == [n.kv EXCEPT ![i] = it]
<1>1. pc = "idle" /\ pc' = "idle" /\ root' = root /\ b \in DOMAIN node /\ n.leaf
  BY DEF RemoveByFlag, meta, call, Leaves
<1>2. n.kv \in Seq(Item) /\ Len(n.kv) \in Nat
  BY <1>1, BlockFacts DEF Inv
<1>3. node' = [node EXCEPT ![b].kv[i] = it]
  BY DEF RemoveByFlag
<1>4. it.key = n.kv[i].key
  <2>1. n.kv[i] \in Item
    BY <1>2, ElementOfSeq
  <2> QED
    BY <2>1 DEF Item
<1> HIDE DEF it
<1>5. Len(kv) = Len(n.kv) /\ \A j \in 1 .. Len(n.kv) : kv[j].key = n.kv[j].key
  BY <1>2, <1>4
<1> HIDE DEF kv
<1>6. node' = [node EXCEPT ![b] = [node[b] EXCEPT !.kv = kv]]
  BY <1>1, <1>3 DEF kv
<1>7. node[b] \in NodeBlock
  BY <1>1, BlockFacts DEF Inv
<1>8. /\ DOMAIN node' = DOMAIN node
      /\ \A c \in DOMAIN node \ {b} : node'[c] = node[c]
      /\ node'[b] = [node[b] EXCEPT !.kv = kv]
  BY <1>1, <1>6 DEF Inv, TypeOK
<1>9. /\ node'[b].leaf = n.leaf /\ node'[b].level = n.level
      /\ node'[b].next = n.next /\ node'[b].kv = kv
  BY <1>7, <1>8 DEF NodeBlock
<1>10. \A c \in DOMAIN node :
         /\ node'[c].leaf = node[c].leaf /\ node'[c].level = node[c].level
         /\ node'[c].next = node[c].next
         /\ Len(node'[c].kv) = Len(node[c].kv)
         /\ \A j \in 1 .. Len(node[c].kv) :
              /\ node'[c].kv[j].key = node[c].kv[j].key
              /\ ~ node[c].leaf => node'[c].kv[j].val = node[c].kv[j].val
  BY <1>1, <1>5, <1>8, <1>9
<1>11. PutInRange'
  BY <1>1 DEF PutInRange
<1>12. KeysSorted' /\ SeparatorsExact' /\ ChildrenLinked' /\ OneParent'
  BY <1>1, <1>8, <1>10, OrderKept
<1> QED
  BY <1>11, <1>12 DEF Ordered

\* The items of the leaf after LeafInsert: still sorted, and with another
\* largest key only if the new key is above all of them.
LEMMA InsertedItems ==
  ASSUME Inv, Ordered, LeafInsert, NEW kv, kv = node'[cur].kv
  PROVE  /\ cur \in DOMAIN node /\ node[cur].leaf /\ arg[1] \in Key
         /\ DOMAIN node' = DOMAIN node
         /\ \A b \in DOMAIN node \ {cur} : node'[b] = node[b]
         /\ node'[cur].leaf = node[cur].leaf /\ node'[cur].level = node[cur].level
         /\ node'[cur].next = node[cur].next
         /\ kv \in Seq(Item) /\ Len(kv) = Len(node[cur].kv) + 1
         /\ \A i, j \in 1 .. Len(kv) : i < j => kv[i].key < kv[j].key
         /\ kv[1].key = arg[1] \/ (node[cur].kv # << >> /\ kv[1].key = node[cur].kv[1].key)
         /\ node[cur].kv # << >> =>
              MaxKey(kv) = IF arg[1] > MaxKey(node[cur].kv) THEN arg[1] ELSE MaxKey(node[cur].kv)
         /\ \A j \in 1 .. Len(kv) : kv[j] = NewItem(arg[1], arg[2])
                                      \/ \E i \in 1 .. Len(node[cur].kv) : kv[j] = node[cur].kv[i]
         /\ \A i \in 1 .. Len(node[cur].kv) : \E j \in 1 .. Len(kv) : kv[j] = node[cur].kv[i]
         /\ \E j \in 1 .. Len(kv) : kv[j] = NewItem(arg[1], arg[2])
<1> DEFINE s == node[cur].kv
           n == Len(s)
           k == arg[1]
           new == NewItem(k, arg[2])
           l == LeafIndex
           t == InsertAt(s, l, new)
<1>1. cur \in DOMAIN node /\ node[cur].leaf /\ arg[1] \in Key /\ arg[2] \in Val /\ k \in Int
  BY ArgFacts, KeyAssumption DEF LeafInsert, AtLeaf
<1>2. /\ s \in Seq(Item) /\ n \in Nat
      /\ \A j \in 1 .. n : s[j] \in Item /\ s[j].key \in Int
      /\ \A i, j \in 1 .. n : i < j => s[i].key < s[j].key
      /\ MaxKey(s) = s[n].key /\ (s # << >> <=> n # 0)
  BY <1>1, BlockFacts, KeyFacts, EmptySeq DEF Ordered, KeysSorted, Inv
<1>3. new \in Item /\ new.key = k
  BY <1>1 DEF NewItem, Item
<1>4. /\ l \in 1 .. n + 1 /\ (l = n + 1 \/ s[l].key >= k)
      /\ \A j \in 1 .. l - 1 : s[j].key < k
  BY <1>1, <1>2, LubProperties DEF LeafIndex
<1>5. l = n + 1 \/ s[l].key # k
  <2>1. ~ Found(s, l, k)
    BY DEF LeafInsert, KeyFound
  <2> HIDE DEF l
  <2> QED
    BY <2>1, <1>2, <1>4 DEF Found
<1> HIDE DEF l, new
<1>6. /\ t \in Seq(Item) /\ Len(t) = n + 1
      /\ \A j \in 1 .. n + 1 : t[j] = IF j < l THEN s[j] ELSE IF j = l THEN new ELSE s[j - 1]
  <2>1. s \in Seq(Item) /\ new \in Item /\ l \in 1 .. Len(s) + 1
    BY <1>2, <1>3, <1>4
  <2>2. IsInsert(InsertAt(s, l, new), s, l, new)
    BY <2>1, ItemInserted
  <2> HIDE DEF s
  <2> QED
    BY <2>2 DEF IsInsert
<1>7. node' = [node EXCEPT ![cur] = [node[cur] EXCEPT !.kv = t]]
  BY <1>1 DEF LeafInsert, l, new
<1> HIDE DEF t
<1>8. node[cur] \in NodeBlock
  BY <1>1, BlockFacts DEF Inv
<1>9. /\ DOMAIN node' = DOMAIN node
      /\ \A b \in DOMAIN node \ {cur} : node'[b] = node[b]
      /\ node'[cur] = [node[cur] EXCEPT !.kv = t]
  BY <1>1, <1>7 DEF Inv, TypeOK
<1>10. /\ node'[cur].leaf = node[cur].leaf /\ node'[cur].level = node[cur].level
       /\ node'[cur].next = node[cur].next /\ kv = t
  BY <1>1, <1>8, <1>9 DEF NodeBlock
<1> HIDE DEF s, n, k
<1>11. ASSUME NEW j \in 1 .. n, j >= l PROVE k < s[j].key
  <2>1. l \in 1 .. n /\ s[l].key >= k /\ s[l].key # k
    BY <1>2, <1>4, <1>5, <1>11
  <2>2. j = l \/ s[l].key < s[j].key
    BY <2>1, <1>2, <1>11
  <2> QED
    BY <2>1, <2>2, <1>1, <1>2
<1>12. ASSUME NEW i \in 1 .. n + 1, NEW j \in 1 .. n + 1, i < j
       PROVE  t[i].key < t[j].key
  <2>1. CASE j < l
    BY <2>1, <1>2, <1>4, <1>6, <1>12
  <2>2. CASE j = l
    BY <2>2, <1>2, <1>3, <1>4, <1>6, <1>12
  <2>3. CASE j > l /\ i = l
    <3>1. j - 1 \in 1 .. n /\ j - 1 >= l
      BY <2>3, <1>2, <1>4
    <3> QED
      BY <2>3, <3>1, <1>3, <1>6, <1>11
  <2>4. CASE j > l /\ i < l
    <3>1. j - 1 \in 1 .. n /\ i \in 1 .. n /\ i < j - 1
      BY <2>4, <1>2, <1>4
    <3>2. t[i] = s[i] /\ t[j] = s[j - 1]
      BY <2>4, <1>4, <1>6
    <3>3. s[i].key < s[j - 1].key
      BY <3>1, <1>2
    <3> QED
      BY <3>2, <3>3
  <2>5. CASE j > l /\ i > l
    <3>1. j - 1 \in 1 .. n /\ i - 1 \in 1 .. n /\ i - 1 < j - 1
      BY <2>5, <1>2, <1>4, <1>12
    <3>2. t[i] = s[i - 1] /\ t[j] = s[j - 1]
      BY <2>5, <1>4, <1>6
    <3>3. s[i - 1].key < s[j - 1].key
      BY <3>1, <1>2
    <3> QED
      BY <3>2, <3>3
  <2> QED
    BY <2>1, <2>2, <2>3, <2>4, <2>5, <1>2, <1>4
<1>13. t[1].key = k \/ (s # << >> /\ t[1].key = s[1].key)
  BY <1>2, <1>3, <1>4, <1>6
<1>14. ASSUME s # << >>
       PROVE  MaxKey(t) = IF k > MaxKey(s) THEN k ELSE MaxKey(s)
  <2>1. MaxKey(t) = t[n + 1].key /\ n \in 1 .. n
    BY <1>2, <1>6, <1>14 DEF MaxKey, Last
  <2>2. CASE l = n + 1
    BY <2>1, <2>2, <1>1, <1>2, <1>3, <1>4, <1>6
  <2>3. CASE l # n + 1
    <3>1. t[n + 1] = s[n] /\ n >= l
      BY <2>3, <1>2, <1>4, <1>6
    <3> QED
      BY <2>1, <3>1, <1>1, <1>2, <1>11
  <2> QED
    BY <2>2, <2>3
<1>15. ASSUME NEW j \in 1 .. n + 1
       PROVE  t[j] = new \/ \E i \in 1 .. n : t[j] = s[i]
  <2>1. CASE j < l
    <3>1. j \in 1 .. n /\ t[j] = s[j]
      BY <2>1, <1>2, <1>4, <1>6
    <3> QED
      BY <3>1
  <2>2. CASE j > l
    <3>1. j - 1 \in 1 .. n /\ t[j] = s[j - 1]
      BY <2>2, <1>2, <1>4, <1>6
    <3> QED
      BY <3>1
  <2> QED
    BY <2>1, <2>2, <1>2, <1>4, <1>6
<1>16. ASSUME NEW i \in 1 .. n
       PROVE  \E j \in 1 .. n + 1 : t[j] = s[i]
  <2>1. CASE i < l
    BY <2>1, <1>2, <1>4, <1>6
  <2>2. CASE i >= l
    <3>1. i + 1 \in 1 .. n + 1 /\ ~ (i + 1 < l) /\ i + 1 # l /\ i + 1 - 1 = i
      BY <2>2, <1>2, <1>4
    <3>2. t[i + 1] = s[i]
      BY <3>1, <1>6
    <3> QED
      BY <3>1, <3>2
  <2> QED
    BY <2>1, <2>2, <1>2, <1>4
<1>17. \E j \in 1 .. n + 1 : t[j] = new
  BY <1>4, <1>6
<1>18. kv = t /\ Len(kv) = n + 1
  BY <1>6, <1>10
<1>19. \A i, j \in 1 .. Len(kv) : i < j => kv[i].key < kv[j].key
  BY <1>12, <1>18
<1>20. \A j \in 1 .. Len(kv) : kv[j] = new \/ \E i \in 1 .. n : kv[j] = s[i]
  BY <1>15, <1>18
<1>21. \A i \in 1 .. n : \E j \in 1 .. Len(kv) : kv[j] = s[i]
  BY <1>16, <1>18
<1>22. \E j \in 1 .. Len(kv) : kv[j] = new
  BY <1>17, <1>18
<1> HIDE DEF t
<1> QED
  BY <1>1, <1>6, <1>9, <1>10, <1>13, <1>14, <1>18, <1>19, <1>20, <1>21, <1>22, Zenon
    DEF s, n, k, new

LEMMA LeafInsertOrdered ==
  ASSUME Inv, Ordered, LeafInsert
  PROVE  Ordered'
<1> DEFINE n == node[cur]
           k == arg[1]
           kv == node'[cur].kv
<1>1. /\ pc = "down" /\ pc' = "up" /\ UNCHANGED <<stack, root>>
  BY DEF LeafInsert, AtLeaf
<1>2. /\ cur \in DOMAIN node /\ n.leaf /\ k \in Key
      /\ DOMAIN node' = DOMAIN node
      /\ \A b \in DOMAIN node \ {cur} : node'[b] = node[b]
      /\ node'[cur].leaf = n.leaf /\ node'[cur].level = n.level /\ node'[cur].next = n.next
      /\ kv \in Seq(Item) /\ Len(kv) = Len(n.kv) + 1
      /\ \A i, j \in 1 .. Len(kv) : i < j => kv[i].key < kv[j].key
      /\ kv[1].key = k \/ (n.kv # << >> /\ kv[1].key = n.kv[1].key)
      /\ n.kv # << >> => MaxKey(kv) = IF k > MaxKey(n.kv) THEN k ELSE MaxKey(n.kv)
  BY InsertedItems
<1>3. Covers(cur, k)
  BY <1>1 DEF Ordered, PutInRange
<1>4. \A b \in DOMAIN node : ~ node[b].leaf => b # cur /\ node'[b] = node[b]
  BY <1>2
<1>5. \A b \in DOMAIN node :
        /\ node'[b].leaf = node[b].leaf /\ node'[b].level = node[b].level
        /\ node'[b].next = node[b].next
  BY <1>2
<1>6. PutInRange'
  BY <1>1, <1>4, FramesKept
<1> HIDE DEF kv
<1>7. KeysSorted'
  <2>1. ASSUME NEW b \in DOMAIN node, NEW i \in 1 .. Len(node'[b].kv),
               NEW j \in 1 .. Len(node'[b].kv), i < j
        PROVE  node'[b].kv[i].key < node'[b].kv[j].key
    <3>1. CASE b = cur
      BY <3>1, <2>1, <1>2 DEF kv
    <3>2. CASE b # cur
      BY <3>2, <2>1, <1>2 DEF Ordered, KeysSorted
    <3> QED
      BY <3>1, <3>2
  <2>2. ASSUME NEW b \in DOMAIN node, node[b].next # 0
        PROVE  MaxKey(node'[b].kv) < node'[node[b].next].kv[1].key
    <3> DEFINE c == node[b].next
    <3>1. /\ c \in DOMAIN node /\ c # b /\ node[c].last = b
          /\ node[b].kv # << >> /\ node[c].kv # << >>
          /\ MaxKey(node[b].kv) < node[c].kv[1].key
      BY <2>2, NextFacts
    <3>2. CASE b = cur
      <4>1. k <= MaxKey(n.kv) /\ MaxKey(n.kv) \in Int /\ k \in Int
        BY <2>2, <3>1, <3>2, <1>2, <1>3, KeyFacts, KeyAssumption DEF Covers
      <4>2. MaxKey(kv) = MaxKey(n.kv)
        BY <3>1, <3>2, <4>1, <1>2
      <4> QED
        BY <3>1, <3>2, <4>2, <1>2 DEF kv
    <3>3. CASE c = cur
      <4>1. MaxKey(node[b].kv) < k
        BY <3>1, <3>3, <1>3, BlockFacts DEF Covers, Inv
      <4>2. MaxKey(node[b].kv) < kv[1].key
        BY <3>1, <3>3, <4>1, <1>2
      <4> QED
        BY <3>1, <3>3, <4>2, <1>2 DEF kv
    <3>4. CASE b # cur /\ c # cur
      BY <3>1, <3>4, <1>2
    <3> QED
      BY <3>2, <3>3, <3>4
  <2> QED
    BY <2>1, <2>2, <1>2, <1>5 DEF KeysSorted
<1>8. SeparatorsExact'
  <2>1. ASSUME NEW p \in DOMAIN node, ~ node[p].leaf, NEW i \in 1 .. Len(node[p].kv)
        PROVE  \/ StaleSeparator(p, i)'
               \/ node[p].kv[i].key = MaxKey(node'[node[p].kv[i].val].kv)
    <3> DEFINE c == node[p].kv[i].val
    <3>1. c \in DOMAIN node /\ node[c].kv # << >> /\ c # root
      BY <2>1, SonFacts
    <3>2. node[p].kv[i].key = MaxKey(node[c].kv)
      BY <1>1, <2>1 DEF Ordered, SeparatorsExact, StaleSeparator
    <3>3. CASE c # cur
      BY <3>1, <3>2, <3>3, <1>2
    <3>4. CASE c = cur /\ ~ (k > MaxKey(n.kv))
      BY <3>1, <3>2, <3>4, <1>2 DEF kv
    <3>5. CASE c = cur /\ k > MaxKey(n.kv)
      <4>1. stack # << >>
        BY <1>1, <3>1, <3>5 DEF Inv, FramesFormPath
      <4>2. Parent.max
        BY <1>1, <3>5, <4>1 DEF Ordered, PutInRange
      <4>3. /\ Parent.blk \in DOMAIN node /\ ~ node[Parent.blk].leaf
            /\ Parent.idx \in 1 .. Len(node[Parent.blk].kv)
            /\ node[Parent.blk].kv[Parent.idx].val = cur
        BY <1>1, <4>1, PathFacts
      <4>4. p = Parent.blk /\ i = Parent.idx
        BY <2>1, <3>5, <4>3 DEF Ordered, OneParent
      <4>5. Parent' = Parent
        BY <1>1 DEF Parent, Last
      <4> QED
        BY <1>1, <4>1, <4>2, <4>4, <4>5 DEF StaleSeparator
    <3> QED
      BY <3>3, <3>4, <3>5
  <2> QED
    BY <2>1, <1>2, <1>4, <1>5 DEF SeparatorsExact
<1>9. ChildrenLinked'
  <2>1. ASSUME NEW p \in DOMAIN node, ~ node[p].leaf, NEW i \in 1 .. Len(node[p].kv)
        PROVE  node'[node[p].kv[i].val].next =
                 IF i < Len(node[p].kv) THEN node[p].kv[i + 1].val
                 ELSE IF node[p].next = 0 THEN 0 ELSE node'[node[p].next].kv[1].val
    <3> DEFINE c == node[p].kv[i].val
    <3>1. /\ c \in DOMAIN node
          /\ node[c].next = IF i < Len(node[p].kv) THEN node[p].kv[i + 1].val
                            ELSE IF node[p].next = 0 THEN 0 ELSE node[node[p].next].kv[1].val
      BY <2>1, SonFacts
    <3>2. node'[c].next = node[c].next
      BY <3>1, <1>5
    <3>3. node[p].next # 0 => node'[node[p].next] = node[node[p].next]
      BY <2>1, <1>4, NextFacts
    <3> QED
      BY <3>1, <3>2, <3>3
  <2> QED
    BY <2>1, <1>2, <1>4, <1>5 DEF ChildrenLinked
<1>10. OneParent'
  <2>1. root \in DOMAIN node
    BY DEF Inv, TypeOK
  <2>2. ASSUME NEW b \in DOMAIN node, b # root
        PROVE  \E p \in DOMAIN node : /\ ~ node'[p].leaf
                                      /\ \E i \in 1 .. Len(node'[p].kv) : node'[p].kv[i].val = b
    <3>1. PICK p \in DOMAIN node : ~ node[p].leaf /\ \E i \in 1 .. Len(node[p].kv) : node[p].kv[i].val = b
      BY <2>2 DEF Ordered, OneParent
    <3> QED
      BY <3>1, <1>4
  <2>3. ASSUME NEW p \in DOMAIN node, NEW q \in DOMAIN node, ~ node'[p].leaf, ~ node'[q].leaf,
               NEW i \in 1 .. Len(node'[p].kv), NEW j \in 1 .. Len(node'[q].kv),
               node'[p].kv[i].val = node'[q].kv[j].val
        PROVE  p = q /\ i = j
    <3>1. node'[p] = node[p] /\ node'[q] = node[q]
      BY <2>3, <1>4, <1>5
    <3> QED
      BY <2>3, <3>1 DEF Ordered, OneParent
  <2>4. \A b \in DOMAIN node : node'[b].level <= node'[root].level
    BY <2>1, <1>5 DEF Ordered, OneParent
  <2> QED
    BY <2>1, <2>2, <2>3, <2>4, <1>1, <1>2 DEF OneParent
<1> QED
  BY <1>6, <1>7, <1>8, <1>9, <1>10 DEF Ordered

\* The items of the parent once the key of its son is up to date: they are
\* sorted, the separator is exact, and the neighbours of the son stand apart
\* from it.
Raised(p, i, s, mid) ==
  /\ mid \in Seq(Item) /\ Len(mid) = Len(node[p].kv)
  /\ i \in 1 .. Len(mid) /\ mid[i].key = MaxKey(s) /\ mid[i].val = cur
  /\ \A j \in 1 .. Len(mid) : mid[j].val = node[p].kv[j].val
  /\ \A j \in 1 .. Len(mid) : j # i => mid[j] = node[p].kv[j]
  /\ \A j \in 1 .. Len(mid) : j < i => mid[j].key < s[1].key
  /\ \A j \in 1 .. Len(mid) : j > i => MaxKey(s) < mid[j].key
  /\ \A c \in DOMAIN node : node[c].next = p /\ i = 1 => MaxKey(node[c].kv) < s[1].key
  /\ i = Len(mid) /\ node[p].next # 0 => MaxKey(s) < node[node[p].next].kv[1].key
  /\ MaxKey(mid) = MaxKey(node[p].kv) \/ (Parent.max /\ i = Len(mid))
LEMMA RaisedItems ==
  ASSUME Inv, Ordered, pc = "up", stack # << >>,
         NEW p, p = Parent.blk, NEW i, i = Parent.idx, NEW s, s = node[cur].kv,
         NEW mid, mid = UpdatedKeys(node[p], Parent, node[cur])
  PROVE  Raised(p, i, s, mid)
<1> DEFINE kv == node[p].kv
           n == Len(kv)
<1>1. /\ p \in DOMAIN node /\ ~ node[p].leaf /\ cur \in DOMAIN node /\ cur # 0
      /\ i \in 1 .. n /\ kv[i].val = cur /\ Parent \in Frame
  BY PathFacts, ArgFacts, BlockFacts DEF Inv
<1>2. /\ kv \in Seq(Item) /\ n \in Nat /\ \A j \in 1 .. n : kv[j] \in Item /\ kv[j].key \in Int
      /\ \A j1, j2 \in 1 .. n : j1 < j2 => kv[j1].key < kv[j2].key
  BY <1>1, BlockFacts, KeyFacts DEF Ordered, KeysSorted, Inv
<1>3. /\ s \in Seq(Item) /\ s # << >> /\ Len(s) \in Nat /\ Len(s) >= 1 /\ MaxKey(s) = s[Len(s)].key
      /\ \A j \in 1 .. Len(s) : s[j] \in Item /\ s[j].key \in Int
      /\ \A j1, j2 \in 1 .. Len(s) : j1 < j2 => s[j1].key < s[j2].key
  <2>1. s # << >>
    BY <1>1, SonFacts
  <2>2. s \in Seq(Item) /\ Len(s) \in Nat /\ \A j \in 1 .. Len(s) : s[j] \in Item
    BY <1>1, BlockFacts DEF Inv
  <2>3. /\ Len(s) >= 1 /\ MaxKey(s) = s[Len(s)].key
        /\ \A j \in 1 .. Len(s) : s[j].key \in Int
    BY <1>1, <2>1, KeyFacts
  <2>4. \A j1, j2 \in 1 .. Len(s) : j1 < j2 => s[j1].key < s[j2].key
    BY <1>1 DEF Ordered, KeysSorted
  <2> QED
    BY <2>1, <2>2, <2>3, <2>4
<1>4. MaxKey(s) \in Key /\ MaxKey(s) \in Int /\ s[1].key \in Int /\ s[1].key <= MaxKey(s)
  BY <1>3, KeyAssumption DEF Item
<1> DEFINE it == [kv[i] EXCEPT !.key = MaxKey(s)]
           up == [kv EXCEPT ![i] = it]
<1>5. it \in Item /\ it.val = cur /\ it.key = MaxKey(s)
  BY <1>1, <1>2, <1>4 DEF Item
<1> HIDE DEF it
<1>6. /\ up \in Seq(Item) /\ Len(up) = n
      /\ \A j \in 1 .. n : up[j] = IF j = i THEN it ELSE kv[j]
  BY <1>1, <1>2, <1>5
<1>7. mid = IF Parent.max THEN up ELSE kv
  BY DEF UpdatedKeys, it
<1> HIDE DEF up
<1>8. kv[i].key = MaxKey(s) \/ (Parent.max /\ i = n)
  BY <1>1, SeparatorFacts DEF StaleSeparator
<1>9. /\ mid \in Seq(Item) /\ Len(mid) = n /\ mid[i].key = MaxKey(s) /\ mid[i].val = cur
      /\ \A j \in 1 .. n : j # i => mid[j] = kv[j]
      /\ \A j \in 1 .. n : mid[j].val = kv[j].val
      /\ MaxKey(mid) = MaxKey(kv) \/ (Parent.max /\ i = n)
  <2>1. CASE ~ Parent.max
    BY <2>1, <1>1, <1>2, <1>7, <1>8
  <2>2. CASE Parent.max
    <3>1. i = n
      <4>1. Len(stack) \in 1 .. Len(stack) /\ stack[Len(stack)] = Parent
        BY PathFacts DEF Parent, Last
      <4>2. Parent.max => Parent.idx = Len(node[Parent.blk].kv)
        BY <4>1 DEF Ordered, PutInRange
      <4> QED
        BY <2>2, <4>2
    <3>2. mid = up
      BY <2>2, <1>7
    <3>3. mid \in Seq(Item) /\ Len(mid) = n /\ mid[i] = it
      BY <3>2, <1>1, <1>6
    <3>4. \A j \in 1 .. n : j # i => mid[j] = kv[j]
      BY <3>2, <1>6
    <3>5. \A j \in 1 .. n : mid[j].val = kv[j].val
      BY <3>3, <3>4, <1>1, <1>5
    <3> QED
      BY <2>2, <3>1, <3>3, <3>4, <3>5, <1>5
  <2> QED
    BY <2>1, <2>2
<1>10. ASSUME i > 1 PROVE kv[i - 1].key < s[1].key
  <2> DEFINE d == kv[i - 1].val
  <2>1. i - 1 \in 1 .. n /\ i - 1 < n /\ i - 1 + 1 = i
    BY <1>10, <1>1, <1>2
  <2>2. d \in DOMAIN node /\ node[d].next = kv[i - 1 + 1].val
    BY <2>1, <1>1, SonFacts
  <2>3. MaxKey(node[d].kv) < s[1].key
    <3>1. node[d].next = cur /\ node[d].next # 0
      BY <2>1, <2>2, <1>1
    <3> HIDE DEF d
    <3> QED
      BY <2>2, <3>1, NextFacts
  <2>4. kv[i - 1].key = MaxKey(node[d].kv)
    <3>1. i - 1 # n
      BY <2>1, <1>2
    <3> QED
      BY <2>1, <3>1, <1>1, SeparatorFacts
  <2> QED
    BY <2>3, <2>4
<1>11. ASSUME NEW j \in 1 .. n, j < i PROVE mid[j].key < s[1].key
  <2>1. i - 1 \in 1 .. n /\ (j = i - 1 \/ j < i - 1) /\ i > 1 /\ mid[j] = kv[j]
    <3> HIDE DEF n
    <3>1. n \in Nat /\ i \in 1 .. n /\ j \in 1 .. n /\ j < i
      BY <1>11, <1>1, <1>2
    <3>2. i - 1 \in 1 .. n /\ (j = i - 1 \/ j < i - 1) /\ i > 1 /\ j # i
      BY <3>1
    <3> QED
      BY <3>1, <3>2, <1>9
  <2>2. j = i - 1 \/ kv[j].key < kv[i - 1].key
    BY <2>1, <1>2
  <2>3. kv[j].key \in Int /\ kv[i - 1].key \in Int
    BY <2>1, <1>2
  <2> HIDE DEF kv, n
  <2> QED
    BY <2>1, <2>2, <2>3, <1>4, <1>10
<1>12. ASSUME NEW j \in 1 .. n, j > i PROVE MaxKey(s) < mid[j].key
  <2>1. kv[i].key = MaxKey(s) /\ mid[j] = kv[j]
    BY <1>1, <1>2, <1>8, <1>9, <1>12
  <2> QED
    BY <2>1, <1>1, <1>2, <1>12
<1>13. ASSUME NEW c \in DOMAIN node, node[c].next = p, i = 1
       PROVE  MaxKey(node[c].kv) < s[1].key
  <2> DEFINE m == Len(node[c].kv)
             d == node[c].kv[m].val
  <2>1. node[c].next # 0 /\ ~ node[c].leaf /\ node[c].kv # << >>
    BY <1>1, <1>13, NextFacts, BlockFacts DEF Inv
  <2>2. m \in 1 .. m /\ MaxKey(node[c].kv) = node[c].kv[m].key
    BY <2>1, KeyFacts
  <2>3. d \in DOMAIN node /\ node[d].next = cur
    BY <2>1, <2>2, <1>1, <1>13, SonFacts
  <2>4. MaxKey(node[d].kv) < s[1].key
    BY <2>3, <1>1, NextFacts
  <2>5. node[c].kv[m].key = MaxKey(node[d].kv)
    BY <2>1, <2>2, SeparatorFacts
  <2> QED
    BY <2>2, <2>4, <2>5
<1>14. ASSUME i = n, node[p].next # 0
       PROVE  MaxKey(s) < node[node[p].next].kv[1].key
  <2>1. kv[i].key = MaxKey(s)
    BY <1>1, <1>14, SeparatorFacts
  <2>2. MaxKey(kv) = kv[n].key /\ MaxKey(kv) < node[node[p].next].kv[1].key
    BY <1>1, <1>14, KeyFacts, NextFacts
  <2> QED
    BY <2>1, <2>2, <1>14
<1> HIDE DEF it
<1> QED
  BY <1>1, <1>9, <1>11, <1>12, <1>13, <1>14 DEF Raised

\* The parent raises its own largest key: then the separator above it is the
\* one that is behind.
LEMMA SeparatorAbove ==
  ASSUME Inv, Ordered, pc = "up", stack # << >>, Parent.max, pc' = "up", stack' = Front(stack),
         NEW q \in DOMAIN node, ~ node[q].leaf, NEW j \in 1 .. Len(node[q].kv),
         node[q].kv[j].val = Parent.blk
  PROVE  StaleSeparator(q, j)'
<1>1. /\ Len(stack) \in Nat /\ Len(stack) >= 1 /\ stack \in Seq(Frame)
      /\ Len(Front(stack)) = Len(stack) - 1
      /\ \A l \in 1 .. Len(stack) - 1 : Front(stack)[l] = stack[l]
      /\ root = IF Front(stack) = << >> THEN Parent.blk ELSE Front(stack)[1].blk
  BY PathFacts, PopFacts DEF Inv, TypeOK
<1>2. Parent.blk # root
  BY SonFacts
<1>3. stack' # << >> /\ Len(stack') # 0
  BY <1>1, <1>2, PopFacts, EmptySeq
<1> DEFINE m == Len(stack) - 1
<1>4. m \in 1 .. Len(stack) /\ m # Len(stack) /\ m + 1 = Len(stack) /\ m \in 1 .. Len(stack) - 1
  BY <1>1, <1>3
<1>5. Parent' = stack[m]
  <2>1. Parent' = Front(stack)[m]
    BY <1>1 DEF Parent, Last
  <2> QED
    BY <2>1, <1>1, <1>4
<1> HIDE DEF m
<1>6. OnPath(m)
  BY <1>4 DEF Inv, FramesFormPath
<1>7. /\ stack[m].blk \in DOMAIN node /\ ~ node[stack[m].blk].leaf
      /\ stack[m].idx \in 1 .. Len(node[stack[m].blk].kv)
      /\ node[stack[m].blk].kv[stack[m].idx].val = Parent.blk
  BY <1>4, <1>6 DEF OnPath, Parent, Last
<1>8. q = stack[m].blk /\ j = stack[m].idx
  <2> DEFINE d == stack[m].blk
             i == stack[m].idx
  <2>1. /\ d \in DOMAIN node /\ ~ node[d].leaf /\ i \in 1 .. Len(node[d].kv)
        /\ node[d].kv[i].val = node[q].kv[j].val
    BY <1>7
  <2> HIDE DEF d, i
  <2>2. q = d /\ j = i
    BY <2>1, OneSlot
  <2> QED
    BY <2>2 DEF d, i
<1>9. stack[m].max
  BY <1>4 DEF Ordered, PutInRange
<1> QED
  BY <1>3, <1>5, <1>8, <1>9 DEF StaleSeparator

\* The frames left after a return to the parent.
LEMMA FramesLeft ==
  ASSUME Inv, Ordered, pc = "up", stack # << >>, pc' = "up", stack' = Front(stack),
         \A b \in DOMAIN node : node[b].level > node[Parent.blk].level =>
           node'[b].kv = node[b].kv /\ node'[b].next = node[b].next
  PROVE  PutInRange'
<1>1. /\ Len(stack) \in Nat /\ Len(stack) >= 1 /\ stack \in Seq(Frame)
      /\ stack' \in Seq(Frame) /\ Len(stack') = Len(stack) - 1
      /\ \A l \in 1 .. Len(stack) - 1 : stack'[l] = stack[l]
  BY PathFacts, PopFacts DEF Inv, TypeOK
<1>2. node[Parent.blk].level = node[cur].level + 1 /\ node[cur].level \in Nat
  BY PathFacts, ArgFacts, BlockFacts DEF Inv
<1>3. ASSUME NEW j \in 1 .. Len(stack')
      PROVE  /\ stack'[j].max = Parent.max
             /\ stack'[j].max => /\ stack'[j].idx = Len(node'[stack'[j].blk].kv)
                                 /\ node'[stack'[j].blk].next = 0
  <2>1. j \in 1 .. Len(stack) - 1 /\ j \in 1 .. Len(stack) /\ stack'[j] = stack[j]
    BY <1>1
  <2>2. OnPath(j)
    BY <2>1 DEF Inv, FramesFormPath
  <2>3. stack[j].blk \in DOMAIN node /\ node[stack[j].blk].level = node[cur].level + Len(stack) - j + 1
    BY <2>2 DEF OnPath
  <2>4. node[stack[j].blk].level > node[Parent.blk].level
    BY <2>1, <2>3, <1>1, <1>2
  <2>5. /\ stack[j].max = Parent.max
        /\ stack[j].max => /\ stack[j].idx = Len(node[stack[j].blk].kv)
                           /\ node[stack[j].blk].next = 0
    BY <2>1 DEF Ordered, PutInRange
  <2> QED
    BY <2>1, <2>3, <2>4, <2>5
<1>4. ASSUME NEW j \in 1 .. Len(stack')
      PROVE  stack'[j].max = Parent'.max
  <2>1. Len(stack') \in 1 .. Len(stack') /\ Parent' = stack'[Len(stack')]
    BY <1>1 DEF Parent, Last
  <2> QED
    BY <2>1, <1>3
<1> QED
  BY <1>3, <1>4 DEF PutInRange

LEMMA AscendKeepOrdered ==
  ASSUME Inv, Ordered, AscendKeep
  PROVE  Ordered'
<1> DEFINE p == Parent.blk
           i == Parent.idx
           s == node[cur].kv
           mid == UpdatedKeys(node[p], Parent, node[cur])
<1>1. /\ pc = "up" /\ stack # << >> /\ pc' = "up" /\ stack' = Front(stack) /\ root' = root
      /\ node' = [node EXCEPT ![p] = [node[p] EXCEPT !.kv = mid]]
  BY DEF AscendKeep, meta
<1>2. /\ p \in DOMAIN node /\ ~ node[p].leaf /\ cur \in DOMAIN node /\ cur # p
      /\ node[p].level \in Nat /\ node[p].level = node[cur].level + 1 /\ node[cur].level \in Nat
      /\ node[p] \in NodeBlock /\ p # 0 /\ root \in DOMAIN node
  <2>1. /\ p \in DOMAIN node /\ ~ node[p].leaf /\ node[p].level = node[cur].level + 1
        /\ cur \in DOMAIN node
    BY <1>1, PathFacts, ArgFacts
  <2>2. node[p] \in NodeBlock /\ p # 0 /\ node[p].level \in Nat /\ node[cur].level \in Nat
    BY <2>1, BlockFacts DEF Inv
  <2>3. cur # p
    BY <2>1, <2>2
  <2>4. root \in DOMAIN node
    BY DEF Inv, TypeOK
  <2> QED
    BY <2>1, <2>2, <2>3, <2>4
<1>3. /\ mid \in Seq(Item) /\ Len(mid) = Len(node[p].kv)
      /\ i \in 1 .. Len(mid) /\ mid[i].key = MaxKey(s) /\ mid[i].val = cur
      /\ \A j \in 1 .. Len(mid) : mid[j].val = node[p].kv[j].val
      /\ \A j \in 1 .. Len(mid) : j # i => mid[j] = node[p].kv[j]
      /\ \A j \in 1 .. Len(mid) : j < i => mid[j].key < s[1].key
      /\ \A j \in 1 .. Len(mid) : j > i => MaxKey(s) < mid[j].key
      /\ \A c \in DOMAIN node : node[c].next = p /\ i = 1 => MaxKey(node[c].kv) < s[1].key
      /\ i = Len(mid) /\ node[p].next # 0 => MaxKey(s) < node[node[p].next].kv[1].key
      /\ MaxKey(mid) = MaxKey(node[p].kv) \/ (Parent.max /\ i = Len(mid))
  <2>1. Raised(p, i, s, mid)
    BY <1>1, RaisedItems
  <2> QED
    BY <2>1 DEF Raised
<1> HIDE DEF mid
<1>4. /\ DOMAIN node' = DOMAIN node
      /\ \A b \in DOMAIN node \ {p} : node'[b] = node[b]
      /\ node'[p] = [node[p] EXCEPT !.kv = mid]
  BY <1>1, <1>2 DEF Inv, TypeOK
<1>5. /\ node'[p].kv = mid /\ node'[p].leaf = node[p].leaf
      /\ node'[p].level = node[p].level /\ node'[p].next = node[p].next
  BY <1>2, <1>4 DEF NodeBlock
<1>6. \A b \in DOMAIN node :
        /\ node'[b].leaf = node[b].leaf /\ node'[b].level = node[b].level
        /\ node'[b].next = node[b].next
        /\ Len(node'[b].kv) = Len(node[b].kv)
        /\ \A j \in 1 .. Len(node[b].kv) : node'[b].kv[j].val = node[b].kv[j].val
  <2>1. /\ Len(node'[p].kv) = Len(node[p].kv)
        /\ \A j \in 1 .. Len(node[p].kv) : node'[p].kv[j].val = node[p].kv[j].val
    BY <1>3, <1>5
  <2>2. ASSUME NEW b \in DOMAIN node, b # p PROVE node'[b] = node[b]
    BY <2>2, <1>4
  <2> QED
    BY <2>1, <2>2, <1>5
<1>7. PutInRange'
  <2>1. ASSUME NEW b \in DOMAIN node, node[b].level > node[p].level
        PROVE  node'[b].kv = node[b].kv /\ node'[b].next = node[b].next
    BY <2>1, <1>2, <1>4
  <2> QED
    BY <1>1, <2>1, FramesLeft
<1>8. /\ Len(s) \in Nat /\ Len(s) >= 1 /\ MaxKey(s) \in Int /\ s[1].key \in Int /\ s[1].key <= MaxKey(s)
  <2>1. s # << >>
    BY <1>1, <1>2, PathFacts, SonFacts
  <2>2. /\ Len(s) \in Nat /\ Len(s) >= 1 /\ MaxKey(s) = s[Len(s)].key
        /\ \A j \in 1 .. Len(s) : s[j].key \in Int
        /\ \A j1, j2 \in 1 .. Len(s) : j1 < j2 => s[j1].key < s[j2].key
    BY <1>2, <2>1, KeyFacts DEF Ordered, KeysSorted
  <2> HIDE DEF s
  <2>3. Len(s) = 1 \/ s[1].key < s[Len(s)].key
    <3> DEFINE m == Len(s)
    <3>1. m \in Nat /\ m >= 1
      BY <2>2
    <3> HIDE DEF m
    <3>2. 1 \in 1 .. m /\ m \in 1 .. m /\ (m = 1 \/ 1 < m)
      BY <3>1
    <3>3. 1 \in 1 .. Len(s) /\ Len(s) \in 1 .. Len(s) /\ (Len(s) = 1 \/ 1 < Len(s))
      BY <3>2 DEF m
    <3> QED
      BY <2>2, <3>3
  <2> QED
    BY <2>2, <2>3
<1>9. /\ node[p].kv # << >> /\ Len(node[p].kv) \in Nat /\ Len(node[p].kv) >= 1
      /\ \A j \in 1 .. Len(node[p].kv) : node[p].kv[j].key \in Int
      /\ \A j1, j2 \in 1 .. Len(node[p].kv) : j1 < j2 => node[p].kv[j1].key < node[p].kv[j2].key
  BY <1>2, KeyFacts DEF Ordered, KeysSorted
<1>10. KeysSorted'
  <2>1. ASSUME NEW j1 \in 1 .. Len(mid), NEW j2 \in 1 .. Len(mid), j1 < j2
        PROVE  mid[j1].key < mid[j2].key
    <3>1. CASE j1 # i /\ j2 # i
      BY <2>1, <3>1, <1>3, <1>9
    <3>2. CASE j1 = i
      BY <2>1, <3>2, <1>3
    <3>3. CASE j2 = i
      <4>1. mid[j1].key < s[1].key /\ j1 # i
        BY <2>1, <3>3, <1>3
      <4>2. mid[j1].key \in Int
        BY <4>1, <1>3, <1>9
      <4> HIDE DEF s
      <4> QED
        BY <3>3, <4>1, <4>2, <1>3, <1>8
    <3> QED
      BY <3>1, <3>2, <3>3
  <2>2. ASSUME NEW b \in DOMAIN node, NEW j1 \in 1 .. Len(node'[b].kv),
               NEW j2 \in 1 .. Len(node'[b].kv), j1 < j2
        PROVE  node'[b].kv[j1].key < node'[b].kv[j2].key
    <3>1. CASE b = p
      BY <3>1, <2>1, <2>2, <1>5
    <3>2. CASE b # p
      BY <3>2, <2>2, <1>4 DEF Ordered, KeysSorted
    <3> QED
      BY <3>1, <3>2
  <2>3. ASSUME NEW b \in DOMAIN node, node[b].next # 0
        PROVE  MaxKey(node'[b].kv) < node'[node[b].next].kv[1].key
    <3> DEFINE c == node[b].next
    <3>1. /\ c \in DOMAIN node /\ c # b /\ node[c].last = b /\ node[c].kv # << >>
          /\ MaxKey(node[b].kv) < node[c].kv[1].key
      BY <2>3, NextFacts
    <3>2. CASE b = p
      <4>1. MaxKey(mid) < node[c].kv[1].key
        <5>1. CASE i = Len(mid)
          <6>1. MaxKey(mid) = MaxKey(s)
            BY <5>1, <1>3 DEF MaxKey, Last
          <6> QED
            BY <2>3, <3>2, <5>1, <6>1, <1>3
        <5>2. CASE i # Len(mid)
          BY <3>1, <3>2, <5>2, <1>3
        <5> QED
          BY <5>1, <5>2
      <4> QED
        BY <3>1, <3>2, <4>1, <1>4, <1>5
    <3>3. CASE c = p
      <4>1. MaxKey(node[b].kv) < mid[1].key
        <5>1. CASE i = 1
          <6>1. MaxKey(node[b].kv) < s[1].key
            BY <3>3, <5>1, <1>3
          <6>2. MaxKey(node[b].kv) \in Int
            BY <2>3, NextFacts, KeyFacts
          <6> HIDE DEF s, c
          <6> QED
            BY <5>1, <6>1, <6>2, <1>3, <1>8
        <5>2. CASE i # 1
          <6>1. 1 \in 1 .. Len(mid)
            BY <1>3, <1>9
          <6> QED
            BY <3>1, <3>3, <5>2, <6>1, <1>3
        <5> QED
          BY <5>1, <5>2
      <4> QED
        BY <3>1, <3>3, <4>1, <1>4, <1>5
    <3>4. CASE b # p /\ c # p
      BY <3>1, <3>4, <1>4
    <3> QED
      BY <3>2, <3>3, <3>4
  <2> QED
    BY <2>2, <2>3, <1>4, <1>6 DEF KeysSorted
<1>11. SeparatorsExact'
  <2>1. ASSUME NEW q \in DOMAIN node, ~ node[q].leaf, NEW j \in 1 .. Len(node[q].kv)
        PROVE  \/ StaleSeparator(q, j)'
               \/ node'[q].kv[j].key = MaxKey(node'[node[q].kv[j].val].kv)
    <3> DEFINE c == node[q].kv[j].val
    <3>1. c \in DOMAIN node /\ c # q /\ node[c].level + 1 = node[q].level
      BY <2>1, SonFacts
    <3>2. CASE q = p /\ j = i
      <4>1. c = cur
        BY <3>2, <1>3
      <4> QED
        BY <3>2, <4>1, <1>2, <1>3, <1>4, <1>5
    <3>3. CASE ~ (q = p /\ j = i)
      <4>1. node[q].kv[j].key = MaxKey(node[c].kv)
        BY <2>1, <3>3 DEF Ordered, SeparatorsExact, StaleSeparator
      <4>2. node'[q].kv[j].key = node[q].kv[j].key
        <5>1. CASE q = p
          BY <2>1, <3>3, <5>1, <1>3, <1>5
        <5>2. CASE q # p
          BY <2>1, <5>2, <1>4
        <5> QED
          BY <5>1, <5>2
      <4>3. CASE c # p
        BY <3>1, <4>1, <4>2, <4>3, <1>4
      <4>4. CASE c = p
        <5>1. CASE Parent.max
          BY <2>1, <4>4, <5>1, <1>1, SeparatorAbove
        <5>2. CASE ~ Parent.max
          BY <4>1, <4>2, <4>4, <5>2, <1>3, <1>5
        <5> QED
          BY <5>1, <5>2
      <4> QED
        BY <4>3, <4>4
    <3> QED
      BY <3>2, <3>3
  <2> QED
    BY <2>1, <1>4, <1>6 DEF SeparatorsExact
<1>12. ChildrenLinked'
  <2>1. ASSUME NEW q \in DOMAIN node, ~ node[q].leaf, NEW j \in 1 .. Len(node[q].kv)
        PROVE  node'[node'[q].kv[j].val].next =
                 IF j < Len(node'[q].kv) THEN node'[q].kv[j + 1].val
                 ELSE IF node'[q].next = 0 THEN 0 ELSE node'[node'[q].next].kv[1].val
    <3> DEFINE c == node[q].kv[j].val
    <3>1. /\ c \in DOMAIN node
          /\ node[c].next = IF j < Len(node[q].kv) THEN node[q].kv[j + 1].val
                            ELSE IF node[q].next = 0 THEN 0 ELSE node[node[q].next].kv[1].val
      BY <2>1, SonFacts
    <3>2. node'[q].kv[j].val = c /\ node'[c].next = node[c].next
      BY <3>1, <1>6
    <3>3. CASE j < Len(node[q].kv)
      <4>1. j + 1 \in 1 .. Len(node[q].kv)
        BY <3>3, KeyFacts
      <4> QED
        BY <3>1, <3>2, <3>3, <4>1, <1>6
    <3>4. CASE ~ (j < Len(node[q].kv)) /\ node[q].next = 0
      BY <3>1, <3>2, <3>4, <1>6
    <3>5. CASE ~ (j < Len(node[q].kv)) /\ node[q].next # 0
      <4> DEFINE d == node[q].next
      <4>1. d \in DOMAIN node /\ node[d].kv # << >>
        BY <2>1, <3>5, NextFacts
      <4>2. 1 \in 1 .. Len(node[d].kv)
        BY <4>1, KeyFacts
      <4>3. node'[d].kv[1].val = node[d].kv[1].val
        BY <4>1, <4>2, <1>6
      <4> QED
        BY <3>1, <3>2, <3>5, <4>3, <1>6
    <3> QED
      BY <3>3, <3>4, <3>5
  <2> QED
    BY <2>1, <1>4, <1>6 DEF ChildrenLinked
<1>13. OneParent'
  <2>2. ASSUME NEW b \in DOMAIN node, b # root
        PROVE  \E q \in DOMAIN node : /\ ~ node'[q].leaf
                                      /\ \E j \in 1 .. Len(node'[q].kv) : node'[q].kv[j].val = b
    <3>1. PICK q \in DOMAIN node : ~ node[q].leaf /\ \E j \in 1 .. Len(node[q].kv) : node[q].kv[j].val = b
      BY <2>2 DEF Ordered, OneParent
    <3> QED
      BY <3>1, <1>6
  <2>3. ASSUME NEW q1 \in DOMAIN node, NEW q2 \in DOMAIN node, ~ node'[q1].leaf, ~ node'[q2].leaf,
               NEW j1 \in 1 .. Len(node'[q1].kv), NEW j2 \in 1 .. Len(node'[q2].kv),
               node'[q1].kv[j1].val = node'[q2].kv[j2].val
        PROVE  q1 = q2 /\ j1 = j2
    BY <2>3, <1>6 DEF Ordered, OneParent
  <2>4. \A b \in DOMAIN node : node'[b].level <= node'[root].level
    BY <1>2, <1>6 DEF Ordered, OneParent
  <2> QED
    BY <2>2, <2>3, <2>4, <1>1, <1>4 DEF OneParent
<1> QED
  BY <1>7, <1>10, <1>11, <1>12, <1>13 DEF Ordered

\* The halves of a full block: sorted, one after the other.
\* The two halves of the items kv of a full block.
SplitParts(kv, lo, up) ==
  /\ lo \in Seq(Item) /\ up \in Seq(Item)
  /\ Len(lo) \in Nat /\ Len(lo) >= 1 /\ Len(up) \in Nat /\ Len(up) >= 1
  /\ Len(kv) \in Nat /\ Len(lo) + Len(up) = Len(kv)
  /\ \A j \in 1 .. Len(lo) : j \in 1 .. Len(kv) /\ lo[j] = kv[j]
  /\ \A j \in 1 .. Len(up) : Len(lo) + j \in 1 .. Len(kv) /\ up[j] = kv[Len(lo) + j]
  /\ \A j1, j2 \in 1 .. Len(lo) : j1 < j2 => lo[j1].key < lo[j2].key
  /\ \A j1, j2 \in 1 .. Len(up) : j1 < j2 => up[j1].key < up[j2].key
  /\ lo[1] = kv[1] /\ MaxKey(up) = MaxKey(kv)
  /\ MaxKey(lo) \in Key /\ MaxKey(lo) \in Int /\ MaxKey(kv) \in Int
  /\ kv[1].key \in Int /\ kv[1].key <= MaxKey(lo)
  /\ up[1].key \in Int /\ MaxKey(lo) < up[1].key /\ up[1].key <= MaxKey(kv)

LEMMA SplitSorted ==
  ASSUME NEW kv \in Seq(Item), Len(kv) >= 2,
         \A j1, j2 \in 1 .. Len(kv) : j1 < j2 => kv[j1].key < kv[j2].key,
         NEW lo, lo = Lower(kv), NEW up, up = Upper(kv)
  PROVE  SplitParts(kv, lo, up)
<1> DEFINE n == Len(kv)
           m == (n + 1) \div 2
<1>1. n \in Nat /\ n >= 2 /\ m \in Nat /\ 1 <= m /\ m < n
  OBVIOUS
<1>2. /\ lo \in Seq(Item) /\ Len(lo) = m
      /\ \A j \in 1 .. m : lo[j] = kv[j]
  <2>1. lo = SubSeq(kv, 1, m)
    BY DEF Lower
  <2> HIDE DEF m
  <2>2. 1 \in Nat /\ m \in Nat /\ m <= Len(kv) /\ 1 <= m + 1
    BY <1>1
  <2>3. SubSeq(kv, 1, m) \in Seq(Item) /\ Len(SubSeq(kv, 1, m)) = m - 1 + 1
        /\ \A j \in 1 .. m - 1 + 1 : SubSeq(kv, 1, m)[j] = kv[1 + j - 1]
    BY <2>2, SliceProperties
  <2> HIDE DEF n
  <2> QED
    BY <1>1, <2>1, <2>3
<1>3. /\ up \in Seq(Item) /\ Len(up) = n - m
      /\ \A j \in 1 .. n - m : up[j] = kv[m + j]
  <2>1. up = SubSeq(kv, m + 1, n)
    BY DEF Upper
  <2> HIDE DEF m
  <2>2. n \in Nat /\ m + 1 \in Nat /\ m + 1 >= 1 /\ n <= Len(kv) /\ m + 1 <= n + 1
    BY <1>1
  <2> HIDE DEF n
  <2>3. SubSeq(kv, m + 1, n) \in Seq(Item) /\ Len(SubSeq(kv, m + 1, n)) = n - (m + 1) + 1
        /\ \A j \in 1 .. n - (m + 1) + 1 : SubSeq(kv, m + 1, n)[j] = kv[m + 1 + j - 1]
    BY <2>2, SliceProperties
  <2>4. n - (m + 1) + 1 = n - m
    BY <1>1
  <2>5. ASSUME NEW j \in 1 .. n - m PROVE up[j] = kv[m + j]
    <3>1. m + 1 + j - 1 = m + j
      BY <1>1
    <3> QED
      BY <2>1, <2>3, <2>4, <3>1
  <2> QED
    BY <2>1, <2>3, <2>4, <2>5
<1>4. n = Len(kv) /\ \A j \in 1 .. n : kv[j] \in Item /\ kv[j].key \in Key /\ kv[j].key \in Int
  <2>1. \A j \in 1 .. n : kv[j] \in Item
    BY ElementOfSeq
  <2> QED
    BY <2>1, KeyAssumption DEF Item
<1>5. \A j1, j2 \in 1 .. n : j1 < j2 => kv[j1].key < kv[j2].key
  OBVIOUS
<1> HIDE DEF n, m
<1>6. /\ \A j \in 1 .. m : j \in 1 .. n
      /\ \A j \in 1 .. n - m : m + j \in 1 .. n
      /\ m + (n - m) = n /\ n - m \in Nat /\ n - m >= 1
  BY <1>1
<1>7. /\ \A j1, j2 \in 1 .. m : j1 < j2 => lo[j1].key < lo[j2].key
      /\ \A j1, j2 \in 1 .. n - m : j1 < j2 => up[j1].key < up[j2].key
  <2>1. ASSUME NEW j1 \in 1 .. n - m, NEW j2 \in 1 .. n - m, j1 < j2
        PROVE  up[j1].key < up[j2].key
    <3>1. m + j1 \in 1 .. n /\ m + j2 \in 1 .. n /\ m + j1 < m + j2
      BY <1>1, <2>1
    <3> QED
      BY <3>1, <1>3, <1>5
  <2>2. ASSUME NEW j1 \in 1 .. m, NEW j2 \in 1 .. m, j1 < j2
        PROVE  lo[j1].key < lo[j2].key
    BY <2>2, <1>2, <1>5, <1>6
  <2> QED
    BY <2>1, <2>2
<1>8. /\ MaxKey(lo) = kv[m].key /\ MaxKey(up) = kv[n].key /\ MaxKey(kv) = kv[n].key
      /\ lo[1] = kv[1] /\ up[1] = kv[m + 1]
  <2>1. MaxKey(lo) = lo[m].key /\ MaxKey(up) = up[n - m].key /\ MaxKey(kv) = kv[n].key
    BY <1>2, <1>3, <1>4 DEF MaxKey, Last
  <2>2. m \in 1 .. m /\ 1 \in 1 .. m /\ 1 \in 1 .. n - m /\ n - m \in 1 .. n - m
    BY <1>1
  <2> QED
    BY <2>1, <2>2, <1>2, <1>3, <1>6
<1>9. /\ 1 \in 1 .. n /\ m \in 1 .. n /\ m + 1 \in 1 .. n /\ n \in 1 .. n
      /\ (1 = m \/ 1 < m)
      /\ m < m + 1 /\ (m + 1 = n \/ m + 1 < n)
  BY <1>1
<1>10. /\ kv[1].key <= kv[m].key /\ kv[m].key < kv[m + 1].key /\ kv[m + 1].key <= kv[n].key
  BY <1>1, <1>4, <1>5, <1>9
<1> QED
  BY <1>1, <1>2, <1>3, <1>4, <1>6, <1>7, <1>8, <1>9, <1>10 DEF SplitParts

\* Where the separator of a split block goes: in front of that of its second
\* half, which takes the place of the old one.
LEMMA SplitItems ==
  ASSUME Inv, Ordered, AscendSplit,
         NEW p, p = Parent.blk, NEW i, i = Parent.idx, NEW s, s = node[cur].kv,
         NEW keep, keep = Lower(s),
         NEW mid, mid = UpdatedKeys(node[p], Parent, node[cur]),
         NEW kv, kv = SplitParent
  PROVE  /\ kv \in Seq(Item) /\ Len(kv) = Len(mid) + 1 /\ Len(mid) \in Nat
         /\ i \in 1 .. Len(mid)
         /\ \A j \in 1 .. Len(kv) : j < i => kv[j] = mid[j]
         /\ kv[i] = NewItem(MaxKey(keep), cur)
         /\ kv[i + 1].key = MaxKey(s) /\ kv[i + 1].val = countOfBlock
         /\ \A j \in 1 .. Len(kv) : j > i + 1 => kv[j] = mid[j - 1]
<1> DEFINE n == Len(mid)
           k == MaxKey(keep)
           it == [mid[i] EXCEPT !.val = countOfBlock, !.flag = 1]
           moved == [mid EXCEPT ![i] = it]
           new == NewItem(k, cur)
<1>1. pc = "up" /\ stack # << >> /\ Full(node[cur])
  BY DEF AscendSplit
<1>2. /\ mid \in Seq(Item) /\ i \in 1 .. Len(mid) /\ mid[i].key = MaxKey(s) /\ mid[i].val = cur
      /\ \A j \in 1 .. Len(mid) : j < i => mid[j].key < s[1].key
  <2>1. Raised(p, i, s, mid)
    BY <1>1, RaisedItems
  <2> QED
    BY <2>1 DEF Raised
<1>3. /\ n \in Nat /\ i \in 1 .. n
      /\ \A j \in 1 .. n : mid[j] \in Item /\ mid[j].key \in Int
  <2>1. \A j \in 1 .. n : mid[j] \in Item
    BY <1>2, ElementOfSeq
  <2>2. \A it1 \in Item : it1.key \in Int
    BY KeyAssumption DEF Item
  <2> QED
    BY <1>2, <2>1, <2>2
<1>16. n \in Nat /\ i \in 1 .. n
  BY <1>3
<1>4. /\ s \in Seq(Item) /\ Len(s) >= 2 /\ cur \in DOMAIN node /\ cur \in Nat
      /\ \A j1, j2 \in 1 .. Len(s) : j1 < j2 => s[j1].key < s[j2].key
  BY <1>1, ArgFacts, BlockFacts DEF Inv, Full, Ordered, KeysSorted
<1>5. /\ k \in Key /\ k \in Int /\ MaxKey(s) \in Int /\ s[1].key \in Int
      /\ s[1].key <= k /\ k < MaxKey(s)
  <2> DEFINE up == Upper(s)
  <2>1. /\ k \in Key /\ k \in Int /\ MaxKey(s) \in Int /\ s[1].key \in Int /\ up[1].key \in Int
        /\ s[1].key <= k /\ k < up[1].key /\ up[1].key <= MaxKey(s)
    <3>1. SplitParts(s, Lower(s), up)
      BY <1>4, SplitSorted
    <3> QED
      BY <3>1 DEF SplitParts
  <2> HIDE DEF up, k
  <2> QED
    BY <2>1
<1>6. countOfBlock \in Nat
  BY DEF Inv, TypeOK
<1>7. it \in Item /\ it.key = MaxKey(s) /\ it.val = countOfBlock
  <2>1. mid[i] \in Item /\ mid[i].key = MaxKey(s)
    BY <1>2, <1>3
  <2> QED
    BY <2>1, <1>6 DEF Item
<1> HIDE DEF it
<1>8. /\ moved \in Seq(Item) /\ Len(moved) = n
      /\ \A j \in 1 .. n : moved[j] = IF j = i THEN it ELSE mid[j]
  BY <1>2, <1>3, <1>7, ExceptSeq
<1>9. kv = InsertAt(moved, Lub(moved, k), new)
  BY DEF SplitParent, SplitKeys, moved, it
<1> HIDE DEF moved
<1>10. Lub(moved, k) = i
  <2> DEFINE l == Lub(moved, k)
  <2>1. /\ l \in 1 .. n + 1
        /\ l = n + 1 \/ moved[l].key >= k
        /\ \A j \in 1 .. l - 1 : moved[j].key < k
    BY <1>5, <1>8, LubProperties
  <2> HIDE DEF l, n, k
  <2>2. ~ (l < i)
    <3> SUFFICES ASSUME l < i PROVE FALSE
      OBVIOUS
    <3>1. l \in 1 .. n /\ l # n + 1 /\ l # i
      BY <2>1, <1>16
    <3>2. moved[l].key = mid[l].key /\ mid[l].key < s[1].key /\ mid[l].key \in Int
      BY <3>1, <1>2, <1>3, <1>8 DEF n
    <3> QED
      BY <3>1, <3>2, <2>1, <1>5
  <2>3. ~ (i < l)
    <3> SUFFICES ASSUME i < l PROVE FALSE
      OBVIOUS
    <3>1. i \in 1 .. l - 1
      BY <2>1, <1>16
    <3>2. moved[i].key = MaxKey(s) /\ moved[i].key < k
      BY <3>1, <2>1, <1>3, <1>7, <1>8
    <3> QED
      BY <3>2, <1>5
  <2>4. l \in Int /\ i \in Int
    BY <2>1, <1>16
  <2>5. l = i
    BY <2>2, <2>3, <2>4
  <2> QED
    BY <2>5 DEF l
<1>11. new \in Item
  BY <1>4, <1>5 DEF NewItem, Item
<1> HIDE DEF new, k
<1>12. /\ kv \in Seq(Item) /\ Len(kv) = n + 1
       /\ \A j \in 1 .. n + 1 :
            kv[j] = IF j < i THEN moved[j] ELSE IF j = i THEN new ELSE moved[j - 1]
  <2>1. i \in 1 .. Len(moved) + 1
    BY <1>3, <1>8
  <2>2. /\ InsertAt(moved, i, new) \in Seq(Item) /\ Len(InsertAt(moved, i, new)) = Len(moved) + 1
        /\ \A j \in 1 .. Len(moved) + 1 :
             InsertAt(moved, i, new)[j] = IF j < i THEN moved[j] ELSE IF j = i THEN new ELSE moved[j - 1]
    <3>1. moved \in Seq(Item) /\ new \in Item
      BY <1>8, <1>11
    <3>2. IsInsert(InsertAt(moved, i, new), moved, i, new)
      BY <3>1, <2>1, ItemInserted
    <3> QED
      BY <3>2 DEF IsInsert
  <2>3. kv = InsertAt(moved, i, new)
    BY <1>9, <1>10
  <2> QED
    BY <2>2, <2>3, <1>8
<1> HIDE DEF n
<1>13. ASSUME NEW j \in 1 .. n + 1
       PROVE  /\ j < i => kv[j] = mid[j]
              /\ j > i + 1 => kv[j] = mid[j - 1]
  <2>1. ASSUME j < i PROVE kv[j] = mid[j]
    <3>1. j \in 1 .. n /\ j # i
      BY <2>1, <1>3
    <3> QED
      BY <2>1, <3>1, <1>8, <1>12
  <2>2. ASSUME j > i + 1 PROVE kv[j] = mid[j - 1]
    <3>1. j - 1 \in 1 .. n /\ j - 1 # i /\ ~ (j < i) /\ j # i
      BY <2>2, <1>3
    <3> QED
      BY <3>1, <1>8, <1>12
  <2> QED
    BY <2>1, <2>2
<1>14. kv[i] = new
  BY <1>3, <1>12
<1>15. kv[i + 1] = it
  <2>1. i + 1 \in 1 .. n + 1 /\ ~ (i + 1 < i) /\ i + 1 # i /\ i + 1 - 1 = i
    BY <1>3
  <2> QED
    BY <2>1, <1>3, <1>8, <1>12
<1> QED
  BY <1>3, <1>7, <1>12, <1>13, <1>14, <1>15 DEF n, new, k

LEMMA AscendSplitOrdered ==
  ASSUME Inv, Ordered, AscendSplit
  PROVE  Ordered'
<1> DEFINE p == Parent.blk
           i == Parent.idx
           next == countOfBlock
           son == node[cur]
           s == son.kv
           keep == Lower(s)
           up == Upper(s)
           mid == UpdatedKeys(node[p], Parent, son)
           kv == SplitParent
           m == Len(keep)
           n == Len(mid)
<1>1. /\ pc = "up" /\ stack # << >> /\ Full(son) /\ root' = root
      /\ stack' = Front(stack) /\ pc' = "up"
  BY DEF AscendSplit
<1>2. /\ p \in DOMAIN node /\ ~ node[p].leaf /\ cur \in DOMAIN node /\ cur # p
      /\ node[p].level \in Nat /\ node[p].level = son.level + 1 /\ son.level \in Nat
      /\ root \in DOMAIN node /\ root # cur /\ p # 0 /\ cur # 0
  <2>1. /\ p \in DOMAIN node /\ ~ node[p].leaf /\ node[p].level = son.level + 1
        /\ cur \in DOMAIN node /\ root # cur
    BY <1>1, PathFacts, ArgFacts
  <2>2. node[p].level \in Nat /\ son.level \in Nat /\ p # 0 /\ cur # 0
    BY <2>1, BlockFacts DEF Inv
  <2>3. root \in DOMAIN node
    BY DEF Inv, TypeOK
  <2> QED
    BY <2>1, <2>2, <2>3
<1>3. /\ mid \in Seq(Item) /\ n = Len(node[p].kv)
      /\ i \in 1 .. n /\ mid[i].key = MaxKey(s) /\ mid[i].val = cur
      /\ \A j \in 1 .. n : mid[j].val = node[p].kv[j].val
      /\ \A j \in 1 .. n : j # i => mid[j] = node[p].kv[j]
      /\ \A j \in 1 .. n : j < i => mid[j].key < s[1].key
      /\ \A j \in 1 .. n : j > i => MaxKey(s) < mid[j].key
      /\ \A c \in DOMAIN node : node[c].next = p /\ i = 1 => MaxKey(node[c].kv) < s[1].key
      /\ i = n /\ node[p].next # 0 => MaxKey(s) < node[node[p].next].kv[1].key
      /\ MaxKey(mid) = MaxKey(node[p].kv) \/ (Parent.max /\ i = n)
  <2>1. Raised(p, i, s, mid)
    BY <1>1, RaisedItems
  <2> QED
    BY <2>1 DEF Raised
<1>4. /\ kv \in Seq(Item) /\ Len(kv) = n + 1 /\ n \in Nat
      /\ \A j \in 1 .. Len(kv) : j < i => kv[j] = mid[j]
      /\ kv[i].key = MaxKey(keep) /\ kv[i].val = cur
      /\ kv[i + 1].key = MaxKey(s) /\ kv[i + 1].val = next
      /\ \A j \in 1 .. Len(kv) : j > i + 1 => kv[j] = mid[j - 1]
  <2>1. /\ p = Parent.blk /\ i = Parent.idx /\ s = node[cur].kv /\ keep = Lower(s)
        /\ mid = UpdatedKeys(node[p], Parent, node[cur]) /\ kv = SplitParent
    OBVIOUS
  <2> HIDE DEF p, i, s, keep, mid, kv
  <2>2. /\ kv \in Seq(Item) /\ Len(kv) = Len(mid) + 1 /\ Len(mid) \in Nat
        /\ \A j \in 1 .. Len(kv) : j < i => kv[j] = mid[j]
        /\ kv[i] = NewItem(MaxKey(keep), cur)
        /\ kv[i + 1].key = MaxKey(s) /\ kv[i + 1].val = countOfBlock
        /\ \A j \in 1 .. Len(kv) : j > i + 1 => kv[j] = mid[j - 1]
    BY <2>1, SplitItems, SMTT(20)
  <2>3. kv[i].key = MaxKey(keep) /\ kv[i].val = cur
    BY <2>2 DEF NewItem
  <2> QED
    BY <2>2, <2>3
<1>5. /\ s \in Seq(Item) /\ Len(s) >= 2
      /\ \A j1, j2 \in 1 .. Len(s) : j1 < j2 => s[j1].key < s[j2].key
  BY <1>1, <1>2, BlockFacts DEF Inv, Full, Ordered, KeysSorted
<1>6. /\ m \in Nat /\ m >= 1 /\ Len(up) \in Nat /\ Len(up) >= 1
      /\ Len(s) \in Nat /\ m + Len(up) = Len(s)
      /\ \A j \in 1 .. m : j \in 1 .. Len(s) /\ keep[j] = s[j]
      /\ \A j \in 1 .. Len(up) : m + j \in 1 .. Len(s) /\ up[j] = s[m + j]
      /\ \A j1, j2 \in 1 .. m : j1 < j2 => keep[j1].key < keep[j2].key
      /\ \A j1, j2 \in 1 .. Len(up) : j1 < j2 => up[j1].key < up[j2].key
      /\ keep[1] = s[1] /\ MaxKey(up) = MaxKey(s)
      /\ MaxKey(keep) \in Int /\ MaxKey(s) \in Int
      /\ s[1].key \in Int /\ s[1].key <= MaxKey(keep)
      /\ up[1].key \in Int /\ MaxKey(keep) < up[1].key /\ up[1].key <= MaxKey(s)
  <2>1. keep = Lower(s) /\ up = Upper(s)
    OBVIOUS
  <2> HIDE DEF s, keep, up
  <2>2. SplitParts(s, keep, up)
    BY <1>5, <2>1, SplitSorted
  <2> QED
    BY <2>2 DEF SplitParts
<1>7. /\ next \notin DOMAIN node /\ next # 0 /\ next # cur /\ next # p
      /\ DOMAIN node' = DOMAIN node \cup {next}
      /\ node'[next].leaf = son.leaf /\ node'[next].kv = up
      /\ node'[next].next = son.next /\ node'[next].level = son.level
      /\ node'[cur].leaf = son.leaf /\ node'[cur].kv = keep
      /\ node'[cur].next = next /\ node'[cur].level = son.level
      /\ node'[p].leaf = node[p].leaf /\ node'[p].kv = kv
      /\ node'[p].next = node[p].next /\ node'[p].level = node[p].level
      /\ \A b \in DOMAIN node \ {cur, p} :
           /\ node'[b].leaf = node[b].leaf /\ node'[b].kv = node[b].kv
           /\ node'[b].next = node[b].next /\ node'[b].level = node[b].level
  BY <1>2, SplitBlocks
<1>8. i \in 1 .. n /\ n \in Nat
  BY <1>3, <1>4
<1> HIDE DEF kv, mid, keep, up, m, n, i, s, p, next, son
<1>9. i \in 1 .. n + 1 /\ i + 1 \in 1 .. n + 1
  BY <1>8
\* The other children of the parent
<1>10. ASSUME NEW j \in 1 .. n, j # i
       PROVE  node[p].kv[j].val \in DOMAIN node \ {cur, p}
  <2>1. node[p].kv[i].val = cur /\ j \in 1 .. Len(node[p].kv) /\ i \in 1 .. Len(node[p].kv)
    BY <1>3, <1>8, <1>10
  <2>2. node[p].kv[j].val # cur
    BY <2>1, <1>2, <1>10 DEF Ordered, OneParent
  <2>3. node[p].kv[j].val \in DOMAIN node /\ node[p].kv[j].val # p
    BY <2>1, <1>2, SonFacts
  <2> QED
    BY <2>2, <2>3
\* The children of the other blocks
<1>11. ASSUME NEW q \in DOMAIN node, q # p, ~ node[q].leaf, NEW j \in 1 .. Len(node[q].kv)
       PROVE  node[q].kv[j].val \in DOMAIN node \ {cur}
  <2>1. node[p].kv[i].val = cur /\ i \in 1 .. Len(node[p].kv)
    BY <1>3, <1>8
  <2>2. node[q].kv[j].val # cur
    BY <2>1, <1>2, <1>11 DEF Ordered, OneParent
  <2>3. node[q].kv[j].val \in DOMAIN node
    BY <1>11, SonFacts
  <2> QED
    BY <2>2, <2>3
<1>12. PutInRange'
  <2>1. ASSUME NEW b \in DOMAIN node, node[b].level > node[p].level
        PROVE  node'[b].kv = node[b].kv /\ node'[b].next = node[b].next
    <3>1. b # cur /\ b # p
      BY <2>1, <1>2 DEF son
    <3> QED
      BY <3>1, <1>7
  <2> QED
    BY <1>1, <2>1, FramesLeft DEF p
<1>13. ASSUME NEW b \in DOMAIN node'
       PROVE  b = next \/ b = cur \/ b = p \/ b \in DOMAIN node \ {cur, p}
  BY <1>7
\* What the items of the parent are after the split
<1>14. /\ \A j \in 1 .. n : j < i => j \in 1 .. n + 1 /\ kv[j] = node[p].kv[j] /\ kv[j].key < s[1].key
                                    /\ kv[j].key \in Int
       /\ \A j \in 1 .. n : j > i => j + 1 \in 1 .. n + 1 /\ kv[j + 1] = node[p].kv[j]
                                    /\ MaxKey(s) < kv[j + 1].key /\ kv[j + 1].key \in Int
       /\ \A j \in 1 .. n + 1 : j < i \/ j = i \/ j = i + 1 \/ (j > i + 1 /\ j - 1 \in 1 .. n /\ j - 1 > i)
       /\ n \in 1 .. n /\ n = Len(node[p].kv)
  <2>1. \A j \in 1 .. n : j # i => mid[j] = node[p].kv[j]
    BY <1>3 DEF n
  <2>2. \A j \in 1 .. n : node[p].kv[j].key \in Int
    BY <1>2, <1>3, KeyFacts DEF n
  <2>3. ASSUME NEW j \in 1 .. n, j < i
        PROVE  /\ j \in 1 .. n + 1 /\ kv[j] = node[p].kv[j] /\ kv[j].key < s[1].key
               /\ kv[j].key \in Int
    <3>1. j \in 1 .. n + 1 /\ j # i
      BY <2>3, <1>8
    <3>2. kv[j] = mid[j] /\ mid[j] = node[p].kv[j] /\ mid[j].key < s[1].key
      BY <3>1, <2>1, <2>3, <1>3, <1>4
    <3> QED
      BY <3>1, <3>2, <2>2
  <2>4. ASSUME NEW j \in 1 .. n, j > i
        PROVE  /\ j + 1 \in 1 .. n + 1 /\ kv[j + 1] = node[p].kv[j]
               /\ MaxKey(s) < kv[j + 1].key /\ kv[j + 1].key \in Int
    <3>1. j + 1 \in 1 .. n + 1 /\ j # i /\ j + 1 > i + 1 /\ j + 1 - 1 = j
      BY <2>4, <1>8
    <3>2. kv[j + 1] = mid[j]
      <4>1. kv[j + 1] = mid[j + 1 - 1]
        BY <3>1, <1>4
      <4> QED
        BY <4>1, <3>1
    <3>3. mid[j] = node[p].kv[j] /\ MaxKey(s) < mid[j].key
      BY <3>1, <2>1, <2>4, <1>3
    <3> QED
      BY <3>1, <3>2, <3>3, <2>2
  <2>5. \A j \in 1 .. n + 1 : j < i \/ j = i \/ j = i + 1 \/ (j > i + 1 /\ j - 1 \in 1 .. n /\ j - 1 > i)
    BY <1>8
  <2>6. n \in 1 .. n /\ n = Len(node[p].kv)
    BY <1>3, <1>8
  <2> QED
    BY <2>3, <2>4, <2>5, <2>6
\* The bounds of the parent
<1>15. /\ MaxKey(kv) = MaxKey(node[p].kv) \/ (Parent.max /\ i = n)
       /\ i = n => MaxKey(kv) = MaxKey(s)
  <2>1. MaxKey(kv) = kv[n + 1].key /\ MaxKey(node[p].kv) = node[p].kv[n].key /\ MaxKey(mid) = mid[n].key
    BY <1>4, <1>14, KeyFacts, <1>2 DEF MaxKey, Last, n
  <2>2. CASE i = n
    BY <2>1, <2>2, <1>3, <1>4
  <2>3. CASE i # n
    <3>1. n > i
      BY <2>3, <1>8
    <3> QED
      BY <2>1, <2>3, <3>1, <1>14
  <2> QED
    BY <2>2, <2>3
<1>16. \A j1, j2 \in 1 .. n + 1 : j1 < j2 => kv[j1].key < kv[j2].key
  <2>1. \A j1, j2 \in 1 .. n : j1 < j2 => node[p].kv[j1].key < node[p].kv[j2].key
    BY <1>2, <1>14 DEF Ordered, KeysSorted
  <2>2. SUFFICES ASSUME NEW j1 \in 1 .. n + 1, NEW j2 \in 1 .. n + 1, j1 < j2
                 PROVE  kv[j1].key < kv[j2].key
    OBVIOUS
  <2>3. CASE j1 < i
    <3>1. j1 \in 1 .. n /\ kv[j1] = node[p].kv[j1] /\ kv[j1].key < s[1].key /\ kv[j1].key \in Int
      <4>1. j1 \in 1 .. n
        BY <2>2, <2>3, <1>8
      <4> QED
        BY <4>1, <2>3, <1>14
    <3>2. CASE j2 < i
      <4>1. j2 \in 1 .. n
        BY <3>2, <1>8
      <4>2. kv[j2] = node[p].kv[j2]
        BY <3>2, <4>1, <1>14
      <4>3. node[p].kv[j1].key < node[p].kv[j2].key
        BY ONLY <2>1, <2>2, <3>1, <4>1
      <4> QED
        BY ONLY <3>1, <4>2, <4>3
    <3>3. CASE j2 = i \/ j2 = i + 1
      <4>1. kv[j2].key = MaxKey(keep) \/ kv[j2].key = MaxKey(s)
        BY <3>3, <1>4
      <4>2. s[1].key <= MaxKey(s)
        BY <1>6
      <4> QED
        BY <3>1, <4>1, <4>2, <1>6, SMTT(20)
    <3>4. CASE j2 > i + 1 /\ j2 - 1 \in 1 .. n /\ j2 - 1 > i
      <4>1. MaxKey(s) < kv[j2 - 1 + 1].key /\ kv[j2 - 1 + 1].key \in Int /\ j2 - 1 + 1 = j2
        BY <3>4, <1>14
      <4> QED
        BY <3>1, <4>1, <1>6, SMTT(30)
    <3> QED
      BY <3>2, <3>3, <3>4, <1>14
  <2>4. CASE j1 = i
    <3>1. CASE j2 = i + 1
      BY <2>4, <3>1, <1>4, <1>6
    <3>2. CASE j2 > i + 1 /\ j2 - 1 \in 1 .. n /\ j2 - 1 > i
      <4>1. MaxKey(s) < kv[j2 - 1 + 1].key /\ kv[j2 - 1 + 1].key \in Int /\ j2 - 1 + 1 = j2
        BY <3>2, <1>14
      <4> QED
        BY <2>4, <4>1, <1>4, <1>6
    <3> QED
      BY <2>2, <2>4, <3>1, <3>2, <1>8, <1>14
  <2>5. CASE j1 = i + 1
    <3>1. j2 > i + 1 /\ j2 - 1 \in 1 .. n /\ j2 - 1 > i
      BY <2>2, <2>5, <1>8
    <3>2. MaxKey(s) < kv[j2 - 1 + 1].key /\ kv[j2 - 1 + 1].key \in Int /\ j2 - 1 + 1 = j2
      BY <3>1, <1>14
    <3> QED
      BY <2>5, <3>2, <1>4
  <2>6. CASE j1 > i + 1 /\ j1 - 1 \in 1 .. n /\ j1 - 1 > i
    <3>1. j2 - 1 \in 1 .. n /\ j2 - 1 > i /\ j1 - 1 < j2 - 1 /\ j1 - 1 + 1 = j1 /\ j2 - 1 + 1 = j2
      BY <2>2, <2>6, <1>8
    <3>2. kv[j1] = node[p].kv[j1 - 1] /\ kv[j2] = node[p].kv[j2 - 1]
      BY <2>6, <3>1, <1>14
    <3> QED
      BY <2>1, <2>6, <3>1, <3>2
  <2> QED
    BY <2>3, <2>4, <2>5, <2>6, <1>14
\* The first item of a block
<1>17. ASSUME NEW c \in DOMAIN node, node[c].kv # << >>
       PROVE  /\ node'[c].kv[1].val = node[c].kv[1].val
              /\ c # p => node'[c].kv[1] = node[c].kv[1]
  <2>1. CASE c = cur
    BY <2>1, <1>2, <1>6, <1>7 DEF s, son
  <2>2. CASE c = p
    <3>1. CASE i = 1
      BY <2>2, <3>1, <1>3, <1>4, <1>7, <1>8 DEF n
    <3>2. CASE i # 1
      <4>1. 1 \in 1 .. n /\ 1 < i
        BY <3>2, <1>8
      <4> QED
        BY <2>2, <4>1, <1>7, <1>14
    <3> QED
      BY <3>1, <3>2
  <2>3. CASE c \in DOMAIN node \ {cur, p}
    BY <2>3, <1>7
  <2> QED
    BY <2>1, <2>2, <2>3
<1>18. KeysSorted'
  <2>1. ASSUME NEW b \in DOMAIN node', NEW j1 \in 1 .. Len(node'[b].kv),
               NEW j2 \in 1 .. Len(node'[b].kv), j1 < j2
        PROVE  node'[b].kv[j1].key < node'[b].kv[j2].key
    <3>1. CASE b = next
      BY <2>1, <3>1, <1>6, <1>7
    <3>2. CASE b = cur
      BY <2>1, <3>2, <1>6, <1>7 DEF m
    <3>3. CASE b = p
      BY <2>1, <3>3, <1>4, <1>7, <1>16
    <3>4. CASE b \in DOMAIN node \ {cur, p}
      BY <2>1, <3>4, <1>7 DEF Ordered, KeysSorted
    <3> QED
      BY <1>13, <3>1, <3>2, <3>3, <3>4
  <2>2. ASSUME NEW b \in DOMAIN node', node'[b].next # 0
        PROVE  MaxKey(node'[b].kv) < node'[node'[b].next].kv[1].key
    <3>1. CASE b = next
      <4>1. /\ son.next # 0 /\ son.next \in DOMAIN node \ {cur, p} /\ node'[b].next = son.next
            /\ MaxKey(s) < node[son.next].kv[1].key
        <5>1. son.next # 0 /\ node'[b].next = son.next
          BY <2>2, <3>1, <1>7
        <5>2. /\ node[cur].next \in DOMAIN node /\ node[node[cur].next].level = node[cur].level
              /\ node[cur].next # cur /\ MaxKey(node[cur].kv) < node[node[cur].next].kv[1].key
          BY <5>1, <1>2, NextFacts DEF son
        <5>3. node[cur].next # p
          BY <5>2, <1>2 DEF son
        <5> QED
          BY <5>1, <5>2, <5>3 DEF s, son
      <4>2. MaxKey(node'[b].kv) = MaxKey(s) /\ node'[son.next].kv = node[son.next].kv
        BY <3>1, <4>1, <1>6, <1>7
      <4> QED
        BY <4>1, <4>2
    <3>2. CASE b = cur
      BY <3>2, <1>6, <1>7
    <3>3. CASE b = p
      <4> DEFINE c == node[p].next
      <4>1. node'[b].next = c /\ c # 0
        BY <2>2, <3>3, <1>7
      <4>2. /\ c \in DOMAIN node /\ c # p /\ node[c].kv # << >>
            /\ MaxKey(node[p].kv) < node[c].kv[1].key
        BY <4>1, <1>2, NextFacts
      <4>3. MaxKey(kv) < node[c].kv[1].key
        <5>1. CASE i = n
          BY <4>1, <5>1, <1>3, <1>15
        <5>2. CASE i # n
          BY <4>2, <5>2, <1>15
        <5> QED
          BY <5>1, <5>2
      <4>4. node'[c].kv[1] = node[c].kv[1]
        BY <4>2, <1>17
      <4> QED
        BY <3>3, <4>1, <4>3, <4>4, <1>7
    <3>4. CASE b \in DOMAIN node \ {cur, p}
      <4> DEFINE c == node[b].next
      <4>1. node'[b].next = c /\ c # 0 /\ node'[b].kv = node[b].kv
        BY <2>2, <3>4, <1>7
      <4>2. /\ c \in DOMAIN node /\ node[c].kv # << >> /\ node[b].kv # << >>
            /\ MaxKey(node[b].kv) < node[c].kv[1].key
        BY <3>4, <4>1, NextFacts
      <4>3. CASE c # p
        <5>1. node'[c].kv[1] = node[c].kv[1]
          BY <4>2, <4>3, <1>17
        <5> QED
          BY <4>1, <4>2, <5>1
      <4>4. CASE c = p
        <5>1. CASE i = 1
          <6>1. MaxKey(node[b].kv) < s[1].key
            BY <3>4, <4>4, <5>1, <1>3
          <6>2. MaxKey(node[b].kv) \in Int
            BY <3>4, <4>2, KeyFacts
          <6>3. node'[c].kv[1].key = MaxKey(keep)
            BY <4>4, <5>1, <1>4, <1>7
          <6> QED
            BY <4>1, <6>1, <6>2, <6>3, <1>6
        <5>2. CASE i # 1
          <6>1. 1 \in 1 .. n /\ 1 < i
            BY <5>2, <1>8
          <6>2. node'[c].kv[1] = node[p].kv[1]
            BY <4>4, <6>1, <1>7, <1>14
          <6> QED
            BY <4>1, <4>2, <4>4, <6>2
        <5> QED
          BY <5>1, <5>2
      <4> QED
        BY <4>3, <4>4
    <3> QED
      BY <1>13, <3>1, <3>2, <3>3, <3>4
  <2> QED
    BY <2>1, <2>2 DEF KeysSorted
\* The separators of the blocks other than the parent
<1>19. ASSUME NEW q \in DOMAIN node, q # p, ~ node[q].leaf, NEW j \in 1 .. Len(node[q].kv),
              NEW x, NEW k, node'[x].kv[k] = node[q].kv[j],
              pc' = "up" /\ Parent.max /\ node[q].kv[j].val = p => StaleSeparator(x, k)'
       PROVE  \/ StaleSeparator(x, k)'
              \/ node'[x].kv[k].key = MaxKey(node'[node'[x].kv[k].val].kv)
  <2> DEFINE c == node[q].kv[j].val
  <2>1. c \in DOMAIN node \ {cur}
    BY <1>19, <1>11
  <2>2. node[q].kv[j].key = MaxKey(node[c].kv)
    BY <1>19 DEF Ordered, SeparatorsExact, StaleSeparator, p
  <2>3. CASE c # p
    BY <2>1, <2>2, <2>3, <1>7, <1>19
  <2>4. CASE c = p
    <3>1. CASE Parent.max
      BY <2>4, <3>1, <1>1, <1>19
    <3>2. CASE ~ Parent.max
      BY <2>2, <2>4, <3>2, <1>7, <1>15, <1>19
    <3> QED
      BY <3>1, <3>2
  <2> QED
    BY <2>3, <2>4
<1>20. SeparatorsExact'
  <2>1. SUFFICES ASSUME NEW b \in DOMAIN node', ~ node'[b].leaf, NEW j \in 1 .. Len(node'[b].kv)
                 PROVE  \/ StaleSeparator(b, j)'
                        \/ node'[b].kv[j].key = MaxKey(node'[node'[b].kv[j].val].kv)
    BY DEF SeparatorsExact
  <2>2. ~ node[cur].leaf => \A l \in 1 .. Len(s) : s[l].val # p
    <3>1. SUFFICES ASSUME ~ node[cur].leaf, NEW l \in 1 .. Len(s)
                   PROVE  s[l].val # p
      OBVIOUS
    <3>2. node[s[l].val].level + 1 = son.level /\ s[l].val \in DOMAIN node
      BY <3>1, <1>2, SonFacts DEF s, son
    <3>3. node[s[l].val].level \in Nat
      BY <3>2, BlockFacts DEF Inv
    <3> QED
      BY <3>2, <3>3, <1>2
  <2>3. CASE b = next
    <3>1. ~ node[cur].leaf /\ m + j \in 1 .. Len(s) /\ node'[b].kv[j] = s[m + j] /\ s[m + j].val # p
      BY <2>1, <2>2, <2>3, <1>6, <1>7 DEF son
    <3> QED
      BY <3>1, <1>2, <1>19, SMTT(30) DEF s, son
  <2>4. CASE b = cur
    <3>1. ~ node[cur].leaf /\ j \in 1 .. Len(s) /\ node'[b].kv[j] = s[j] /\ s[j].val # p
      BY <2>1, <2>2, <2>4, <1>6, <1>7 DEF son, m
    <3> QED
      BY <3>1, <1>2, <1>19 DEF s, son
  <2>5. CASE b \in DOMAIN node \ {cur, p}
    <3>1. ~ node[b].leaf /\ j \in 1 .. Len(node[b].kv) /\ node'[b].kv[j] = node[b].kv[j]
      BY <2>1, <2>5, <1>7
    <3>2. pc' = "up" /\ Parent.max /\ node[b].kv[j].val = p => StaleSeparator(b, j)'
      BY <3>1, <2>5, <1>1, SeparatorAbove DEF p
    <3> QED
      BY <2>5, <3>1, <3>2, <1>19
  <2>6. CASE b = p
    <3>1. j \in 1 .. n + 1 /\ node'[b].kv = kv
      BY <2>1, <2>6, <1>4, <1>7
    <3>2. ASSUME NEW l \in 1 .. n, l # i, kv[j] = node[p].kv[l]
          PROVE  kv[j].key = MaxKey(node'[kv[j].val].kv)
      <4>1. node[p].kv[l].val \in DOMAIN node \ {cur, p}
        BY <3>2, <1>10
      <4>2. node[p].kv[l].key = MaxKey(node[node[p].kv[l].val].kv)
        BY <3>2, <1>2, <1>14 DEF Ordered, SeparatorsExact, StaleSeparator, i
      <4> QED
        BY <3>2, <4>1, <4>2, <1>7
    <3>3. CASE j < i
      <4>1. j \in 1 .. n /\ j # i
        BY <3>1, <3>3, <1>8
      <4> QED
        BY <2>6, <3>1, <3>2, <3>3, <4>1, <1>14
    <3>4. CASE j = i
      BY <2>6, <3>1, <3>4, <1>4, <1>7
    <3>5. CASE j = i + 1
      BY <2>6, <3>1, <3>5, <1>4, <1>6, <1>7
    <3>6. CASE j > i + 1 /\ j - 1 \in 1 .. n /\ j - 1 > i
      <4>1. kv[j - 1 + 1] = node[p].kv[j - 1] /\ j - 1 + 1 = j /\ j - 1 # i
        BY <3>1, <3>6, <1>8, <1>14
      <4> QED
        BY <2>6, <3>1, <3>2, <3>6, <4>1
    <3> QED
      BY <3>1, <3>3, <3>4, <3>5, <3>6, <1>14
  <2> QED
    BY <1>13, <2>3, <2>4, <2>5, <2>6
\* The first child of the next block of a level
<1>21. ASSUME NEW q \in DOMAIN node, ~ node[q].leaf, node[q].next # 0
       PROVE  /\ node[q].next \in DOMAIN node
              /\ node'[node[q].next].kv[1].val = node[node[q].next].kv[1].val
  <2>1. node[q].next \in DOMAIN node /\ node[node[q].next].kv # << >>
    BY <1>21, NextFacts
  <2> QED
    BY <2>1, <1>17
<1>22. ChildrenLinked'
  <2>1. SUFFICES ASSUME NEW b \in DOMAIN node', ~ node'[b].leaf, NEW j \in 1 .. Len(node'[b].kv)
                 PROVE  node'[node'[b].kv[j].val].next =
                          IF j < Len(node'[b].kv) THEN node'[b].kv[j + 1].val
                          ELSE IF node'[b].next = 0 THEN 0 ELSE node'[node'[b].next].kv[1].val
    BY DEF ChildrenLinked
  <2>2. ASSUME NEW q \in DOMAIN node, q # p, ~ node[q].leaf, NEW l \in 1 .. Len(node[q].kv)
        PROVE  node'[node[q].kv[l].val].next =
                 IF l < Len(node[q].kv) THEN node[q].kv[l + 1].val
                 ELSE IF node[q].next = 0 THEN 0 ELSE node[node[q].next].kv[1].val
    <3>1. node[q].kv[l].val \in DOMAIN node \ {cur}
      BY <2>2, <1>11
    <3>2. node[node[q].kv[l].val].next =
                 IF l < Len(node[q].kv) THEN node[q].kv[l + 1].val
                 ELSE IF node[q].next = 0 THEN 0 ELSE node[node[q].next].kv[1].val
      BY <2>2, SonFacts
    <3>3. node'[node[q].kv[l].val].next = node[node[q].kv[l].val].next
      BY <3>1, <1>7
    <3> QED
      BY <3>2, <3>3
  <2>3. CASE b = next
    <3>1. /\ ~ node[cur].leaf /\ m + j \in 1 .. Len(s) /\ node'[b].kv[j] = s[m + j]
          /\ Len(node'[b].kv) = Len(up) /\ node'[b].next = node[cur].next
      BY <2>1, <2>3, <1>6, <1>7 DEF son
    <3>2. node'[s[m + j].val].next =
            IF m + j < Len(s) THEN s[m + j + 1].val
            ELSE IF node[cur].next = 0 THEN 0 ELSE node[node[cur].next].kv[1].val
      BY <3>1, <2>2, <1>2 DEF s, son
    <3>3. CASE j < Len(up)
      <4>1. j \in 1 .. Len(up) /\ j + 1 \in 1 .. Len(up) /\ m + j < Len(s) /\ m + (j + 1) = m + j + 1
        BY <2>1, <2>3, <3>3, <1>6, <1>7
      <4>2. node'[b].kv[j + 1] = s[m + j + 1]
        BY <4>1, <2>3, <1>6, <1>7
      <4> QED
        BY <3>1, <3>2, <3>3, <4>1, <4>2
    <3>4. CASE ~ (j < Len(up))
      <4>1. j \in 1 .. Len(up) /\ ~ (m + j < Len(s))
        BY <2>1, <2>3, <3>4, <1>6, <1>7
      <4> QED
        BY <3>1, <3>2, <3>4, <4>1, <1>2, <1>21
    <3> QED
      BY <3>3, <3>4
  <2>4. CASE b = cur
    <3>1. /\ ~ node[cur].leaf /\ j \in 1 .. m /\ j \in 1 .. Len(s) /\ node'[b].kv[j] = s[j]
          /\ Len(node'[b].kv) = m /\ node'[b].next = next
      BY <2>1, <2>4, <1>6, <1>7 DEF son, m
    <3>2. j < Len(s)
      BY <3>1, <1>6
    <3>3. node'[s[j].val].next = s[j + 1].val
      BY <3>1, <3>2, <2>2, <1>2 DEF s, son
    <3>4. CASE j < m
      <4>1. j + 1 \in 1 .. m
        BY <3>1, <3>4, <1>6
      <4>2. node'[b].kv[j + 1] = s[j + 1]
        BY <4>1, <2>4, <1>6, <1>7
      <4> QED
        BY <3>1, <3>3, <3>4, <4>2
    <3>5. CASE ~ (j < m)
      <4>1. j = m /\ 1 \in 1 .. Len(up)
        BY <3>1, <3>5, <1>6
      <4>2. node'[next].kv[1] = s[j + 1]
        BY <4>1, <1>6, <1>7
      <4> QED
        BY <3>1, <3>3, <3>5, <4>2, <1>7
    <3> QED
      BY <3>4, <3>5
  <2>5. CASE b \in DOMAIN node \ {cur, p}
    <3>1. /\ ~ node[b].leaf /\ j \in 1 .. Len(node[b].kv) /\ node'[b].kv = node[b].kv
          /\ node'[b].next = node[b].next
      BY <2>1, <2>5, <1>7
    <3> QED
      BY <3>1, <2>2, <2>5, <1>21
  <2>6. CASE b = p
    <3>1. /\ j \in 1 .. n + 1 /\ node'[b].kv = kv /\ Len(node'[b].kv) = n + 1
          /\ node'[b].next = node[p].next
      BY <2>1, <2>6, <1>4, <1>7
    <3>2. \A l \in 1 .. n : node[node[p].kv[l].val].next =
            IF l < n THEN node[p].kv[l + 1].val
            ELSE IF node[p].next = 0 THEN 0 ELSE node[node[p].next].kv[1].val
      BY <1>2, <1>14, SonFacts
    <3>3. \A l \in 1 .. n : l # i => node'[node[p].kv[l].val].next = node[node[p].kv[l].val].next
      BY <1>7, <1>10
    <3>4. CASE j < i
      <4>1. j \in 1 .. n /\ j # i /\ j < n /\ j < n + 1 /\ j + 1 \in 1 .. n /\ (j + 1 < i \/ j + 1 = i)
        BY <3>1, <3>4, <1>8
      <4>2. kv[j] = node[p].kv[j] /\ node'[kv[j].val].next = node[p].kv[j + 1].val
        BY <3>2, <3>3, <3>4, <4>1, <1>14
      <4>3. kv[j + 1].val = node[p].kv[j + 1].val
        BY <4>1, <1>3, <1>4, <1>8, <1>14, SMTT(30)
      <4> QED
        BY <2>6, <3>1, <4>1, <4>2, <4>3
    <3>5. CASE j = i
      <4>1. j < n + 1
        BY <3>5, <1>8
      <4> QED
        BY <2>6, <3>1, <3>5, <4>1, <1>4, <1>7
    <3>6. CASE j = i + 1
      <4>1. node'[kv[j].val].next = node[node[p].kv[i].val].next
        BY <3>6, <1>3, <1>4, <1>7, <1>8, SMTT(30) DEF son
      <4>2. CASE i < n
        <5>1. i + 1 \in 1 .. n /\ i + 1 > i /\ j < n + 1
          BY <3>6, <4>2, <1>8
        <5>2. kv[j + 1] = node[p].kv[i + 1]
          BY <3>6, <5>1, <1>14
        <5> QED
          BY <2>6, <3>1, <3>2, <4>1, <4>2, <5>1, <5>2, <1>8
      <4>3. CASE ~ (i < n)
        <5>1. ~ (j < n + 1)
          BY <3>6, <4>3, <1>8
        <5> QED
          BY <2>6, <3>1, <3>2, <4>1, <4>3, <5>1, <1>2, <1>8, <1>21
      <4> QED
        BY <4>2, <4>3
    <3>7. CASE j > i + 1 /\ j - 1 \in 1 .. n /\ j - 1 > i
      <4> DEFINE l == j - 1
      <4>1. l \in 1 .. n /\ l > i /\ l # i /\ j = l + 1
        BY <3>7, <1>8
      <4> HIDE DEF l
      <4>2. node'[kv[j].val].next = node[node[p].kv[l].val].next
        BY <4>1, <3>3, <1>14
      <4>3. CASE l < n
        <5>1. l + 1 \in 1 .. n /\ l + 1 > i /\ j < n + 1
          BY <4>1, <4>3, <1>8
        <5>2. kv[j + 1] = node[p].kv[l + 1]
          BY <4>1, <5>1, <1>14
        <5> QED
          BY <2>6, <3>1, <3>2, <4>1, <4>2, <4>3, <5>1, <5>2
      <4>4. CASE ~ (l < n)
        <5>1. ~ (j < n + 1)
          BY <4>1, <4>4, <1>8
        <5> QED
          BY <2>6, <3>1, <3>2, <4>1, <4>2, <4>4, <5>1, <1>2, <1>21
      <4> QED
        BY <4>3, <4>4
    <3> QED
      BY <3>1, <3>4, <3>5, <3>6, <3>7, <1>14
  <2> QED
    BY <1>13, <2>3, <2>4, <2>5, <2>6
\* Where an item of an interior block was before the split
<1> DEFINE Origin(b, j, q, l) ==
             \/ b = next /\ q = cur /\ l = m + j
             \/ b = cur /\ q = cur /\ l = j /\ j <= m
             \/ b = p /\ q = p /\ l = j /\ j <= i
             \/ b = p /\ q = p /\ l = j - 1 /\ j > i + 1
             \/ b \in DOMAIN node \ {cur, p} /\ q = b /\ l = j
           Moved(b, j) ==
             \E q \in DOMAIN node : \E l \in 1 .. Len(node[q].kv) :
               /\ ~ node[q].leaf /\ Origin(b, j, q, l)
               /\ node'[b].kv[j].val = node[q].kv[l].val /\ node[q].kv[l].val # next
<1>23. ASSUME NEW b \in DOMAIN node', ~ node'[b].leaf, NEW j \in 1 .. Len(node'[b].kv)
       PROVE  (b = p /\ j = i + 1 /\ node'[b].kv[j].val = next) \/ Moved(b, j)
  <2>1. ASSUME NEW q \in DOMAIN node, ~ node[q].leaf, NEW l \in 1 .. Len(node[q].kv)
        PROVE  node[q].kv[l].val # next
    BY <2>1, <1>7, SonFacts
  <2>2. CASE b = next
    <3>1. ~ node[cur].leaf /\ m + j \in 1 .. Len(node[cur].kv) /\ node'[b].kv[j] = node[cur].kv[m + j]
      BY <1>23, <2>2, <1>6, <1>7 DEF s, son
    <3> QED
      BY <2>1, <2>2, <3>1, <1>2
  <2>3. CASE b = cur
    <3>1. /\ ~ node[cur].leaf /\ j \in 1 .. Len(node[cur].kv) /\ j <= m
          /\ node'[b].kv[j] = node[cur].kv[j]
      BY <1>23, <2>3, <1>6, <1>7 DEF s, son, m
    <3> QED
      BY <2>1, <2>3, <3>1, <1>2
  <2>4. CASE b \in DOMAIN node \ {cur, p}
    <3>1. ~ node[b].leaf /\ j \in 1 .. Len(node[b].kv) /\ node'[b].kv[j] = node[b].kv[j]
      BY <1>23, <2>4, <1>7
    <3> QED
      BY <2>1, <2>4, <3>1
  <2>5. CASE b = p
    <3>1. j \in 1 .. n + 1 /\ node'[b].kv = kv
      BY <1>23, <2>5, <1>4, <1>7
    <3>2. CASE j < i
      <4>1. j \in 1 .. n /\ j <= i /\ kv[j].val = node[p].kv[j].val
        BY <3>1, <3>2, <1>8, <1>14
      <4>2. j \in 1 .. Len(node[p].kv)
        BY <4>1, <1>14
      <4> QED
        BY <2>1, <2>5, <3>1, <4>1, <4>2, <1>2
    <3>3. CASE j = i
      <4>1. j \in 1 .. Len(node[p].kv) /\ j <= i /\ kv[j].val = node[p].kv[j].val
        BY <3>3, <1>3, <1>4, <1>8, <1>14
      <4> QED
        BY <2>1, <2>5, <3>1, <4>1, <1>2
    <3>4. CASE j = i + 1
      BY <2>5, <3>1, <3>4, <1>4
    <3>5. CASE j > i + 1 /\ j - 1 \in 1 .. n /\ j - 1 > i
      <4>1. kv[j - 1 + 1] = node[p].kv[j - 1] /\ j - 1 + 1 = j /\ j - 1 \in 1 .. Len(node[p].kv)
        BY <3>1, <3>5, <1>8, <1>14
      <4> QED
        BY <2>1, <2>5, <3>1, <3>5, <4>1, <1>2
    <3> QED
      BY <3>1, <3>2, <3>3, <3>4, <3>5, <1>14
  <2> QED
    BY <1>13, <2>2, <2>3, <2>4, <2>5
<1> HIDE DEF Origin, Moved
<1>24. OneParent'
  <2>1. ASSUME NEW b \in DOMAIN node' PROVE node'[b].level <= node'[root].level
    <3>1. \A c \in DOMAIN node : node[c].level <= node[root].level /\ node'[c].level = node[c].level
      BY <1>7 DEF Ordered, OneParent, son
    <3>2. node'[next].level = node'[cur].level
      BY <1>7
    <3>3. b = next \/ b \in DOMAIN node
      BY <1>7
    <3> QED
      BY <3>1, <3>2, <3>3, <1>2
  <2>2. ASSUME NEW b \in DOMAIN node', b # root
        PROVE  \E q \in DOMAIN node' : /\ ~ node'[q].leaf
                                       /\ \E j \in 1 .. Len(node'[q].kv) : node'[q].kv[j].val = b
    <3>1. p \in DOMAIN node' /\ ~ node'[p].leaf /\ Len(node'[p].kv) = n + 1 /\ node'[p].kv = kv
      BY <1>2, <1>4, <1>7
    <3>2. CASE b = next
      BY <3>1, <3>2, <1>4, <1>9
    <3>3. CASE b \in DOMAIN node
      <4>5. PICK q \in DOMAIN node : ~ node[q].leaf /\ \E l \in 1 .. Len(node[q].kv) : node[q].kv[l].val = b
        BY <2>2, <3>3 DEF Ordered, OneParent
      <4>1. PICK l \in 1 .. Len(node[q].kv) : ~ node[q].leaf /\ node[q].kv[l].val = b
        BY <4>5
      <4>2. CASE q = p
        <5>1. l \in 1 .. n
          BY <4>1, <4>2, <1>14
        <5>2. CASE l < i
          BY <3>1, <4>1, <4>2, <5>1, <5>2, <1>14
        <5>3. CASE l = i
          BY <3>1, <4>1, <4>2, <5>3, <1>3, <1>4, <1>9, <1>14, SMTT(20)
        <5>4. CASE l > i
          <6>1. l + 1 \in 1 .. n + 1 /\ kv[l + 1] = node[p].kv[l]
            BY <5>1, <5>4, <1>14
          <6> QED
            BY ONLY <3>1, <4>1, <4>2, <6>1
        <5> QED
          BY <5>1, <5>2, <5>3, <5>4, <1>8
      <4>3. CASE q = cur
        <5>1. l \in 1 .. Len(s) /\ s[l].val = b /\ ~ son.leaf
          BY <4>1, <4>3 DEF s, son
        <5>2. CASE l <= m
          <6>1. l \in 1 .. m /\ l \in 1 .. Len(keep)
            BY <5>1, <5>2, <1>6 DEF m
          <6> QED
            BY <5>1, <6>1, <1>2, <1>6, <1>7
        <5>3. CASE ~ (l <= m)
          <6>1. l - m \in 1 .. Len(up) /\ m + (l - m) = l
            BY <5>1, <5>3, <1>6
          <6>2. up[l - m] = s[l]
            BY <6>1, <1>6
          <6> QED
            BY <5>1, <6>1, <6>2, <1>7
        <5> QED
          BY <5>2, <5>3
      <4>4. CASE q \in DOMAIN node \ {cur, p}
        <5>1. q \in DOMAIN node' /\ ~ node'[q].leaf /\ node'[q].kv = node[q].kv
          BY <4>1, <4>4, <1>7
        <5> QED
          BY <4>1, <5>1
      <4> QED
        BY <4>2, <4>3, <4>4
    <3> QED
      BY <3>2, <3>3, <1>7
  <2>3. ASSUME NEW b1 \in DOMAIN node', NEW b2 \in DOMAIN node', ~ node'[b1].leaf, ~ node'[b2].leaf,
               NEW j1 \in 1 .. Len(node'[b1].kv), NEW j2 \in 1 .. Len(node'[b2].kv),
               node'[b1].kv[j1].val = node'[b2].kv[j2].val
        PROVE  b1 = b2 /\ j1 = j2
    <3>1. CASE node'[b1].kv[j1].val = next
      <4>1. b1 = p /\ j1 = i + 1
        <5>1. ~ Moved(b1, j1)
          BY <3>1 DEF Moved
        <5> QED
          BY <2>3, <5>1, <1>23
      <4>2. b2 = p /\ j2 = i + 1
        <5>1. ~ Moved(b2, j2)
          BY <2>3, <3>1 DEF Moved
        <5> QED
          BY <2>3, <5>1, <1>23
      <4> QED
        BY <4>1, <4>2
    <3>2. CASE node'[b1].kv[j1].val # next
      <4>5. PICK q1 \in DOMAIN node : \E l \in 1 .. Len(node[q1].kv) :
              /\ ~ node[q1].leaf /\ Origin(b1, j1, q1, l)
              /\ node'[b1].kv[j1].val = node[q1].kv[l].val
        <5>1. Moved(b1, j1)
          BY <2>3, <3>2, <1>23
        <5> QED
          BY <5>1 DEF Moved
      <4>1. PICK l1 \in 1 .. Len(node[q1].kv) :
              /\ ~ node[q1].leaf /\ Origin(b1, j1, q1, l1)
              /\ node'[b1].kv[j1].val = node[q1].kv[l1].val
        BY <4>5
      <4>6. PICK q2 \in DOMAIN node : \E l \in 1 .. Len(node[q2].kv) :
              /\ ~ node[q2].leaf /\ Origin(b2, j2, q2, l)
              /\ node'[b2].kv[j2].val = node[q2].kv[l].val
        <5>1. Moved(b2, j2)
          BY <2>3, <3>2, <1>23
        <5> QED
          BY <5>1 DEF Moved
      <4>2. PICK l2 \in 1 .. Len(node[q2].kv) :
              /\ ~ node[q2].leaf /\ Origin(b2, j2, q2, l2)
              /\ node'[b2].kv[j2].val = node[q2].kv[l2].val
        BY <4>6
      <4>3. q1 = q2 /\ l1 = l2
        <5>1. node[q1].kv[l1].val = node[q2].kv[l2].val /\ ~ node[q1].leaf /\ ~ node[q2].leaf
          BY <2>3, <4>1, <4>2
        <5> QED
          BY <5>1 DEF Ordered, OneParent
      <4>4. j1 \in Int /\ j2 \in Int /\ j1 >= 1 /\ j2 >= 1 /\ m \in Int /\ i \in Int
        <5>1. \A l \in 1 .. Len(node'[b1].kv) : l \in Int /\ l >= 1
          OBVIOUS
        <5>2. \A l \in 1 .. Len(node'[b2].kv) : l \in Int /\ l >= 1
          OBVIOUS
        <5> QED
          BY <5>1, <5>2, <1>6, <1>8
      <4>7. Origin(b1, j1, q1, l1) /\ Origin(b2, j2, q1, l1)
        BY <4>1, <4>2, <4>3
      <4>8. next \notin DOMAIN node /\ cur # p /\ next # cur /\ next # p
        BY <1>2, <1>7
      <4> QED
        BY ONLY <4>4, <4>7, <4>8, SMTT(30) DEF Origin
    <3> QED
      BY <3>1, <3>2
  <2> QED
    BY <2>1, <2>2, <2>3, <1>1 DEF OneParent
<1> QED
  BY <1>12, <1>18, <1>20, <1>22, <1>24 DEF Ordered

LEMMA PutSplitRootOrdered ==
  ASSUME Inv, Ordered, PutSplitRoot
  PROVE  Ordered'
<1> DEFINE top == countOfBlock
           next == countOfBlock + 1
           s == node[root].kv
           keep == Lower(s)
           up == Upper(s)
           two == NewRootItems
           m == Len(keep)
<1>1. /\ pc = "up" /\ stack = << >> /\ Full(node[root]) /\ root' = top /\ pc' = "idle"
      /\ root \in DOMAIN node /\ node[root].next = 0 /\ node[root].last = 0
  BY DEF PutSplitRoot, Return, Inv, TypeOK, SiblingsLinked
<1>2. /\ s \in Seq(Item) /\ Len(s) >= 2
      /\ \A j1, j2 \in 1 .. Len(s) : j1 < j2 => s[j1].key < s[j2].key
  BY <1>1, BlockFacts DEF Inv, Full, Ordered, KeysSorted
<1>3. /\ m \in Nat /\ m >= 1 /\ Len(up) \in Nat /\ Len(up) >= 1
      /\ Len(s) \in Nat /\ m + Len(up) = Len(s)
      /\ \A j \in 1 .. m : j \in 1 .. Len(s) /\ keep[j] = s[j]
      /\ \A j \in 1 .. Len(up) : m + j \in 1 .. Len(s) /\ up[j] = s[m + j]
      /\ \A j1, j2 \in 1 .. m : j1 < j2 => keep[j1].key < keep[j2].key
      /\ \A j1, j2 \in 1 .. Len(up) : j1 < j2 => up[j1].key < up[j2].key
      /\ MaxKey(up) = MaxKey(s)
      /\ MaxKey(keep) \in Int /\ MaxKey(s) \in Int
      /\ up[1].key \in Int /\ MaxKey(keep) < up[1].key /\ up[1].key <= MaxKey(s)
  <2>1. keep = Lower(s) /\ up = Upper(s)
    OBVIOUS
  <2> HIDE DEF s, keep, up
  <2>2. SplitParts(s, keep, up)
    BY <1>2, <2>1, SplitSorted
  <2> QED
    BY <2>2 DEF SplitParts
<1>4. /\ top \notin DOMAIN node /\ next \notin DOMAIN node /\ next # top /\ next # 0
      /\ DOMAIN node' = DOMAIN node \cup {top, next}
      /\ ~ node'[top].leaf /\ node'[top].kv = two /\ node'[top].next = 0
      /\ node'[top].level = node[root].level + 1
      /\ node'[next].leaf = node[root].leaf /\ node'[next].kv = up
      /\ node'[next].next = 0 /\ node'[next].level = node[root].level
      /\ node'[root].leaf = node[root].leaf /\ node'[root].kv = keep
      /\ node'[root].next = next /\ node'[root].level = node[root].level
      /\ \A b \in DOMAIN node \ {root} : node'[b] = node[b]
  BY RootSplitBlocks
<1>5. /\ Len(two) = 2 /\ two[1].val = root /\ two[2].val = next
      /\ two[1].key = MaxKey(keep) /\ two[2].key = MaxKey(s)
  <2>1. two = << NewItem(MaxKey(keep), root), NewItem(MaxKey(s), next) >>
    BY DEF NewRootItems
  <2> HIDE DEF two, keep, s, next
  <2> QED
    BY <2>1 DEF NewItem
<1> HIDE DEF top, next, s, keep, up, two, m
<1>6. ASSUME NEW b \in DOMAIN node'
      PROVE  b = top \/ b = next \/ b = root \/ b \in DOMAIN node \ {root}
  BY <1>4
\* Children, and the first child of a next block
<1>7. ASSUME NEW q \in DOMAIN node, ~ node[q].leaf, NEW j \in 1 .. Len(node[q].kv)
      PROVE  /\ node[q].kv[j].val \in DOMAIN node \ {root}
             /\ node'[node[q].kv[j].val] = node[node[q].kv[j].val]
             /\ node[q].kv[j].key = MaxKey(node[node[q].kv[j].val].kv)
             /\ node[node[q].kv[j].val].next =
                  IF j < Len(node[q].kv) THEN node[q].kv[j + 1].val
                  ELSE IF node[q].next = 0 THEN 0 ELSE node[node[q].next].kv[1].val
  <2>1. node[q].kv[j].val \in DOMAIN node /\ node[q].kv[j].val # root
    BY <1>7, SonFacts
  <2>2. node[q].kv[j].key = MaxKey(node[node[q].kv[j].val].kv)
    BY <1>1, <1>7 DEF Ordered, SeparatorsExact, StaleSeparator
  <2>3. node[node[q].kv[j].val].next =
          IF j < Len(node[q].kv) THEN node[q].kv[j + 1].val
          ELSE IF node[q].next = 0 THEN 0 ELSE node[node[q].next].kv[1].val
    BY <1>7, SonFacts
  <2> QED
    BY <2>1, <2>2, <2>3, <1>4
<1>8. ASSUME NEW q \in DOMAIN node, node[q].next # 0
      PROVE  node[q].next \in DOMAIN node \ {root} /\ node'[node[q].next] = node[node[q].next]
             /\ MaxKey(node[q].kv) < node[node[q].next].kv[1].key
  <2>1. /\ node[q].next \in DOMAIN node /\ node[node[q].next].last = q
        /\ MaxKey(node[q].kv) < node[node[q].next].kv[1].key
    BY <1>8, NextFacts
  <2>2. q # 0
    BY BlockFacts DEF Inv
  <2> QED
    BY <2>1, <2>2, <1>1, <1>4
<1>9. KeysSorted'
  <2>1. ASSUME NEW b \in DOMAIN node', NEW j1 \in 1 .. Len(node'[b].kv),
               NEW j2 \in 1 .. Len(node'[b].kv), j1 < j2
        PROVE  node'[b].kv[j1].key < node'[b].kv[j2].key
    <3>1. CASE b = next
      BY <2>1, <3>1, <1>3, <1>4
    <3>2. CASE b = root
      BY <2>1, <3>2, <1>3, <1>4 DEF m
    <3>3. CASE b = top
      <4>1. node'[b].kv = two /\ j1 \in 1 .. 2 /\ j2 \in 1 .. 2
        BY <2>1, <3>3, <1>4, <1>5
      <4>2. j1 = 1 /\ j2 = 2
        BY <2>1, <4>1
      <4> QED
        BY <4>1, <4>2, <1>3, <1>5
    <3>4. CASE b \in DOMAIN node \ {root}
      BY <2>1, <3>4, <1>4 DEF Ordered, KeysSorted
    <3> QED
      BY <1>6, <3>1, <3>2, <3>3, <3>4
  <2>2. ASSUME NEW b \in DOMAIN node', node'[b].next # 0
        PROVE  MaxKey(node'[b].kv) < node'[node'[b].next].kv[1].key
    <3>1. CASE b = root
      BY <3>1, <1>3, <1>4
    <3>2. CASE b \in DOMAIN node \ {root}
      BY <2>2, <3>2, <1>4, <1>8
    <3> QED
      BY <2>2, <3>1, <3>2, <1>4, <1>6
  <2> QED
    BY <2>1, <2>2 DEF KeysSorted
<1>10. SeparatorsExact'
  <2>1. SUFFICES ASSUME NEW b \in DOMAIN node', ~ node'[b].leaf, NEW j \in 1 .. Len(node'[b].kv)
                 PROVE  node'[b].kv[j].key = MaxKey(node'[node'[b].kv[j].val].kv)
    BY DEF SeparatorsExact
  <2>2. CASE b = next
    <3>1. ~ node[root].leaf /\ m + j \in 1 .. Len(s) /\ node'[b].kv[j] = s[m + j]
      BY <2>1, <2>2, <1>3, <1>4
    <3> QED
      BY <3>1, <1>1, <1>7 DEF s
  <2>3. CASE b = root
    <3>1. ~ node[root].leaf /\ j \in 1 .. Len(s) /\ node'[b].kv[j] = s[j]
      BY <2>1, <2>3, <1>3, <1>4 DEF m
    <3> QED
      BY <3>1, <1>1, <1>7 DEF s
  <2>4. CASE b = top
    <3>1. node'[b].kv = two /\ (j = 1 \/ j = 2)
      BY <2>1, <2>4, <1>4, <1>5
    <3> QED
      BY <3>1, <1>3, <1>4, <1>5
  <2>5. CASE b \in DOMAIN node \ {root}
    BY <2>1, <2>5, <1>4, <1>7
  <2> QED
    BY <1>6, <2>2, <2>3, <2>4, <2>5
<1>11. ChildrenLinked'
  <2>1. SUFFICES ASSUME NEW b \in DOMAIN node', ~ node'[b].leaf, NEW j \in 1 .. Len(node'[b].kv)
                 PROVE  node'[node'[b].kv[j].val].next =
                          IF j < Len(node'[b].kv) THEN node'[b].kv[j + 1].val
                          ELSE IF node'[b].next = 0 THEN 0 ELSE node'[node'[b].next].kv[1].val
    BY DEF ChildrenLinked
  <2>2. ~ node[root].leaf => \A l \in 1 .. Len(s) :
           node'[s[l].val].next = IF l < Len(s) THEN s[l + 1].val ELSE 0
    BY <1>1, <1>7 DEF s
  <2>3. CASE b = next
    <3>1. ~ node[root].leaf /\ j \in 1 .. Len(up) /\ node'[b].kv = up /\ node'[b].next = 0
      BY <2>1, <2>3, <1>4
    <3>2. m + j \in 1 .. Len(s) /\ up[j] = s[m + j]
      BY <3>1, <1>3
    <3>3. CASE j < Len(up)
      <4>1. j + 1 \in 1 .. Len(up) /\ m + j < Len(s) /\ m + (j + 1) = m + j + 1
        BY <3>1, <3>3, <1>3
      <4>2. up[j + 1] = s[m + j + 1]
        BY <4>1, <1>3
      <4> QED
        BY <2>2, <3>1, <3>2, <3>3, <4>1, <4>2
    <3>4. CASE ~ (j < Len(up))
      <4>1. ~ (m + j < Len(s))
        BY <3>1, <3>4, <1>3
      <4> QED
        BY <2>2, <3>1, <3>2, <3>4, <4>1
    <3> QED
      BY <3>3, <3>4
  <2>4. CASE b = root
    <3>1. /\ ~ node[root].leaf /\ j \in 1 .. m /\ node'[b].kv = keep /\ Len(node'[b].kv) = m
          /\ node'[b].next = next
      BY <2>1, <2>4, <1>4 DEF m
    <3>2. j \in 1 .. Len(s) /\ keep[j] = s[j] /\ j < Len(s)
      BY <3>1, <1>3
    <3>3. node'[keep[j].val].next = s[j + 1].val
      BY <2>2, <3>1, <3>2
    <3>4. CASE j < m
      <4>1. j + 1 \in 1 .. m
        BY <3>1, <3>4, <1>3
      <4> QED
        BY <3>1, <3>3, <3>4, <4>1, <1>3
    <3>5. CASE ~ (j < m)
      <4>1. j = m /\ 1 \in 1 .. Len(up)
        BY <3>1, <3>5, <1>3
      <4>2. up[1] = s[j + 1]
        BY <4>1, <1>3
      <4> QED
        BY <3>1, <3>3, <3>5, <4>2, <1>4
    <3> QED
      BY <3>4, <3>5
  <2>5. CASE b = top
    <3>1. node'[b].kv = two /\ Len(node'[b].kv) = 2 /\ (j = 1 \/ j = 2) /\ node'[b].next = 0
      BY <2>1, <2>5, <1>4, <1>5
    <3> QED
      BY <3>1, <1>4, <1>5
  <2>6. CASE b \in DOMAIN node \ {root}
    BY <2>1, <2>6, <1>4, <1>7, <1>8
  <2> QED
    BY <1>6, <2>3, <2>4, <2>5, <2>6
<1> DEFINE Origin(b, j, q, l) ==
             \/ b = next /\ q = root /\ l = m + j
             \/ b = root /\ q = root /\ l = j /\ j <= m
             \/ b \in DOMAIN node \ {root} /\ q = b /\ l = j
           Moved(b, j) ==
             \E q \in DOMAIN node : \E l \in 1 .. Len(node[q].kv) :
               /\ ~ node[q].leaf /\ Origin(b, j, q, l)
               /\ node'[b].kv[j].val = node[q].kv[l].val /\ node[q].kv[l].val \notin {root, next}
<1>12. ASSUME NEW b \in DOMAIN node', ~ node'[b].leaf, NEW j \in 1 .. Len(node'[b].kv)
       PROVE  \/ b = top /\ j = 1 /\ node'[b].kv[j].val = root
              \/ b = top /\ j = 2 /\ node'[b].kv[j].val = next
              \/ Moved(b, j)
  <2>1. ASSUME NEW q \in DOMAIN node, ~ node[q].leaf, NEW l \in 1 .. Len(node[q].kv)
        PROVE  node[q].kv[l].val \notin {root, next}
    BY <2>1, <1>4, <1>7
  <2>2. CASE b = next
    <3>1. ~ node[root].leaf /\ m + j \in 1 .. Len(node[root].kv) /\ node'[b].kv[j] = node[root].kv[m + j]
      BY <1>12, <2>2, <1>3, <1>4 DEF s
    <3> QED
      BY <2>1, <2>2, <3>1, <1>1
  <2>3. CASE b = root
    <3>1. /\ ~ node[root].leaf /\ j \in 1 .. Len(node[root].kv) /\ j <= m
          /\ node'[b].kv[j] = node[root].kv[j]
      BY <1>12, <2>3, <1>3, <1>4 DEF s, m
    <3> QED
      BY <2>1, <2>3, <3>1, <1>1
  <2>4. CASE b \in DOMAIN node \ {root}
    <3>1. ~ node[b].leaf /\ j \in 1 .. Len(node[b].kv) /\ node'[b].kv[j] = node[b].kv[j]
      BY <1>12, <2>4, <1>4
    <3> QED
      BY <2>1, <2>4, <3>1
  <2>5. CASE b = top
    BY <2>5, <1>4, <1>5, <1>12
  <2> QED
    BY <1>6, <2>2, <2>3, <2>4, <2>5
<1> HIDE DEF Origin, Moved
<1>13. OneParent'
  <2>1. ASSUME NEW b \in DOMAIN node' PROVE node'[b].level <= node'[top].level
    <3>1. \A c \in DOMAIN node : node[c].level <= node[root].level /\ node[c].level \in Nat
      BY BlockFacts DEF Ordered, OneParent, Inv
    <3> QED
      BY <3>1, <1>1, <1>4, <1>6
  <2>2. ASSUME NEW b \in DOMAIN node', b # top
        PROVE  \E q \in DOMAIN node' : /\ ~ node'[q].leaf
                                       /\ \E j \in 1 .. Len(node'[q].kv) : node'[q].kv[j].val = b
    <3>1. /\ top \in DOMAIN node' /\ ~ node'[top].leaf /\ Len(node'[top].kv) = 2
          /\ node'[top].kv[1].val = root /\ node'[top].kv[2].val = next
          /\ 1 \in 1 .. 2 /\ 2 \in 1 .. 2
      BY <1>4, <1>5
    <3>2. CASE b = next \/ b = root
      BY <3>1, <3>2
    <3>3. CASE b \in DOMAIN node \ {root}
      <4>1. PICK q \in DOMAIN node : ~ node[q].leaf /\ \E l \in 1 .. Len(node[q].kv) : node[q].kv[l].val = b
        BY <3>3 DEF Ordered, OneParent
      <4>2. PICK l \in 1 .. Len(node[q].kv) : node[q].kv[l].val = b
        BY <4>1
      <4>3. CASE q = root
        <5>1. l \in 1 .. Len(s) /\ s[l].val = b /\ ~ node[root].leaf
          BY <4>1, <4>2, <4>3 DEF s
        <5>2. CASE l <= m
          <6>1. l \in 1 .. m /\ l \in 1 .. Len(keep)
            BY <5>1, <5>2, <1>3 DEF m
          <6> QED
            BY <5>1, <6>1, <1>1, <1>3, <1>4
        <5>3. CASE ~ (l <= m)
          <6>1. l - m \in 1 .. Len(up) /\ m + (l - m) = l
            BY <5>1, <5>3, <1>3, SMTT(20)
          <6>2. up[l - m] = s[l]
            BY <6>1, <1>3
          <6> QED
            BY <5>1, <6>1, <6>2, <1>4
        <5> QED
          BY <5>2, <5>3
      <4>4. CASE q # root
        BY <4>1, <4>2, <4>4, <1>4
      <4> QED
        BY <4>3, <4>4
    <3> QED
      BY <2>2, <3>2, <3>3, <1>6
  <2>3. ASSUME NEW b1 \in DOMAIN node', NEW b2 \in DOMAIN node', ~ node'[b1].leaf, ~ node'[b2].leaf,
               NEW j1 \in 1 .. Len(node'[b1].kv), NEW j2 \in 1 .. Len(node'[b2].kv),
               node'[b1].kv[j1].val = node'[b2].kv[j2].val
        PROVE  b1 = b2 /\ j1 = j2
    <3>1. CASE node'[b1].kv[j1].val \in {root, next}
      <4>1. b1 = top /\ j1 = IF node'[b1].kv[j1].val = root THEN 1 ELSE 2
        <5>1. ~ Moved(b1, j1) /\ next # root
          BY <3>1, <1>1, <1>4 DEF Moved
        <5> QED
          BY <2>3, <3>1, <5>1, <1>12
      <4>2. b2 = top /\ j2 = IF node'[b2].kv[j2].val = root THEN 1 ELSE 2
        <5>1. node'[b2].kv[j2].val \in {root, next}
          BY <2>3, <3>1
        <5>2. ~ Moved(b2, j2) /\ next # root
          BY <5>1, <1>1, <1>4 DEF Moved
        <5> QED
          BY <2>3, <5>1, <5>2, <1>12
      <4> QED
        BY <2>3, <4>1, <4>2
    <3>2. CASE node'[b1].kv[j1].val \notin {root, next}
      <4>5. PICK q1 \in DOMAIN node : \E l \in 1 .. Len(node[q1].kv) :
              /\ ~ node[q1].leaf /\ Origin(b1, j1, q1, l)
              /\ node'[b1].kv[j1].val = node[q1].kv[l].val
        <5>1. Moved(b1, j1)
          BY <2>3, <3>2, <1>12
        <5> QED
          BY <5>1 DEF Moved
      <4>1. PICK l1 \in 1 .. Len(node[q1].kv) :
              /\ ~ node[q1].leaf /\ Origin(b1, j1, q1, l1)
              /\ node'[b1].kv[j1].val = node[q1].kv[l1].val
        BY <4>5
      <4>6. PICK q2 \in DOMAIN node : \E l \in 1 .. Len(node[q2].kv) :
              /\ ~ node[q2].leaf /\ Origin(b2, j2, q2, l)
              /\ node'[b2].kv[j2].val = node[q2].kv[l].val
        <5>1. Moved(b2, j2)
          BY <2>3, <3>2, <1>12
        <5> QED
          BY <5>1 DEF Moved
      <4>2. PICK l2 \in 1 .. Len(node[q2].kv) :
              /\ ~ node[q2].leaf /\ Origin(b2, j2, q2, l2)
              /\ node'[b2].kv[j2].val = node[q2].kv[l2].val
        BY <4>6
      <4>3. q1 = q2 /\ l1 = l2
        <5>1. node[q1].kv[l1].val = node[q2].kv[l2].val /\ ~ node[q1].leaf /\ ~ node[q2].leaf
          BY <2>3, <4>1, <4>2
        <5> QED
          BY <5>1 DEF Ordered, OneParent
      <4>4. j1 \in Int /\ j2 \in Int /\ j1 >= 1 /\ j2 >= 1 /\ m \in Int
        <5>1. \A l \in 1 .. Len(node'[b1].kv) : l \in Int /\ l >= 1
          OBVIOUS
        <5>2. \A l \in 1 .. Len(node'[b2].kv) : l \in Int /\ l >= 1
          OBVIOUS
        <5> QED
          BY <5>1, <5>2, <1>3
      <4>7. Origin(b1, j1, q1, l1) /\ Origin(b2, j2, q1, l1)
        BY <4>1, <4>2, <4>3
      <4>8. next \notin DOMAIN node /\ root \in DOMAIN node
        BY <1>1, <1>4
      <4> QED
        BY ONLY <4>4, <4>7, <4>8, SMTT(30) DEF Origin
    <3> QED
      BY <3>1, <3>2
  <2> QED
    BY <2>1, <2>2, <2>3, <1>1 DEF OneParent
<1>14. PutInRange'
  BY <1>1 DEF PutInRange
<1> QED
  BY <1>9, <1>10, <1>11, <1>13, <1>14 DEF Ordered

LEMMA NextOrdered == Inv /\ Ordered /\ [Next]_vars => Ordered'
<1> SUFFICES ASSUME Inv, Ordered, [Next]_vars PROVE Ordered'
  OBVIOUS
<1>1. ASSUME NEW k \in Key, NEW v \in Val, PutCall(k, v) PROVE Ordered'
  BY <1>1, PutCallOrdered
<1>2. CASE Descend
  BY <1>2, DescendOrdered
<1>3. CASE LeafDuplicate
  BY <1>3, ReturnOrdered DEF LeafDuplicate, AtLeaf, Return, meta
<1>4. CASE LeafValueError
  BY <1>4, ReturnOrdered DEF LeafValueError, AtLeaf, Return
<1>5. CASE LeafRevive
  BY <1>5, LeafReviveOrdered
<1>6. CASE LeafInsert
  BY <1>6, LeafInsertOrdered
<1>7. CASE AscendKeep
  BY <1>7, AscendKeepOrdered
<1>8. CASE AscendSplit
  BY <1>8, AscendSplitOrdered
<1>9. CASE PutReturn
  BY <1>9, ReturnOrdered DEF PutReturn, Return
<1>10. CASE PutSplitRoot
  BY <1>10, PutSplitRootOrdered
<1>11. ASSUME NEW b \in Leaves, NEW i \in 1 .. Len(node[b].kv), RemoveByFlag(b, i) PROVE Ordered'
  BY <1>11, RemoveByFlagOrdered
<1>12. CASE UNCHANGED vars
  <2>1. UNCHANGED <<node, root, pc, cur, stack, arg>>
    BY <1>12 DEF vars, meta, call
  <2>2. KeysSorted'
    BY <2>1 DEF Ordered, KeysSorted
  <2>3. SeparatorsExact'
    BY <2>1 DEF Ordered, SeparatorsExact, StaleSeparator, Parent
  <2>4. ChildrenLinked'
    BY <2>1 DEF Ordered, ChildrenLinked
  <2>5. OneParent'
    BY <2>1 DEF Ordered, OneParent
  <2>6. PutInRange'
    BY <2>1 DEF Ordered, PutInRange, Covers, Parent
  <2> QED
    BY <2>2, <2>3, <2>4, <2>5, <2>6 DEF Ordered
<1>13. CASE PutStep
  BY <1>13, <1>2, <1>3, <1>4, <1>5, <1>6, <1>7, <1>8, <1>9, <1>10 DEF PutStep
<1>14. CASE \E k \in Key, v \in Val : PutCall(k, v)
  BY <1>14, <1>1
<1>15. CASE \E b \in Leaves : \E i \in 1 .. Len(node[b].kv) : RemoveByFlag(b, i)
  BY <1>15, <1>11
<1> QED
  BY <1>12, <1>13, <1>14, <1>15 DEF Next

\* The order of the keys holds in every behaviour of the tree, in the middle of
\* a put() too.
THEOREM OrderHolds == Spec => []Ordered
BY InitInv, NextInv, InitOrdered, NextOrdered, PTL DEF Spec

\* No split, separator update or removal ever hides a key: getLeaf() and lub()
\* find every item that a leaf holds.
THEOREM KeysReachable == Spec => []EveryKeyReachable
BY InvHolds, OrderHolds, KeysReached, PTL
=============================================================================
