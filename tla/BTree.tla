------------------------------- MODULE BTree --------------------------------
(***************************************************************************)
(* The B+ tree of lib/btree.h and lib/btree.cpp: put() with its recursive  *)
(* insert(), the split of full nodes on the way back up, the split of the  *)
(* root, and removal by flag.                                              *)
(*                                                                         *)
(* put() is modelled one stack frame at a time.  `stack' holds the frames  *)
(* of the recursive insert() that have not returned, so every step reads   *)
(* and writes the two or three blocks that one frame of the code does.     *)
(* Once put() is called its steps are the only ones: the tree has a single *)
(* thread, and no other operation runs while pc # "idle".                  *)
(*                                                                         *)
(* A NodeBlock is a record: kv holds the items below `count' (so count is  *)
(* Len(kv)), and item i of the model is kv[i-1] of the code.  `level' is   *)
(* auxiliary: the height of the block above the leaves, which the code     *)
(* does not store and no action reads.                                     *)
(***************************************************************************)
EXTENDS Integers, SequencesExt

CONSTANTS Key, Val,
          Absent,           \* not a value: what a lookup yields without a live item
          LeafSize,         \* size() of a leaf block
          NodeSize,         \* size() of an interior block
          InitialBlocks,    \* blocks in a new file (32 in the code)
          isConstValueSize, \* values are stored in the leaf, not in data blocks
          MaxItem           \* bound of the model on countOfItem

ASSUME KeyAssumption == Key \subseteq Int
\* A key is at most 512 bytes and a secondary key adds a primary one, so a
\* 4096-byte block holds at least three items.
ASSUME SizeAssumption == /\ LeafSize \in Nat /\ LeafSize >= 2
                         /\ NodeSize \in Nat /\ NodeSize >= 3
ASSUME BlocksAssumption == InitialBlocks \in Nat /\ InitialBlocks >= 2
ASSUME MaxAssumption == MaxItem \in Nat
ASSUME ConstAssumption == isConstValueSize \in BOOLEAN
ASSUME AbsentAssumption == Absent \notin Val

VARIABLES
  node,           \* the node blocks in use; block 0 is the metadata, and the
                  \* other blocks below countOfBlock are data blocks
  root,           \* BTreeMetadata.root and BTree::root, always set together
  countOfItem, countOfBlock, numberOfBlock,     \* the rest of BTreeMetadata
  pc,             \* "idle", or where put() is: "down" or "up" the tree
  cur,            \* the block the running frame of insert() works on
  stack,          \* the frames above it, outermost first
  arg,            \* <<key, value>> of the running put()
  ret             \* result of the last completed put()

meta == <<root, countOfItem, countOfBlock, numberOfBlock>>
call == <<pc, cur, stack, arg>>
vars == <<node, meta, call, ret>>

Item == [key : Key, val : Val \cup Nat, flag : {0, 1}]
NodeBlock == [leaf : BOOLEAN, kv : Seq(Item), next : Nat, last : Nat, level : Nat]
Frame == [blk : Nat, idx : Nat, max : BOOLEAN]

-----------------------------------------------------------------------------
(* Operations of one NodeBlock                                             *)

Size(n) == IF n.leaf THEN LeafSize ELSE NodeSize
FullLate(n) == Len(n.kv) > Size(n)     \* mutant: one item too late
Full(n) == Len(n.kv) = Size(n)
MaxKey(kv) == Last(kv).key
Removed(it) == it.flag = 0

LubAfter(kv, k) ==                     \* mutant: passes over an equal key
  CHOOSE i \in 1 .. Len(kv) + 1 :
    /\ i = Len(kv) + 1 \/ kv[i].key > k
    /\ \A j \in 1 .. i - 1 : kv[j].key <= k

\* Least index whose key is not below k, or Len(kv) + 1 when k is above all.
\* NodeSearch.tla shows that the binary search of the code computes it.
Lub(kv, k) ==
  CHOOSE i \in 1 .. Len(kv) + 1 :
    /\ i = Len(kv) + 1 \/ kv[i].key >= k
    /\ \A j \in 1 .. i - 1 : kv[j].key < k

\* compare() of the item at i, if there is one
Found(kv, i, k) == i <= Len(kv) /\ kv[i].key = k

NewItem(k, v) == [key |-> k, val |-> v, flag |-> 1]
Lower(kv) == SubSeq(kv, 1, (Len(kv) + 1) \div 2)             \* stays after split()
Upper(kv) == SubSeq(kv, (Len(kv) + 1) \div 2 + 1, Len(kv))   \* moves to nextNode

\* The child that insert() and getLeaf() descend to
ChildIndex(n, k) == IF Lub(n.kv, k) = Len(n.kv) + 1 THEN Len(n.kv) ELSE Lub(n.kv, k)

GrowLate(number, count) == IF number < count THEN 2 * number ELSE number  \* mutant

\* getFreeNodeBlock() doubles the file when every block of it is used
Grow(number, count) == IF number = count THEN 2 * number ELSE number

GetLeaf(k) ==
  LET walk[b \in DOMAIN node] ==
        IF node[b].leaf THEN b ELSE walk[node[b].kv[ChildIndex(node[b], k)].val]
  IN  walk[root]

-----------------------------------------------------------------------------
(* create() and open(): an empty leaf is the root                          *)

Init ==
  /\ node = [b \in {1} |-> [leaf |-> TRUE, kv |-> << >>, next |-> 0, last |-> 0, level |-> 0]]
  /\ root = 1
  /\ countOfItem = 0 /\ countOfBlock = 2 /\ numberOfBlock = InitialBlocks
  /\ pc = "idle" /\ cur = 0 /\ stack = << >> /\ arg = << >>
  /\ ret = "none"

\* put() calls insert() on the root
PutCall(k, v) ==
  /\ pc = "idle"
  /\ countOfItem < MaxItem
  /\ pc' = "down" /\ cur' = root /\ stack' = << >> /\ arg' = <<k, v>>
  /\ UNCHANGED <<node, meta, ret>>

\* insert() on an interior block: choose the child and recurse into it
Descend ==
  /\ pc = "down" /\ ~ node[cur].leaf
  /\ LET n == node[cur]
         i == ChildIndex(n, arg[1])
     IN  /\ stack' = Append(stack, [blk |-> cur, idx |-> i,
                                    max |-> Lub(n.kv, arg[1]) = Len(n.kv) + 1])
         /\ cur' = n.kv[i].val
  /\ UNCHANGED <<node, meta, pc, arg, ret>>

Return(r) == pc' = "idle" /\ cur' = 0 /\ stack' = << >> /\ arg' = << >> /\ ret' = r

\* put() counts every insert() that returned 1
CountForgotten == UNCHANGED countOfItem        \* mutant
CountItem == countOfItem' = countOfItem + 1

AtLeaf == pc = "down" /\ node[cur].leaf
LeafIndex == Lub(node[cur].kv, arg[1])
KeyFound == Found(node[cur].kv, LeafIndex, arg[1])
KeyTaken == KeyFound                           \* mutant: the flag is not looked at
KeyLive == KeyFound /\ ~ Removed(node[cur].kv[LeafIndex])

\* The key is live: every frame returns 0
LeafDuplicate ==
  /\ AtLeaf /\ KeyLive
  /\ Return("duplicate")
  /\ UNCHANGED <<node, meta>>

\* The data blocks that insertValue() may take from the file: the value goes
\* where the value of a neighbour is, or into a new block when that one has no
\* room (here: may have none) or when the leaf has no items.
NeverFits == {}                                \* mutant: one block after another
NewDataBlocks == IF isConstValueSize THEN {0}
                 ELSE IF node[cur].kv = << >> THEN {1} ELSE {0, 1}

\* insertValue() finds no memory for the block: every frame returns -1.  The
\* file may have been resized for it.
LeafValueError ==
  /\ AtLeaf /\ ~ KeyLive
  /\ ~ isConstValueSize
  /\ \E d \in NewDataBlocks :
       numberOfBlock' = IF d = 1 THEN Grow(numberOfBlock, countOfBlock) ELSE numberOfBlock
  /\ Return("error")
  /\ UNCHANGED <<node, root, countOfItem, countOfBlock>>

\* insertValue() stores the value
StoreValue ==
  \E d \in NewDataBlocks :
    /\ countOfBlock' = countOfBlock + d
    /\ numberOfBlock' = IF d = 1 THEN Grow(numberOfBlock, countOfBlock) ELSE numberOfBlock

\* The key is there but removed: its item is used again
LeafRevive ==
  /\ AtLeaf /\ KeyFound /\ ~ KeyLive
  /\ StoreValue
  /\ node' = [node EXCEPT ![cur].kv[LeafIndex] = [@ EXCEPT !.val = arg[2], !.flag = 1]]
  /\ pc' = "up"
  /\ UNCHANGED <<root, countOfItem, cur, stack, arg, ret>>

LeafInsert ==
  /\ AtLeaf /\ ~ KeyFound
  /\ StoreValue
  /\ node' = [node EXCEPT ![cur].kv = InsertAt(@, LeafIndex, NewItem(arg[1], arg[2]))]
  /\ pc' = "up"
  /\ UNCHANGED <<root, countOfItem, cur, stack, arg, ret>>

\* The frame of the parent after insert() on the son returned 1: update the
\* key of the son if it may have grown.
OuterFrame == Head(stack)                      \* mutant
Parent == Last(stack)
KeysKept(n, f, son) == n.kv                    \* mutant: the separator is left behind
UpdatedKeys(n, f, son) ==
  IF f.max THEN [n.kv EXCEPT ![f.idx].key = MaxKey(son.kv)] ELSE n.kv

\* The items of a parent after its son at f.idx, block b, was split: block
\* `next' takes the son's place and the son is inserted with its new key.
SplitKeysSwapped(kv, f, b, keep, next) ==      \* mutant: the halves change places
  InsertAt(kv, Lub(kv, MaxKey(keep)), NewItem(MaxKey(keep), next))
SplitKeys(kv, f, b, keep, next) ==
  LET moved == [kv EXCEPT ![f.idx].val = next, ![f.idx].flag = 1]
  IN  InsertAt(moved, Lub(moved, MaxKey(keep)), NewItem(MaxKey(keep), b))

\* The block that takes the upper half of block b, n before the split
LeafSibling(n, b) ==                           \* mutant: always of type leaf
  [leaf |-> TRUE, kv |-> Upper(n.kv), next |-> n.next, last |-> b, level |-> n.level]
Sibling(n, b) ==
  [leaf |-> n.leaf, kv |-> Upper(n.kv), next |-> n.next, last |-> b, level |-> n.level]

LastKept(n, b) == n                            \* mutant: the link back is left behind
WithLast(n, b) == [n EXCEPT !.last = b]

\* Back in the parent of a son that is not full
AscendKeep ==
  /\ pc = "up" /\ stack # << >> /\ ~ Full(node[cur])
  /\ node' = [node EXCEPT ![Parent.blk].kv = UpdatedKeys(node[Parent.blk], Parent, node[cur])]
  /\ cur' = Parent.blk /\ stack' = Front(stack)
  /\ UNCHANGED <<meta, pc, arg, ret>>

\* Back in the parent of a full son: split it into a new block after it
AscendSplit ==
  /\ pc = "up" /\ stack # << >> /\ Full(node[cur])
  /\ LET son  == node[cur]
         par  == node[Parent.blk]
         next == countOfBlock
         keep == Lower(son.kv)
         kv   == SplitKeys(UpdatedKeys(par, Parent, son), Parent, cur, keep, next)
     IN  /\ node' = [b \in DOMAIN node \cup {next} |->
                       CASE b = next       -> Sibling(son, cur)
                         [] b = cur        -> [son EXCEPT !.kv = keep, !.next = next]
                         [] b = Parent.blk -> [par EXCEPT !.kv = kv]
                         [] b = son.next   -> WithLast(node[b], next)
                         [] OTHER          -> node[b]]
         /\ numberOfBlock' = Grow(numberOfBlock, countOfBlock)
         /\ countOfBlock' = countOfBlock + 1
  /\ cur' = Parent.blk /\ stack' = Front(stack)
  /\ UNCHANGED <<root, countOfItem, pc, arg, ret>>

\* put() after insert() on the root returned 1
PutReturn ==
  /\ pc = "up" /\ stack = << >> /\ ~ Full(node[root])
  /\ CountItem
  /\ Return("stored")
  /\ UNCHANGED <<node, root, countOfBlock, numberOfBlock>>

\* ... and left the root full: a new root above the old one and a new block
PutSplitRoot ==
  /\ pc = "up" /\ stack = << >> /\ Full(node[root])
  /\ LET old     == node[root]
         newRoot == countOfBlock
         next    == countOfBlock + 1
         keep    == Lower(old.kv)
     IN  /\ node' = [b \in DOMAIN node \cup {newRoot, next} |->
                       CASE b = newRoot ->
                              [leaf |-> FALSE, next |-> 0, last |-> 0, level |-> old.level + 1,
                               kv |-> << NewItem(MaxKey(keep), root), NewItem(MaxKey(old.kv), next) >>]
                         [] b = next -> [Sibling(old, root) EXCEPT !.next = 0]
                         [] b = root -> [old EXCEPT !.kv = keep, !.next = next]
                         [] OTHER -> node[b]]
         /\ root' = newRoot
         /\ numberOfBlock' = Grow(Grow(numberOfBlock, countOfBlock), countOfBlock + 1)
         /\ countOfBlock' = countOfBlock + 2
  /\ CountItem
  /\ Return("stored")

RemoveAtOnce(b, i) ==                          \* mutant: the item is taken out
  /\ pc = "idle"
  /\ node' = [node EXCEPT ![b].kv = RemoveAt(@, i)]
  /\ UNCHANGED <<meta, call, ret>>

\* Iterator::remove() on the item that some iterator stands on
RemoveByFlag(b, i) ==
  /\ pc = "idle"
  /\ node' = [node EXCEPT ![b].kv[i] = [@ EXCEPT !.flag = 0]]
  /\ UNCHANGED <<meta, call, ret>>

Leaves == {b \in DOMAIN node : node[b].leaf}

PutStep == \/ Descend
           \/ LeafDuplicate \/ LeafValueError \/ LeafRevive \/ LeafInsert
           \/ AscendKeep \/ AscendSplit
           \/ PutReturn \/ PutSplitRoot

Next == \/ \E k \in Key, v \in Val : PutCall(k, v)
        \/ PutStep
        \/ \E b \in Leaves : \E i \in 1 .. Len(node[b].kv) : RemoveByFlag(b, i)

\* A called put() runs: its thread is not suspended for ever inside it.
Spec == Init /\ [][Next]_vars /\ WF_vars(PutStep)

-----------------------------------------------------------------------------
(* Properties.  All of them hold in the middle of a put() too.             *)

\* Every variable has its type, and block numbers are those of the file.
TypeOK ==
  /\ countOfBlock \in Nat /\ countOfBlock >= 2
  /\ numberOfBlock \in Nat /\ countOfBlock <= numberOfBlock
  /\ countOfItem \in Nat
  /\ DOMAIN node \subseteq 1 .. countOfBlock - 1
  /\ node \in [DOMAIN node -> NodeBlock]
  /\ root \in DOMAIN node
  /\ pc \in {"idle", "down", "up"}
  /\ cur \in DOMAIN node \cup {0}
  /\ stack \in Seq(Frame)
  /\ arg \in (Key \X Val) \cup {<< >>}
  /\ ret \in {"none", "stored", "duplicate", "error"}

\* No block ever holds more than size() items, only the block that insert()
\* has just returned from may be full, and only an empty tree has an empty
\* block.  So assert(count < size()) of NodeBlock::insert() never fires, a
\* parent always has room for the block a split adds, and maxKey() is never
\* asked of a block without items.
NodesHaveRoom ==
  \A b \in DOMAIN node :
    /\ Len(node[b].kv) <= Size(node[b])
    /\ Full(node[b]) => pc = "up" /\ b = cur
    /\ node[b].kv = << >> => b = root /\ node[b].leaf /\ pc # "up"

\* Every child pointer of a block leads to a block in use one level below, so
\* the leaves all have the same depth and every descent ends in a leaf.
Balanced ==
  \A b \in DOMAIN node :
    /\ node[b].leaf <=> node[b].level = 0
    /\ ~ node[b].leaf => \A i \in 1 .. Len(node[b].kv) :
         /\ node[b].kv[i].val \in DOMAIN node
         /\ node[node[b].kv[i].val].level + 1 = node[b].level

\* header.next and header.last of siblings point at each other, between
\* blocks of one level, and the root has no sibling: what the split of the
\* root relies on when it links the root without looking at its links.
SiblingsLinked ==
  /\ node[root].next = 0 /\ node[root].last = 0
  /\ \A b \in DOMAIN node :
       /\ node[b].next # b
       /\ node[b].next # 0 => /\ node[b].next \in DOMAIN node
                              /\ node[node[b].next].last = b
                              /\ node[node[b].next].level = node[b].level
       /\ node[b].last # 0 => /\ node[b].last \in DOMAIN node
                              /\ node[node[b].last].next = b

\* Frame j of the stack holds an interior block at its height of the path, and
\* its index leads to the block of the next frame.
OnPath(j) ==
  /\ stack[j].blk \in DOMAIN node
  /\ ~ node[stack[j].blk].leaf
  /\ node[stack[j].blk].level = node[cur].level + Len(stack) - j + 1
  /\ stack[j].idx \in 1 .. Len(node[stack[j].blk].kv)
  /\ node[stack[j].blk].kv[stack[j].idx].val =
       IF j = Len(stack) THEN cur ELSE stack[j + 1].blk

\* The frames of insert() that have not returned are the path from the root to
\* the block of the running frame: the index that a frame chose before it
\* called itself still leads to its son afterwards, when the frame changes
\* that item, though the frames below have split blocks meanwhile.
FramesFormPath ==
  pc # "idle" => /\ cur \in DOMAIN node /\ arg # << >>
                 /\ root = IF stack = << >> THEN cur ELSE stack[1].blk
                 /\ \A j \in 1 .. Len(stack) : OnPath(j)

\* getLeaf() and lub() lead every key, live or removed, to the one item that
\* holds it: no split or change of a separator ever hides a key.
EveryKeyReachable ==
  \A b \in Leaves : \A i \in 1 .. Len(node[b].kv) :
    LET k == node[b].kv[i].key
    IN  GetLeaf(k) = b /\ Lub(node[b].kv, k) = i

\* The item of a parent whose key may be behind: its son is the block that
\* insert() has just returned from, with a key above all others of the tree.
StaleSeparator(b, i) ==
  /\ pc = "up" /\ stack # << >>
  /\ Parent.max /\ b = Parent.blk /\ i = Parent.idx

\* The key beside a child pointer is the largest key of the child, but for the
\* one separator that the frame insert() returns to is about to update.
SeparatorsExact ==
  \A b \in DOMAIN node : ~ node[b].leaf =>
    \A i \in 1 .. Len(node[b].kv) :
      \/ StaleSeparator(b, i)
      \/ node[b].kv[i].key = MaxKey(node[node[b].kv[i].val].kv)

\* header.next leads from a child to the child after it, across the end of
\* the parent to the first child of the parent's own next block.
ChildrenLinked ==
  \A b \in DOMAIN node : ~ node[b].leaf =>
    \A i \in 1 .. Len(node[b].kv) :
      node[node[b].kv[i].val].next =
        IF i < Len(node[b].kv) THEN node[b].kv[i + 1].val
        ELSE IF node[b].next = 0 THEN 0 ELSE node[node[b].next].kv[1].val

\* The keys of a block increase strictly, and those of the block that
\* header.next leads to are above them, on every level of the tree.
KeysSorted ==
  \A b \in DOMAIN node :
    /\ \A i, j \in 1 .. Len(node[b].kv) : i < j => node[b].kv[i].key < node[b].kv[j].key
    /\ node[b].next # 0 => MaxKey(node[b].kv) < node[node[b].next].kv[1].key

\* Every block but the root is the child of one item, below the root.
OneParent ==
  /\ \A b \in DOMAIN node :
       /\ node[b].level <= node[root].level
       /\ b # root => \E p \in DOMAIN node : /\ ~ node[p].leaf
                                             /\ \E i \in 1 .. Len(node[p].kv) : node[p].kv[i].val = b
  /\ \A p, q \in DOMAIN node : ~ node[p].leaf /\ ~ node[q].leaf =>
       \A i \in 1 .. Len(node[p].kv), j \in 1 .. Len(node[q].kv) :
         node[p].kv[i].val = node[q].kv[j].val => p = q /\ i = j

\* Among the blocks of its level, b is the one where k belongs.
Covers(b, k) ==
  /\ node[b].last # 0 => MaxKey(node[node[b].last].kv) < k
  /\ node[b].next # 0 => k <= MaxKey(node[b].kv)

\* insert() works where its key belongs, and its frames agree on whether the
\* key is above all those of the tree: then they all went to the last child.
PutInRange ==
  /\ pc = "down" => /\ Covers(cur, arg[1])
                    /\ stack # << >> => (Parent.max <=> arg[1] > MaxKey(node[cur].kv))
  /\ pc # "idle" =>
       \A j \in 1 .. Len(stack) :
         /\ stack[j].max = Parent.max
         /\ stack[j].max => /\ stack[j].idx = Len(node[stack[j].blk].kv)
                            /\ node[stack[j].blk].next = 0

\* The order of the keys.  The parts need each other: a separator is exact
\* because the children are sorted and linked like their parents, and put()
\* keeps the keys sorted because it works where its key belongs.
Ordered == KeysSorted /\ SeparatorsExact /\ ChildrenLinked /\ OneParent /\ PutInRange

FirstLeaf ==
  LET walk[b \in DOMAIN node] == IF node[b].leaf THEN b ELSE walk[node[b].kv[1].val]
  IN  walk[root]

\* The leaves from b on along header.next, cut off where a link is broken.
LeafChain(b) ==
  LET NextOf(p) == node[p[1]].next       \* p: a leaf and the ones before it
      walk[p \in Leaves \X SUBSET Leaves] ==
        IF NextOf(p) \notin Leaves \ (p[2] \cup {p[1]}) THEN << p[1] >>
        ELSE << p[1] >> \o walk[<< NextOf(p), p[2] \cup {p[1]} >>]
  IN  walk[<< b, {} >>]

\* Following header.next from the first leaf visits every leaf, in strictly
\* increasing order of the keys: what a full scan relies on.
ScanIsOrdered ==
  LET chain == LeafChain(FirstLeaf)
      scan  == FlattenSeq([i \in DOMAIN chain |-> node[chain[i]].kv])
  IN  /\ Leaves \subseteq ToSet(chain)
      /\ \A i \in 1 .. Len(scan) - 1 : scan[i].key < scan[i + 1].key

LiveItems == {p \in Leaves \X (1 .. LeafSize) :
                /\ p[2] <= Len(node[p[1]].kv)
                /\ ~ Removed(node[p[1]].kv[p[2]])}

\* countOfItems(), which info() reports as the number of rows, is never below
\* the number of live items: remove() leaves it alone and a put() that reuses
\* a removed item counts again.
CountCoversLiveItems ==
  Cardinality(LiveItems) <= countOfItem + (IF pc = "up" THEN 1 ELSE 0)

\* What locate() with EXACT_KEY finds of a key; a key whose put() has not
\* returned yet is not there.
Lookup(k) ==
  LET kv == node[GetLeaf(k)].kv
      i  == Lub(kv, k)
  IN  IF Found(kv, i, k) /\ ~ Removed(kv[i]) /\ ~ (pc = "up" /\ k = arg[1])
      THEN kv[i].val ELSE Absent

=============================================================================
