----------------------------- MODULE BufferPool -----------------------------
(***************************************************************************)
(* The buffer manager of lib/buffer.cpp between a BTree and its file: the  *)
(* pool of blocks, the `reserved' bit that marks a block to be written,    *)
(* save(), and the blocks that the tree changes through pointers it keeps. *)
(*                                                                         *)
(* The operations of the tree are reduced to the blocks they get and       *)
(* change.  Of a block only two things are kept: the blocks it refers to   *)
(* (of the metadata, block 0: the blocks below countOfBlock; of a node:    *)
(* its children, or the data blocks of its values), and a counter of its   *)
(* other changes.  Block numbers are handed out in order and no block is   *)
(* ever taken out of the pool while the file is open.                      *)
(***************************************************************************)
EXTENDS Integers, FiniteSets, Functions

CONSTANTS MaxBlock,      \* bound on the blocks of the file
          MaxChange      \* bound on the changes of one block

ASSUME BlockAssumption == MaxBlock \in Nat /\ MaxBlock >= 2
ASSUME ChangeAssumption == MaxChange \in Nat

VARIABLES
  disk,       \* the blocks of the file
  pool,       \* the blocks in memory
  dirty,      \* those of them whose `reserved' is 1
  phase,      \* "open", "saving", "closing" (the save() of ~BTree), "closed"
  todo,       \* the blocks that save() has not come to
  root,       \* the block that BTree::root points to
  cursor,     \* the block that an iterator points to, 0 if none
  cut,        \* auxiliary: a save() began and did not come to its end
  torn        \* auxiliary: the tree in memory comes from such a save()

vars == <<disk, pool, dirty, phase, todo, root, cursor, cut, torn>>

Block == 0 .. MaxBlock - 1
Content == [refs : SUBSET Block, changes : 0 .. MaxChange, root : Block]
Node(refs) == [refs |-> refs, changes |-> 0, root |-> 0]

-----------------------------------------------------------------------------
(* getBlock()                                                              *)

Cached == DOMAIN pool
Get(b) == IF b \in Cached THEN pool[b] ELSE disk[b]

\* The pool once the blocks of S have been got
Load(S) == [b \in Cached \cup S |-> Get(b)]

\* A block that is found in the pool keeps a bit that is set.
MarkAsAsked(S, flag) == IF flag = 1 THEN dirty \cup S ELSE dirty \ S    \* mutant
Mark(S, flag) == IF flag = 1 THEN dirty \cup S ELSE dirty

\* What the tree gets of the blocks it changes: not the root, nor the
\* metadata, which it reaches through the pointers it keeps.
Fetched(S) == S \ {0, root}

Changed(p, b) == [p EXCEPT ![b].changes = @ + 1]
Fresh(b) == Get(b).changes < MaxChange

-----------------------------------------------------------------------------
(* The file that create() makes, and open()                                *)

Init ==
  /\ disk = [b \in Block |-> IF b = 0 THEN [refs |-> {0, 1}, changes |-> 0, root |-> 1]
                             ELSE Node({})]
  /\ pool = << >> /\ dirty = {} /\ phase = "closed" /\ todo = {}
  /\ root = 0 /\ cursor = 0 /\ cut = FALSE /\ torn = FALSE

Open ==
  /\ phase = "closed"
  /\ phase' = "open"
  /\ root' = disk[0].root
  /\ pool' = Restrict(disk, {0, disk[0].root})
  /\ dirty' = {0, disk[0].root}
  /\ torn' = (torn \/ cut)
  /\ UNCHANGED <<disk, todo, cursor, cut>>

-----------------------------------------------------------------------------
(* Operations of the tree                                                  *)

Known == pool[0].refs               \* the blocks below countOfBlock
NewAfterGap(n) == Cardinality(Known) + n + 1                     \* mutant
New(n) == Cardinality(Known) + n    \* the block behind the last one, and the next ones

\* getValue(): a data block, to be read only
ReadValue(b) ==
  /\ phase = "open"
  /\ pool' = Load({b}) /\ dirty' = Mark({b}, 0)
  /\ UNCHANGED <<disk, phase, todo, root, cursor, cut, torn>>

\* A step of a descent or of an iterator: a node, as one that may be modified.
\* The iterator keeps the pointer.
GoTo(b) ==
  /\ phase = "open"
  /\ pool' = Load(Fetched({b})) /\ dirty' = Mark(Fetched({b}), 1)
  /\ cursor' = b
  /\ UNCHANGED <<disk, phase, todo, root, cut, torn>>

\* Iterator::remove() writes through that pointer.
RemoveAtCursor ==
  /\ phase = "open" /\ cursor # 0 /\ Fresh(cursor)
  /\ pool' = Changed(pool, cursor)
  /\ UNCHANGED <<disk, dirty, phase, todo, root, cursor, cut, torn>>

\* put() with room in b, a leaf or a data block, counts the item.
PutInto(b) ==
  /\ phase = "open" /\ Fresh(b) /\ Fresh(0)
  /\ pool' = Changed(Changed(Load(Fetched({b})), b), 0)
  /\ dirty' = Mark(Fetched({b}), 1)
  /\ UNCHANGED <<disk, phase, todo, root, cursor, cut, torn>>

\* put() that adds a block below b: a value goes to a new data block, or a
\* child of b splits and the new node takes `moved' from it.
PutNewBlock(b, child, moved) ==
  /\ phase = "open" /\ New(0) < MaxBlock
  /\ IF child = b THEN moved = {} ELSE child \in Get(b).refs
  /\ LET S == Fetched({b, child, New(0)})
     IN /\ pool' = [Load(S) EXCEPT ![New(0)] = Node(moved),
                                   ![child].refs = Get(child).refs \ moved,
                                   ![b].refs = Get(b).refs \cup {New(0)},
                                   ![0].refs = Known \cup {New(0)}]
        /\ dirty' = Mark(S, 1)
  /\ UNCHANGED <<disk, phase, todo, root, cursor, cut, torn>>

\* put() that splits the root
PutNewRoot(moved) ==
  /\ phase = "open" /\ New(1) < MaxBlock
  /\ pool' = [Load({New(0), New(1)}) EXCEPT
                ![New(0)] = Node(moved), ![New(1)] = Node({root, New(0)}),
                ![root].refs = pool[root].refs \ moved,
                ![0].refs = Known \cup {New(0), New(1)}, ![0].root = New(1)]
  /\ dirty' = Mark({New(0), New(1)}, 1)
  /\ root' = New(1)
  /\ UNCHANGED <<disk, phase, todo, cursor, cut, torn>>

-----------------------------------------------------------------------------
(* save(), and the end of the use of the file                              *)

\* Between two operations.  An iterator is not used after it: those of the
\* handler's writes are local to their call.
BeginSave(p) ==
  /\ phase = "open"
  /\ phase' = p /\ todo' = Cached /\ cut' = TRUE /\ cursor' = 0
  /\ UNCHANGED <<disk, pool, dirty, root, torn>>

\* A turn of the loop, in the order of an unordered map
WriteBlock(b) ==
  /\ phase \in {"saving", "closing"} /\ b \in todo
  /\ todo' = todo \ {b}
  /\ disk' = IF b \in dirty THEN [disk EXCEPT ![b] = pool[b]] ELSE disk
  /\ dirty' = dirty \ {b}
  /\ UNCHANGED <<pool, phase, root, cursor, cut, torn>>

\* BTree::save() marks the blocks it keeps pointers to, whatever the result;
\* the destructor frees the pool.
KeepUnmarked(d) == d                                             \* mutant
KeepMarked(d) == d \cup {0, root}

EndSave ==
  \/ /\ phase = "saving"
     /\ phase' = "open" /\ dirty' = KeepMarked(dirty)
     /\ UNCHANGED <<pool, root>>
  \/ /\ phase = "closing"
     /\ phase' = "closed" /\ dirty' = {} /\ pool' = << >> /\ root' = 0

Saved ==
  /\ todo = {}
  /\ EndSave
  /\ cut' = FALSE
  /\ UNCHANGED <<disk, todo, cursor, torn>>

\* A write fails: its block stays marked and save() gives up.
WriteFails ==
  /\ todo \cap dirty # {}
  /\ EndSave
  /\ todo' = {}
  /\ UNCHANGED <<disk, cursor, cut, torn>>

\* The process ends, at any moment.  It does so too when getBlock() fails to
\* read a block: it sets the bit through a null pointer.
Crash ==
  /\ phase # "closed"
  /\ phase' = "closed" /\ pool' = << >> /\ dirty' = {} /\ todo' = {}
  /\ root' = 0 /\ cursor' = 0
  /\ UNCHANGED <<disk, cut, torn>>

UseTree ==
  \/ \E b \in Known \ {0} :
       \/ ReadValue(b) \/ GoTo(b) \/ PutInto(b)
       \/ \E child \in Known \ {0} : \E moved \in SUBSET Get(child).refs :
            PutNewBlock(b, child, moved)
  \/ RemoveAtCursor
  \/ \E moved \in SUBSET pool[root].refs : PutNewRoot(moved)

Next ==
  \/ Open
  \/ phase = "open" /\ UseTree
  \/ BeginSave("saving") \/ BeginSave("closing")
  \/ \E b \in todo : WriteBlock(b)
  \/ Saved \/ WriteFails \/ Crash

Spec == Init /\ [][Next]_vars

-----------------------------------------------------------------------------
(* Properties                                                              *)

\* Every block has its place and its kind of content, and countOfBlock counts
\* an unbroken row of blocks in memory and in the file.
TypeOK ==
  /\ disk \in [Block -> Content]
  /\ Cached \subseteq Block /\ pool \in [Cached -> Content]
  /\ dirty \subseteq Cached /\ todo \subseteq Cached
  /\ phase \in {"open", "saving", "closing", "closed"}
  /\ phase # "closed" => {0, root} \subseteq Cached
  /\ root \in Block /\ cursor \in Block /\ cut \in BOOLEAN /\ torn \in BOOLEAN
  /\ \E n \in Block : disk[0].refs = 0 .. n
  /\ phase # "closed" => \E n \in Block : Known = 0 .. n

\* A block in memory that differs from the file has its bit set, so the next
\* save() writes it, whether the tree changed it through a block it got or
\* through a pointer it kept, and whatever earlier saves did with it.
DirtyCoversChanges == \A b \in Cached : pool[b] # disk[b] => b \in dirty

\* When save() reports success the file holds everything the tree had in
\* memory when it was called; ~BTree, which ignores what save() did, may
\* forget the pool after it.
SaveLosesNothing ==
  [][cut /\ ~cut' => (\A b \in Cached : disk'[b] = pool[b])]_vars

\* What getNodeBlock() and getValue() assert of every block they are led to:
\* its number is below countOfBlock.
Whole(content) ==
  /\ content[0].root \in content[0].refs
  /\ \A b \in content[0].refs : content[b].refs \subseteq content[0].refs

\* As long as every save() came to its end, the file can be opened again: the
\* metadata counts all the blocks that the others refer to.
FileIsWhole == ~cut /\ ~torn => Whole(disk)

\* What the assertions say without that condition: the tree never refers to a
\* block that its metadata does not count.
ReferencesCounted == phase = "open" => Whole([b \in Block |-> Get(b)])
=============================================================================
