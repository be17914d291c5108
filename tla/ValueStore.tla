----------------------------- MODULE ValueStore ------------------------------
(***************************************************************************)
(* A tree whose values are in data blocks: DataBlock of lib/block.h and    *)
(* lib/block.cpp, and insertValue() and getValue() of lib/btree.cpp.       *)
(*                                                                         *)
(* A data block is a slotted page.  Behind its header a directory grows    *)
(* upwards, two bytes for each record; the records grow downwards from the *)
(* end.  The model keeps every byte behind the header, so a record that is *)
(* written over a directory entry, or over another record, is seen when a  *)
(* value is read back.  Nothing ever takes a record out of a block.        *)
(*                                                                         *)
(* The nodes of the tree are left to BTree.tla: what is here of a put() is *)
(* which item it finds or adds, and whose data block it tries first.       *)
(***************************************************************************)
EXTENDS Integers, FiniteSets, Functions

CONSTANTS Key, Val,
          size,           \* [Val -> Nat]: the bytes of a value
          BlockSize,      \* 4096 in the code
          HeaderSize      \* bytes in front of the directory: 24 in the code

ASSUME KeyAssumption == Key \subseteq Int
ASSUME LayoutAssumption == /\ BlockSize \in Nat /\ HeaderSize \in Nat \ {0}
                           /\ HeaderSize + 2 <= BlockSize
ASSUME SizeAssumption == size \in [Val -> Nat]

VARIABLES
  item,           \* the items of the leaves: for a key that was ever put, the
                  \* Location of its value and whether it is live; `val', the
                  \* value that was put, is auxiliary
  block,          \* the data blocks
  countOfBlock,
  call            \* the put() that is running: its arguments and the block that
                  \* insertValue() tries; Idle if none is

vars == <<item, block, countOfBlock, call>>

Idle == << >>
Location == [index : Nat, position : Nat]
Live == {k \in DOMAIN item : item[k].live}

-----------------------------------------------------------------------------
(* DataBlock                                                               *)

Byte == 0 .. BlockSize - 1
Part(v, i) == <<v, i>>                  \* the i-th byte of v
Entry(offset) == <<"entry", offset>>    \* either byte of a directory entry
Blank == << >>

\* DataBlock::init() and BlockHeader::init()
NewBlock == [count |-> 0, free |-> BlockSize, next |-> 0,
             byte |-> [x \in Byte |-> Blank]]

DirectoryEnd(count) == HeaderSize + 2 * count

\* Mutant: forgets that the record needs a directory entry as well.
FreeSizeNoEntry(blk) == blk.free - DirectoryEnd(blk.count) - 2
FreeSize(blk) == blk.free - DirectoryEnd(blk.count + 1) - 2 - 2

\* insert() leaves two bytes behind each record.
Insert(blk, v) ==
  LET free == blk.free - (size[v] + 2)
  IN  [blk EXCEPT
         !.count = @ + 1,
         !.free = free,
         !.byte = [x \in Byte |->
                     IF x \in {DirectoryEnd(blk.count), DirectoryEnd(blk.count) + 1}
                     THEN Entry(free)
                     ELSE IF x \in free .. free + size[v] - 1 THEN Part(v, x - free)
                     ELSE blk.byte[x]]]

\* get() of the record at loc finds the bytes of v.
Holds(loc, v) ==
  LET blk   == block[loc.index]
      entry == DirectoryEnd(loc.position)
  IN  /\ loc.index \in DOMAIN block
      /\ loc.position < blk.count
      /\ \E offset \in Byte \ {0} :
           /\ blk.byte[entry] = Entry(offset) /\ blk.byte[entry + 1] = Entry(offset)
           /\ \A i \in 0 .. size[v] - 1 :
                offset + i \in Byte /\ blk.byte[offset + i] = Part(v, i)

\* getValue(): what the caller takes for the value, {} if it is none
GetValue(loc) ==
  IF \E v \in Val : Holds(loc, v) THEN CHOOSE v \in Val : Holds(loc, v) ELSE {}

-----------------------------------------------------------------------------
(* put() and remove()                                                      *)

\* A new value is tried first in the data block of the item that is at the
\* index of the new one, or of the last item of the leaf; in an empty leaf, in
\* a new block.  A removed item of the same key is its own neighbour.
Neighbour(k) ==
  LET from == {l \in DOMAIN item : l >= k}
  IN  IF from # {} THEN CHOOSE l \in from : \A m \in from : l <= m
      ELSE CHOOSE l \in DOMAIN item : \A m \in DOMAIN item : m <= l

Hint(k) == IF item = << >> THEN countOfBlock ELSE item[Neighbour(k)].loc.index

\* put() of a live key changes nothing and returns 0.
PutDuplicate(k) == call = Idle /\ k \in Live /\ UNCHANGED vars

PutCall(k, v) ==
  /\ call = Idle /\ k \notin Live
  /\ call' = [key |-> k, val |-> v, at |-> Hint(k)]
  /\ UNCHANGED <<item, block, countOfBlock>>

\* The block that insertValue() looks at: a new one when the index is that of
\* the next block of the file
Tried == IF call.at = countOfBlock THEN NewBlock ELSE block[call.at]
WithTried(blk) == [b \in DOMAIN block \cup {call.at} |-> IF b = call.at THEN blk ELSE block[b]]
CountedNever == countOfBlock                                  \* mutant
Counted == IF call.at = countOfBlock THEN countOfBlock + 1 ELSE countOfBlock

\* Mutant: goes back to the block that is full.
TryNextSame ==
  /\ call # Idle
  /\ FreeSize(Tried) <= size[call.val]
  /\ block' = WithTried(Tried)
  /\ countOfBlock' = Counted
  /\ UNCHANGED <<item, call>>

\* insertValue() calls itself: for the next block, which no block has, or for
\* a new one.
TryNext ==
  /\ call # Idle
  /\ FreeSize(Tried) <= size[call.val]
  /\ block' = WithTried(Tried)
  /\ countOfBlock' = Counted
  /\ call' = [call EXCEPT !.at = IF Tried.next # 0 THEN Tried.next ELSE Counted]
  /\ UNCHANGED item

\* The value goes into the block; then the item gets the Location, and a put()
\* of a new key may add nodes: blocks that are counted and are no data blocks.
StoreValue(nodes) ==
  /\ call # Idle
  /\ FreeSize(Tried) > size[call.val]
  /\ call.key \in DOMAIN item => nodes = 0
  /\ block' = WithTried(Insert(Tried, call.val))
  /\ countOfBlock' = Counted + nodes
  /\ item' = [k \in DOMAIN item \cup {call.key} |->
                IF k # call.key THEN item[k]
                ELSE [loc |-> [index |-> call.at, position |-> Tried.count],
                      live |-> TRUE, val |-> call.val]]
  /\ call' = Idle

\* getBlock() has no memory for the block: put() returns -1.
PutError ==
  /\ call # Idle
  /\ call' = Idle
  /\ UNCHANGED <<item, block, countOfBlock>>

\* Iterator::remove()
RemoveItem(k) ==
  /\ call = Idle /\ k \in Live
  /\ item' = [item EXCEPT ![k].live = FALSE]
  /\ UNCHANGED <<block, countOfBlock, call>>

Init == item = << >> /\ block = << >> /\ countOfBlock = 2 /\ call = Idle

PutStep == TryNext \/ (\E nodes \in Nat : StoreValue(nodes)) \/ PutError

Next == \/ \E k \in Key, v \in Val : PutCall(k, v)
        \/ \E k \in Key : RemoveItem(k) \/ PutDuplicate(k)
        \/ PutStep

Spec == Init /\ [][Next]_vars

-----------------------------------------------------------------------------
(* Properties                                                              *)

Item == [loc : Location, live : BOOLEAN, val : Val]
Cell == {Blank} \cup {Part(v, i) : v \in Val, i \in Byte} \cup {Entry(x) : x \in Byte}
DataBlock == [count : Nat, free : Byte \cup {BlockSize}, next : {0}, byte : [Byte -> Cell]]

\* Every variable has its type; data blocks are blocks of the file behind the
\* metadata and the first root.
TypeOK ==
  /\ DOMAIN item \subseteq Key /\ item \in [DOMAIN item -> Item]
  /\ countOfBlock \in Nat /\ countOfBlock >= 2
  /\ DOMAIN block \subseteq 2 .. countOfBlock - 1 /\ block \in [DOMAIN block -> DataBlock]
  /\ call \in {Idle} \cup [key : Key, val : Val, at : 2 .. countOfBlock]
  /\ call # Idle => call.at \in DOMAIN block \cup {countOfBlock}

\* Every value that was put can be read at its Location, whatever was put in
\* its block since, and that of a removed key too: no record is written over
\* another one, over the directory or behind the block.
ValuesIntact == \A k \in DOMAIN item : Holds(item[k].loc, item[k].val)
=============================================================================
