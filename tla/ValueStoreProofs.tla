-------------------------- MODULE ValueStoreProofs ---------------------------
(***************************************************************************)
(* Proofs about ValueStore: for blocks and values of every size, in any    *)
(* number, no record is written over another one, over the directory or    *)
(* behind the block.                                                       *)
(***************************************************************************)
EXTENDS ValueStore, WellFoundedInduction, TLAPS

(***************************************************************************)
(* The inductive invariant.  ValuesIntact says nothing of the places that  *)
(* are written next: the records of a block are at `free' or behind it,    *)
(* and the directory ends in front of it.                                  *)
(***************************************************************************)
Room(blk) == DirectoryEnd(blk.count) + 2 <= blk.free

RecordAt(blk, p, v, offset) ==
  /\ p < blk.count
  /\ offset >= blk.free /\ offset + size[v] <= BlockSize
  /\ blk.byte[DirectoryEnd(p)] = Entry(offset)
  /\ blk.byte[DirectoryEnd(p) + 1] = Entry(offset)
  /\ \A i \in 0 .. size[v] - 1 : blk.byte[offset + i] = Part(v, i)

Stored(blk, p, v) == \E offset \in Byte \ {0} : RecordAt(blk, p, v, offset)

AllRoom == \A b \in DOMAIN block : Room(block[b])
AllStored ==
  \A k \in DOMAIN item : /\ item[k].loc.index \in DOMAIN block
                         /\ Stored(block[item[k].loc.index], item[k].loc.position, item[k].val)
\* The keys that were put lie between two keys, though Key may be infinite:
\* Neighbour and the iterator of the client find the last and the first one.
Bounded == \E low, top \in Int : \A k \in DOMAIN item : low <= k /\ k <= top

Inv == TypeOK /\ AllRoom /\ AllStored /\ Bounded

USE KeyAssumption, LayoutAssumption, SizeAssumption

-----------------------------------------------------------------------------
(* The slotted page                                                        *)

\* A new block is empty, and has room for one entry.
LEMMA NewBlockType == NewBlock \in DataBlock /\ Room(NewBlock)
<1>1. NewBlock.byte \in [Byte -> Cell]
  BY DEF NewBlock, Cell
<1>2. NewBlock.count = 0 /\ NewBlock.free = BlockSize /\ NewBlock.next = 0
  BY DEF NewBlock
<1>3. NewBlock \in DataBlock
  BY <1>1 DEF NewBlock, DataBlock
<1>4. Room(NewBlock)
  BY <1>2 DEF Room, DirectoryEnd
<1> QED
  BY <1>3, <1>4

\* What freeSize() and the comparison with the size say of the places that
\* insert() writes: the entry is in front of the record.
LEMMA Places ==
  ASSUME NEW blk \in DataBlock, NEW v \in Val, FreeSize(blk) > size[v]
  PROVE  LET free == blk.free - (size[v] + 2)
         IN  /\ blk.count \in Nat /\ size[v] \in Nat /\ blk.free \in Nat /\ blk.free <= BlockSize
             /\ free \in Byte \ {0}
             /\ DirectoryEnd(blk.count) \in Byte /\ DirectoryEnd(blk.count) + 1 \in Byte
             /\ DirectoryEnd(blk.count + 1) = DirectoryEnd(blk.count) + 2
             /\ DirectoryEnd(blk.count) + 4 < free
             /\ free + size[v] + 2 = blk.free
<1>1. blk.count \in Nat /\ size[v] \in Nat /\ blk.free \in Nat /\ blk.free <= BlockSize
  BY DEF DataBlock, Byte
<1>2. blk.free - (HeaderSize + 2 * (blk.count + 1)) - 2 - 2 > size[v]
  BY DEF FreeSize, DirectoryEnd
<1> QED
  BY <1>1, <1>2 DEF DirectoryEnd, Byte

\* Insert leaves a block a block, with room.
LEMMA InsertType ==
  ASSUME NEW blk \in DataBlock, NEW v \in Val, FreeSize(blk) > size[v]
  PROVE  /\ Insert(blk, v) \in DataBlock /\ Room(Insert(blk, v))
         /\ Insert(blk, v).count = blk.count + 1
         /\ Insert(blk, v).free = blk.free - (size[v] + 2)
<1> DEFINE free == blk.free - (size[v] + 2)
           bytes == [x \in Byte |->
                     IF x \in {DirectoryEnd(blk.count), DirectoryEnd(blk.count) + 1}
                     THEN Entry(free)
                     ELSE IF x \in free .. free + size[v] - 1 THEN Part(v, x - free)
                     ELSE blk.byte[x]]
<1>1. Insert(blk, v) = [blk EXCEPT !.count = @ + 1, !.free = free, !.byte = bytes]
  BY DEF Insert
<1>2. /\ blk.count \in Nat /\ size[v] \in Nat /\ free \in Byte \ {0}
      /\ DirectoryEnd(blk.count + 1) = DirectoryEnd(blk.count) + 2
      /\ DirectoryEnd(blk.count) \in Byte
      /\ DirectoryEnd(blk.count) + 4 < free
  BY Places
<1>3. bytes \in [Byte -> Cell]
  <2> SUFFICES ASSUME NEW x \in Byte PROVE bytes[x] \in Cell
    OBVIOUS
  <2>1. Entry(free) \in Cell
    BY <1>2 DEF Cell
  <2>2. ASSUME x \in free .. free + size[v] - 1 PROVE Part(v, x - free) \in Cell
    <3>1. x - free \in Byte
      BY <2>2, <1>2 DEF Byte
    <3> QED
      BY <3>1 DEF Cell
  <2>3. blk.byte[x] \in Cell
    BY DEF DataBlock
  <2> QED
    BY <2>1, <2>2, <2>3
<1> HIDE DEF bytes, free
<1>4. /\ Insert(blk, v).count = blk.count + 1 /\ Insert(blk, v).free = free
      /\ Insert(blk, v) \in DataBlock
  <2>1. Insert(blk, v) = [count |-> blk.count + 1, free |-> free, next |-> blk.next, byte |-> bytes]
    BY <1>1 DEF DataBlock
  <2>2. blk.count + 1 \in Nat /\ free \in Byte \cup {BlockSize} /\ blk.next \in {0}
    BY <1>2 DEF DataBlock
  <2> QED
    BY <2>1, <2>2, <1>3 DEF DataBlock
<1>5. Room(Insert(blk, v))
  BY <1>2, <1>4 DEF Room, Byte
<1> QED
  BY <1>4, <1>5 DEF free

\* Which bytes Insert writes
LEMMA InsertBytes ==
  ASSUME NEW blk \in DataBlock, NEW v \in Val, FreeSize(blk) > size[v], NEW x \in Byte
  PROVE  LET free == blk.free - (size[v] + 2)
         IN  Insert(blk, v).byte[x] =
               IF x \in {DirectoryEnd(blk.count), DirectoryEnd(blk.count) + 1} THEN Entry(free)
               ELSE IF x \in free .. free + size[v] - 1 THEN Part(v, x - free)
               ELSE blk.byte[x]
BY DEF Insert, DataBlock

\* The records that are in the block stay where they are.
LEMMA InsertKeeps ==
  ASSUME NEW blk \in DataBlock, Room(blk), NEW v \in Val, FreeSize(blk) > size[v],
         NEW p \in Nat, NEW w \in Val, Stored(blk, p, w)
  PROVE  Stored(Insert(blk, v), p, w)
<1> DEFINE new == Insert(blk, v)
           free == blk.free - (size[v] + 2)
<1>1. PICK offset \in Byte \ {0} : RecordAt(blk, p, w, offset)
  BY DEF Stored
<1>2. /\ blk.count \in Nat /\ size[v] \in Nat /\ blk.free \in Nat /\ blk.free <= BlockSize
      /\ free \in Byte \ {0}
      /\ DirectoryEnd(blk.count) + 4 < free
      /\ free + size[v] + 2 = blk.free
      /\ DirectoryEnd(blk.count) \in Nat
  BY Places DEF Byte
<1>3. new.count = blk.count + 1 /\ new.free = free
  BY InsertType
<1>4. size[w] \in Nat /\ offset \in Nat /\ offset >= blk.free /\ offset + size[w] <= BlockSize /\ p < blk.count
  BY <1>1 DEF RecordAt, Byte
<1>5. ASSUME NEW x \in Byte, x < DirectoryEnd(blk.count) \/ x >= blk.free
      PROVE  new.byte[x] = blk.byte[x]
  <2>1. /\ x \notin {DirectoryEnd(blk.count), DirectoryEnd(blk.count) + 1}
        /\ x \notin free .. free + size[v] - 1
    BY <1>5, <1>2 DEF Byte
  <2> QED
    BY <2>1, InsertBytes
<1>6. /\ DirectoryEnd(p) \in Byte /\ DirectoryEnd(p) < DirectoryEnd(blk.count)
      /\ DirectoryEnd(p) + 1 \in Byte /\ DirectoryEnd(p) + 1 < DirectoryEnd(blk.count)
  BY <1>2, <1>4 DEF DirectoryEnd, Byte
<1>7. ASSUME NEW i \in 0 .. size[w] - 1
      PROVE  offset + i \in Byte /\ offset + i >= blk.free
  BY <1>2, <1>4 DEF Byte
<1> HIDE DEF new, free
<1>8. /\ new.byte[DirectoryEnd(p)] = Entry(offset)
      /\ new.byte[DirectoryEnd(p) + 1] = Entry(offset)
  BY <1>1, <1>5, <1>6 DEF RecordAt
<1>9. ASSUME NEW i \in 0 .. size[w] - 1
      PROVE  new.byte[offset + i] = Part(w, i)
  BY <1>1, <1>5, <1>7 DEF RecordAt
<1>10. p < new.count /\ offset >= new.free
  BY <1>2, <1>3, <1>4
<1>11. RecordAt(new, p, w, offset)
  BY <1>4, <1>8, <1>9, <1>10 DEF RecordAt
<1> QED
  BY <1>11 DEF Stored, new

\* ... and the new one is where its entry says.
LEMMA InsertStores ==
  ASSUME NEW blk \in DataBlock, NEW v \in Val, FreeSize(blk) > size[v]
  PROVE  Stored(Insert(blk, v), blk.count, v)
<1> DEFINE new == Insert(blk, v)
           free == blk.free - (size[v] + 2)
<1>1. /\ blk.count \in Nat /\ size[v] \in Nat /\ blk.free \in Nat /\ blk.free <= BlockSize
      /\ free \in Byte \ {0}
      /\ DirectoryEnd(blk.count) \in Byte /\ DirectoryEnd(blk.count) + 1 \in Byte
      /\ DirectoryEnd(blk.count) + 4 < free
      /\ free + size[v] + 2 = blk.free
  BY Places
<1>2. new.count = blk.count + 1 /\ new.free = free
  BY InsertType
<1>3. /\ new.byte[DirectoryEnd(blk.count)] = Entry(free)
      /\ new.byte[DirectoryEnd(blk.count) + 1] = Entry(free)
  BY <1>1, InsertBytes
<1>4. ASSUME NEW i \in 0 .. size[v] - 1
      PROVE  new.byte[free + i] = Part(v, i)
  <2> DEFINE x == free + i
  <2>1. /\ x \in Byte /\ x \in free .. free + size[v] - 1 /\ x - free = i
        /\ x \notin {DirectoryEnd(blk.count), DirectoryEnd(blk.count) + 1}
    BY <1>1 DEF Byte
  <2> HIDE DEF x
  <2>2. new.byte[x] = Part(v, x - free)
    BY <2>1, InsertBytes
  <2> QED
    BY <2>1, <2>2 DEF x
<1> HIDE DEF new, free
<1>5. free \in Nat /\ DirectoryEnd(blk.count) \in Nat
  BY <1>1 DEF Byte
<1>6. blk.count < new.count /\ free >= new.free /\ free + size[v] <= BlockSize
  BY <1>1, <1>2, <1>5
<1>7. RecordAt(new, blk.count, v, free)
  BY <1>3, <1>4, <1>6 DEF RecordAt
<1> QED
  BY <1>1, <1>7 DEF Stored, new

-----------------------------------------------------------------------------
(* The data block that a put() tries first                                 *)

LEMMA LeastExists ==
  ASSUME NEW S, S \subseteq Int, S # {}, NEW low \in Int, \A x \in S : low <= x
  PROVE  \E m \in S : \A x \in S : m <= x
<1> DEFINE T == {x - low : x \in S}
<1>1. T \subseteq Nat /\ T # {}
  <2>1. ASSUME NEW x \in S PROVE x - low \in Nat
    OBVIOUS
  <2>2. T \subseteq Nat
    BY <2>1
  <2>3. PICK x \in S : TRUE
    OBVIOUS
  <2>4. x - low \in T
    OBVIOUS
  <2> QED
    BY <2>2, <2>4
<1> HIDE DEF T
<1>2. PICK t \in T : \A y \in T : ~ (<<y, t>> \in OpToRel(<, Nat))
  BY <1>1, NatLessThanWellFounded, WFMin, Zenon
<1>3. ASSUME NEW y \in T PROVE t <= y
  <2>1. y \in Nat /\ t \in Nat
    BY <1>1
  <2>2. ~ (y < t)
    BY <1>2, <2>1 DEF OpToRel
  <2> QED
    BY <2>1, <2>2
<1>4. PICK m \in S : t = m - low
  BY DEF T
<1>5. ASSUME NEW x \in S PROVE m <= x
  <2>1. t <= x - low
    BY <1>3 DEF T
  <2> QED
    BY <2>1, <1>4
<1> QED
  BY <1>5

LEMMA GreatestExists ==
  ASSUME NEW S, S \subseteq Int, S # {}, NEW high \in Int, \A x \in S : x <= high
  PROVE  \E m \in S : \A x \in S : x <= m
<1> DEFINE T == {0 - x : x \in S}
<1>1. T \subseteq Int /\ T # {} /\ 0 - high \in Int /\ \A x \in T : 0 - high <= x
  <2>1. ASSUME NEW x \in S PROVE 0 - x \in Int /\ 0 - high <= 0 - x
    OBVIOUS
  <2>2. T \subseteq Int /\ \A x \in T : 0 - high <= x
    BY <2>1
  <2>3. PICK x \in S : TRUE
    OBVIOUS
  <2>4. 0 - x \in T
    OBVIOUS
  <2> QED
    BY <2>2, <2>4
<1> HIDE DEF T
<1>2. PICK t \in T : \A x \in T : t <= x
  BY <1>1, LeastExists
<1>3. PICK m \in S : t = 0 - m
  BY DEF T
<1>4. ASSUME NEW x \in S PROVE x <= m
  <2>1. t <= 0 - x
    BY <1>2 DEF T
  <2> QED
    BY <2>1, <1>3
<1> QED
  BY <1>4

\* A new item of a tree that is not empty has a neighbour.
LEMMA NeighbourIsItem ==
  ASSUME Inv, NEW k \in Key, DOMAIN item # {}
  PROVE  Neighbour(k) \in DOMAIN item
<1> DEFINE from == {l \in DOMAIN item : l >= k}
<1>1. DOMAIN item \subseteq Int /\ k \in Int
  BY DEF Inv, TypeOK
<1>2. CASE from # {}
  <2>1. from \subseteq Int /\ \A x \in from : k <= x
    BY <1>1
  <2>2. \E l \in from : \A m \in from : l <= m
    BY <2>1, <1>1, <1>2, LeastExists
  <2> QED
    BY <2>2, <1>2 DEF Neighbour
<1>3. CASE from = {}
  <2>1. PICK top \in Int : \A l \in DOMAIN item : l <= top
    BY DEF Inv, Bounded
  <2>2. \E l \in DOMAIN item : \A m \in DOMAIN item : m <= l
    BY <2>1, <1>1, GreatestExists
  <2> QED
    BY <2>2, <1>3 DEF Neighbour
<1> QED
  BY <1>2, <1>3

LEMMA HintIsBlock ==
  ASSUME Inv, NEW k \in Key
  PROVE  Hint(k) \in DOMAIN block \cup {countOfBlock} /\ Hint(k) \in 2 .. countOfBlock
<1>1. DOMAIN block \subseteq 2 .. countOfBlock - 1 /\ countOfBlock \in Nat /\ countOfBlock >= 2
  BY DEF Inv, TypeOK
<1>2. CASE DOMAIN item = {}
  <2>1. item = << >>
    BY <1>2 DEF Inv, TypeOK
  <2> QED
    BY <2>1, <1>1 DEF Hint
<1>3. CASE DOMAIN item # {}
  <2>1. Neighbour(k) \in DOMAIN item
    BY <1>3, NeighbourIsItem
  <2>2. item[Neighbour(k)].loc.index \in DOMAIN block
    BY <2>1 DEF Inv, AllStored
  <2>3. item # << >>
    BY <1>3
  <2> QED
    BY <2>2, <2>3, <1>1 DEF Hint
<1> QED
  BY <1>2, <1>3

-----------------------------------------------------------------------------
(* insertValue()                                                           *)

\* The block that is looked at is a block with room, which no other one follows.
LEMMA TriedIsBlock ==
  ASSUME Inv, call # Idle
  PROVE  /\ call.key \in Key /\ call.val \in Val /\ call.at \in 2 .. countOfBlock
         /\ Tried \in DataBlock /\ Room(Tried) /\ Tried.next = 0
         /\ call.at \in DOMAIN block => call.at # countOfBlock /\ Tried = block[call.at]
         /\ Counted \in Nat /\ Counted >= countOfBlock /\ Counted > call.at
<1>1. call \in [key : Key, val : Val, at : 2 .. countOfBlock]
  BY DEF Inv, TypeOK
<1>2. /\ countOfBlock \in Nat /\ DOMAIN block \subseteq 2 .. countOfBlock - 1
      /\ block \in [DOMAIN block -> DataBlock]
      /\ call.at \in DOMAIN block \cup {countOfBlock}
  BY DEF Inv, TypeOK
<1>3. call.at \in DOMAIN block => call.at # countOfBlock /\ Tried = block[call.at]
  BY <1>2 DEF Tried
<1>4. Tried \in DataBlock /\ Room(Tried)
  BY <1>2, <1>3, NewBlockType DEF Tried, Inv, AllRoom
<1>5. Tried.next = 0
  BY <1>4 DEF DataBlock
<1>6. Counted \in Nat /\ Counted >= countOfBlock /\ Counted > call.at
  BY <1>1, <1>2 DEF Counted
<1> QED
  BY <1>1, <1>3, <1>4, <1>5, <1>6

\* Putting a block back that still has the records of the one that was tried
LEMMA WithTriedKeeps ==
  ASSUME Inv, call # Idle, NEW blk \in DataBlock, Room(blk),
         \A p \in Nat, w \in Val : Stored(Tried, p, w) => Stored(blk, p, w)
  PROVE  /\ DOMAIN WithTried(blk) = DOMAIN block \cup {call.at}
         /\ WithTried(blk)[call.at] = blk
         /\ DOMAIN WithTried(blk) \subseteq 2 .. Counted - 1
         /\ WithTried(blk) \in [DOMAIN WithTried(blk) -> DataBlock]
         /\ \A b \in DOMAIN WithTried(blk) : Room(WithTried(blk)[b])
         /\ \A k \in DOMAIN item :
              /\ item[k].loc.index \in DOMAIN WithTried(blk)
              /\ Stored(WithTried(blk)[item[k].loc.index], item[k].loc.position, item[k].val)
<1>1. /\ WithTried(blk) = [b \in DOMAIN block \cup {call.at} |-> IF b = call.at THEN blk ELSE block[b]]
      /\ DOMAIN WithTried(blk) = DOMAIN block \cup {call.at}
  BY DEF WithTried
<1>2. WithTried(blk)[call.at] = blk /\ \A b \in DOMAIN block : b # call.at => WithTried(blk)[b] = block[b]
  BY <1>1
<1>3. /\ countOfBlock \in Nat /\ DOMAIN block \subseteq 2 .. countOfBlock - 1
      /\ block \in [DOMAIN block -> DataBlock]
      /\ item \in [DOMAIN item -> Item]
  BY DEF Inv, TypeOK
<1>4. DOMAIN WithTried(blk) \subseteq 2 .. Counted - 1
  BY <1>1, <1>3, TriedIsBlock
<1>5. WithTried(blk) \in [DOMAIN WithTried(blk) -> DataBlock]
  BY <1>1, <1>3
<1>6. ASSUME NEW b \in DOMAIN WithTried(blk) PROVE Room(WithTried(blk)[b])
  BY <1>1, <1>2 DEF Inv, AllRoom
<1>7. ASSUME NEW k \in DOMAIN item
      PROVE  /\ item[k].loc.index \in DOMAIN WithTried(blk)
             /\ Stored(WithTried(blk)[item[k].loc.index], item[k].loc.position, item[k].val)
  <2>1. /\ item[k].loc.index \in DOMAIN block
        /\ Stored(block[item[k].loc.index], item[k].loc.position, item[k].val)
    BY DEF Inv, AllStored
  <2>2. item[k].loc.position \in Nat /\ item[k].val \in Val
    BY <1>3 DEF Item, Location
  <2>3. CASE item[k].loc.index = call.at
    <3>1. Stored(Tried, item[k].loc.position, item[k].val)
      BY <2>1, <2>3, TriedIsBlock
    <3> QED
      BY <3>1, <2>1, <2>2, <2>3, <1>1, <1>2
  <2>4. CASE item[k].loc.index # call.at
    BY <2>1, <2>4, <1>1, <1>2
  <2> QED
    BY <2>3, <2>4
<1> QED
  BY <1>1, <1>2, <1>4, <1>5, <1>6, <1>7

-----------------------------------------------------------------------------
(* The steps                                                               *)

LEMMA InitInv == Init => Inv
<1> SUFFICES ASSUME Init PROVE Inv
  OBVIOUS
<1>1. DOMAIN item = {} /\ DOMAIN block = {}
  BY DEF Init
<1>2. item \in [DOMAIN item -> Item] /\ block \in [DOMAIN block -> DataBlock]
  BY <1>1 DEF Init
<1>3. TypeOK
  BY <1>1, <1>2 DEF Init, TypeOK
<1>4. AllRoom /\ AllStored /\ Bounded
  BY <1>1 DEF AllRoom, AllStored, Bounded
<1> QED
  BY <1>3, <1>4 DEF Inv

LEMMA StutterInv == Inv /\ UNCHANGED vars => Inv'
BY DEF Inv, TypeOK, AllRoom, AllStored, Bounded, vars

LEMMA PutCallInv == ASSUME Inv, NEW k \in Key, NEW v \in Val, PutCall(k, v) PROVE Inv'
<1>1. /\ call' = [key |-> k, val |-> v, at |-> Hint(k)]
      /\ UNCHANGED <<item, block, countOfBlock>>
  BY DEF PutCall
<1>2. Hint(k) \in DOMAIN block \cup {countOfBlock} /\ Hint(k) \in 2 .. countOfBlock
  BY HintIsBlock
<1>3. call' \in [key : Key, val : Val, at : 2 .. countOfBlock] /\ call'.at \in DOMAIN block \cup {countOfBlock}
  BY <1>1, <1>2
<1>4. TypeOK'
  BY <1>1, <1>3 DEF Inv, TypeOK
<1>5. (AllRoom /\ AllStored /\ Bounded)'
  BY <1>1 DEF Inv, AllRoom, AllStored, Bounded
<1> QED
  BY <1>4, <1>5 DEF Inv

LEMMA TryNextInv == ASSUME Inv, TryNext PROVE Inv'
<1>1. /\ call # Idle /\ block' = WithTried(Tried) /\ countOfBlock' = Counted /\ item' = item
      /\ call' = [call EXCEPT !.at = IF Tried.next # 0 THEN Tried.next ELSE Counted]
  BY DEF TryNext
<1>2. /\ Tried \in DataBlock /\ Room(Tried) /\ Tried.next = 0
      /\ call.key \in Key /\ call.val \in Val /\ call.at \in 2 .. countOfBlock
      /\ Counted \in Nat /\ Counted >= countOfBlock /\ Counted > call.at
  BY <1>1, TriedIsBlock
<1>3. /\ DOMAIN WithTried(Tried) \subseteq 2 .. Counted - 1
      /\ WithTried(Tried) \in [DOMAIN WithTried(Tried) -> DataBlock]
      /\ \A b \in DOMAIN WithTried(Tried) : Room(WithTried(Tried)[b])
      /\ \A k \in DOMAIN item :
           /\ item[k].loc.index \in DOMAIN WithTried(Tried)
           /\ Stored(WithTried(Tried)[item[k].loc.index], item[k].loc.position, item[k].val)
  BY <1>1, <1>2, WithTriedKeeps
<1>4. countOfBlock >= 2 /\ countOfBlock \in Nat
  BY DEF Inv, TypeOK
<1>5. call' \in [key : Key, val : Val, at : 2 .. countOfBlock'] /\ call'.at = countOfBlock'
  <2>1. call \in [key : Key, val : Val, at : 2 .. countOfBlock]
    BY <1>1 DEF Inv, TypeOK
  <2>2. call' = [call EXCEPT !.at = Counted]
    BY <1>1, <1>2
  <2>3. call' = [key |-> call.key, val |-> call.val, at |-> Counted]
    BY <2>1, <2>2
  <2>4. Counted \in 2 .. Counted
    BY <1>2, <1>4
  <2> QED
    BY <2>3, <2>4, <1>1, <1>2
<1>6. TypeOK'
  <2>1. DOMAIN item \subseteq Key /\ item \in [DOMAIN item -> Item]
    BY DEF Inv, TypeOK
  <2>2. countOfBlock' \in Nat /\ countOfBlock' >= 2
    BY <1>1, <1>2, <1>4
  <2>3. DOMAIN block' \subseteq 2 .. countOfBlock' - 1 /\ block' \in [DOMAIN block' -> DataBlock]
    BY <1>1, <1>3
  <2> QED
    BY <1>1, <1>5, <2>1, <2>2, <2>3 DEF TypeOK
<1>7. AllRoom' /\ AllStored' /\ Bounded'
  BY <1>1, <1>3 DEF Inv, AllRoom, AllStored, Bounded
<1> QED
  BY <1>6, <1>7 DEF Inv

LEMMA StoreValueInv == ASSUME Inv, NEW nodes \in Nat, StoreValue(nodes) PROVE Inv'
<1> DEFINE new == Insert(Tried, call.val)
           loc == [index |-> call.at, position |-> Tried.count]
<1>1. /\ call # Idle /\ FreeSize(Tried) > size[call.val]
      /\ block' = WithTried(new) /\ countOfBlock' = Counted + nodes /\ call' = Idle
      /\ item' = [k \in DOMAIN item \cup {call.key} |->
                    IF k # call.key THEN item[k]
                    ELSE [loc |-> loc, live |-> TRUE, val |-> call.val]]
  BY DEF StoreValue
<1>2. /\ Tried \in DataBlock /\ Room(Tried)
      /\ call.key \in Key /\ call.val \in Val /\ call.at \in 2 .. countOfBlock
      /\ Counted \in Nat /\ Counted >= countOfBlock /\ Counted > call.at
  BY <1>1, TriedIsBlock
<1>3. new \in DataBlock /\ Room(new)
  BY <1>1, <1>2, InsertType
<1>4. \A p \in Nat, w \in Val : Stored(Tried, p, w) => Stored(new, p, w)
  BY <1>1, <1>2, InsertKeeps
<1>5. Stored(new, Tried.count, call.val)
  BY <1>1, <1>2, InsertStores
<1> HIDE DEF new
<1>6. /\ DOMAIN WithTried(new) = DOMAIN block \cup {call.at}
      /\ WithTried(new)[call.at] = new
      /\ DOMAIN WithTried(new) \subseteq 2 .. Counted - 1
      /\ WithTried(new) \in [DOMAIN WithTried(new) -> DataBlock]
      /\ \A b \in DOMAIN WithTried(new) : Room(WithTried(new)[b])
      /\ \A k \in DOMAIN item :
           /\ item[k].loc.index \in DOMAIN WithTried(new)
           /\ Stored(WithTried(new)[item[k].loc.index], item[k].loc.position, item[k].val)
  BY <1>1, <1>3, <1>4, WithTriedKeeps
<1>7. Tried.count \in Nat /\ call.at \in Nat /\ loc \in Location
  <2>1. Tried.count \in Nat
    BY <1>2 DEF DataBlock
  <2>2. call.at \in Nat
    BY <1>2
  <2> QED
    BY <2>1, <2>2 DEF Location
<1> HIDE DEF loc
<1>8. /\ DOMAIN item' = DOMAIN item \cup {call.key}
      /\ item'[call.key] = [loc |-> loc, live |-> TRUE, val |-> call.val]
      /\ \A k \in DOMAIN item : k # call.key => item'[k] = item[k]
  BY <1>1
<1>9. TypeOK'
  <2>1. DOMAIN item \subseteq Key /\ item \in [DOMAIN item -> Item] /\ countOfBlock \in Nat /\ countOfBlock >= 2
    BY DEF Inv, TypeOK
  <2>2. [loc |-> loc, live |-> TRUE, val |-> call.val] \in Item
    BY <1>2, <1>7 DEF Item
  <2>3. DOMAIN item' \subseteq Key /\ item' \in [DOMAIN item' -> Item]
    BY <1>1, <1>2, <2>1, <2>2
  <2>4. countOfBlock' \in Nat /\ countOfBlock' >= 2 /\ countOfBlock' >= Counted
    BY <1>1, <1>2, <2>1
  <2>5. DOMAIN block' \subseteq 2 .. countOfBlock' - 1
    BY <1>1, <1>2, <1>6, <2>4
  <2>6. block' \in [DOMAIN block' -> DataBlock]
    BY <1>1, <1>6
  <2> QED
    BY <1>1, <2>3, <2>4, <2>5, <2>6 DEF TypeOK
<1>10. AllRoom'
  BY <1>1, <1>6 DEF AllRoom
<1>11. AllStored'
  <2> SUFFICES ASSUME NEW k \in DOMAIN item'
               PROVE  /\ item'[k].loc.index \in DOMAIN block'
                      /\ Stored(block'[item'[k].loc.index], item'[k].loc.position, item'[k].val)
    BY DEF AllStored
  <2>1. CASE k = call.key
    <3>1. item'[k].loc.index = call.at /\ item'[k].loc.position = Tried.count /\ item'[k].val = call.val
      BY <1>8, <2>1 DEF loc
    <3> QED
      BY <3>1, <1>1, <1>5, <1>6
  <2>2. CASE k # call.key
    BY <2>2, <1>1, <1>6, <1>8
  <2> QED
    BY <2>1, <2>2
<1>12. Bounded'
  <2>1. PICK low, top \in Int : \A k \in DOMAIN item : low <= k /\ k <= top
    BY DEF Inv, Bounded
  <2>2. DOMAIN item \subseteq Int /\ call.key \in Int
    BY <1>2 DEF Inv, TypeOK
  <2>3. PICK l \in Int : l <= low /\ l <= call.key
    BY <2>2
  <2>4. PICK t \in Int : top <= t /\ call.key <= t
    BY <2>2
  <2>5. ASSUME NEW k \in DOMAIN item' PROVE l <= k /\ k <= t
    BY <2>1, <2>2, <2>3, <2>4, <1>8
  <2> QED
    BY <2>5 DEF Bounded
<1> QED
  BY <1>9, <1>10, <1>11, <1>12 DEF Inv

LEMMA PutErrorInv == ASSUME Inv, PutError PROVE Inv'
<1>1. call' = Idle /\ UNCHANGED <<item, block, countOfBlock>>
  BY DEF PutError
<1>2. TypeOK'
  BY <1>1 DEF Inv, TypeOK
<1> QED
  BY <1>1, <1>2 DEF Inv, AllRoom, AllStored, Bounded

LEMMA RemoveItemInv == ASSUME Inv, NEW k \in Key, RemoveItem(k) PROVE Inv'
<1>1. k \in DOMAIN item /\ item' = [item EXCEPT ![k].live = FALSE] /\ UNCHANGED <<block, countOfBlock, call>>
  BY DEF RemoveItem, Live
<1>2. item \in [DOMAIN item -> Item]
  BY DEF Inv, TypeOK
<1>3. /\ DOMAIN item' = DOMAIN item
      /\ \A l \in DOMAIN item : /\ item'[l] \in Item
                                /\ item'[l].loc = item[l].loc /\ item'[l].val = item[l].val
  BY <1>1, <1>2 DEF Item
<1>4. item' \in [DOMAIN item' -> Item]
  <2>1. item' = [l \in DOMAIN item |-> IF l = k THEN [item[k] EXCEPT !.live = FALSE] ELSE item[l]]
    BY <1>1, <1>2
  <2> QED
    BY <2>1, <1>3
<1>5. TypeOK'
  BY <1>1, <1>3, <1>4 DEF Inv, TypeOK
<1>6. (AllRoom /\ AllStored /\ Bounded)'
  BY <1>1, <1>3 DEF Inv, AllRoom, AllStored, Bounded
<1> QED
  BY <1>5, <1>6 DEF Inv

LEMMA NextInv == Inv /\ [Next]_vars => Inv'
<1> SUFFICES ASSUME Inv, [Next]_vars PROVE Inv'
  OBVIOUS
<1>1. ASSUME NEW k \in Key, NEW v \in Val, PutCall(k, v) PROVE Inv'
  BY <1>1, PutCallInv
<1>2. ASSUME NEW k \in Key, RemoveItem(k) PROVE Inv'
  BY <1>2, RemoveItemInv
<1>3. ASSUME NEW k \in Key, PutDuplicate(k) PROVE Inv'
  BY <1>3, StutterInv DEF PutDuplicate
<1>4. CASE TryNext
  BY <1>4, TryNextInv
<1>5. ASSUME NEW nodes \in Nat, StoreValue(nodes) PROVE Inv'
  BY <1>5, StoreValueInv
<1>6. CASE PutError
  BY <1>6, PutErrorInv
<1>7. CASE UNCHANGED vars
  BY <1>7, StutterInv
<1> QED
  BY <1>1, <1>2, <1>3, <1>4, <1>5, <1>6, <1>7 DEF Next, PutStep

-----------------------------------------------------------------------------
(* The theorems                                                            *)

\* The invariant gives the property.
LEMMA StoredHolds == Inv => ValuesIntact
<1> SUFFICES ASSUME Inv, NEW k \in DOMAIN item PROVE Holds(item[k].loc, item[k].val)
  BY DEF ValuesIntact
<1>1. /\ item[k].loc.index \in DOMAIN block
      /\ Stored(block[item[k].loc.index], item[k].loc.position, item[k].val)
  BY DEF Inv, AllStored
<1> DEFINE blk == block[item[k].loc.index]
           p == item[k].loc.position
           v == item[k].val
<1>2. blk \in DataBlock /\ v \in Val
  BY <1>1 DEF Inv, TypeOK, Item
<1>3. PICK offset \in Byte \ {0} : RecordAt(blk, p, v, offset)
  BY <1>1 DEF Stored
<1>4. ASSUME NEW i \in 0 .. size[v] - 1
      PROVE  offset + i \in Byte
  <2>1. offset \in Nat /\ size[v] \in Nat /\ offset + size[v] <= BlockSize
    BY <1>2, <1>3 DEF RecordAt, Byte
  <2> QED
    BY <2>1 DEF Byte
<1> QED
  BY <1>1, <1>3, <1>4 DEF Holds, RecordAt

LEMMA InvHolds == Spec => []Inv
BY InitInv, NextInv, PTL DEF Spec

\* Every variable keeps its type: data blocks are counted, and a put() tries a
\* block that is there or the next one (the assertion of insertValue()).
THEOREM TypeCorrect == Spec => []TypeOK
<1>1. Inv => TypeOK
  BY DEF Inv
<1> QED
  BY <1>1, InvHolds, PTL

\* DataBlock::insert() never writes over a record or the directory, and
\* getValue() finds every value, for every BlockSize and every size of values.
THEOREM ValuesTheorem == Spec => []ValuesIntact
BY StoredHolds, InvHolds, PTL
=============================================================================
