# Formal models of the example storage engine

This directory holds TLA+ models of the MySQL storage engine in `src/`: a table
handler (`ha_example.cc`) over a disk B+ tree (`lib/btree.*`) with a buffer pool
(`lib/buffer.*`), slotted data blocks (`lib/block.*`) and a block file
(`lib/file.*`), and a small client of the tree (`lib/matu.h`). TLC checks small instances; TLAPS proves most of the results
for every value of the constants. `PROJECT.json` maps each definition to the lines it
stands for and lists runs, hazards, findings, mutants and theorems.

    tlc -workers 2 -config BTreeShape.cfg MCBTree      # one run
    tlapm BTreeProofs.tla                              # one module's proofs

## The system

| Component | State | Operations | Used by |
|---|---|---|---|
| B+ tree (`BTree`, `NodeBlock`) | node blocks, `meta` (root, countOfItem, countOfBlock, numberOfBlock), `root` pointer | `create`, `open`, `put`/`insert`, `getLeaf`, `save` | handler |
| Iterator (`BTree::Iterator`) | `cur`, `index` | `locate` (5 flags), `first`, `last`, `next`, `prev`, `remove`, `getKey`, `getValue` | handler |
| Buffer manager | `pool`, a `reserved` (dirty) bit in each block | `getBlock(index, flag)`, `save`, destructor | tree |
| Data block, block header | `count`, `free`, `directory`; checksum | `insert`, `get`, `freeSize`; `compute`, `check` (never called) | tree |
| File | a handle | `create`, `open`, `readBlock`, `writeBlock`, `resize` | tree, buffer manager |
| Client (`lib/matu.h`) | a tree; a statement and its range of ids | `insert`, `query`, `del`, `update`, `conditionParse` | its `main` |
| Handler (`ha_example`) | `p_btree`, `s_btree`, an iterator of each, `first_row`, `active_index`, key and record buffers | `write_row`, `update_row`, `delete_row`, `index_*`, `rnd_*`, `position`, `info`, `open`, `close`, `create`, ... | MySQL server |

One thread runs in a tree: the server holds the lock of the table, and no code of
the engine starts a thread. The handler calls the trees, the tree gets blocks from
the buffer manager and keeps pointers to two of them (metadata and root), an
iterator keeps a pointer to a third. Nothing calls `save()` between operations
(the calls in `write_row` and `delete_row` are comments), so blocks reach the file
when `~BTree` runs.

Hard behaviour, and what makes each part correct:

* **put().** A recursion that splits blocks on its way back, and changes up to three
  others at each split. Correct when every key stays reachable by `getLeaf`, no block
  overflows (`assert(count < size())`), all leaves are on one level and chained in key
  order, and the whole is a map: nothing but the key of the call changes.
* **Tombstones.** `remove()` clears a flag. Items of removed keys stay, are used again
  by a `put()` of the same key and are moved by splits.
* **Iterators** survive removals and reuse, but not a `put()` of a new key, which moves
  items under them.
* **Buffer pool.** Correct when a block that differs from the file has its bit, though
  the tree changes blocks through pointers it has kept over a `save()`; and a crash
  must not leave a file that cannot be opened. The first holds, the second does not.
* **Values** share data blocks and are never moved or freed. Correct when no record is
  written over another one or over the directory, and `insertValue()` ends.
* **Files.** Several handlers of a table each have their own pools over the same two files,
  which are created one after the other, opened and closed in steps that fail separately,
  and never deleted. Correct when no handler writes over another's rows, a table does not
  find those of a dropped one, and a closed file has every block that it counts.
* **Client.** A statement walks the tree with an iterator while it removes rows and puts
  them back. Correct when it reads or changes the rows its condition selects, and ends.
* **Handler.** A row is spread over two trees and written and deleted in several calls,
  each of which can fail. Correct when no index entry leads to a missing row, each row is
  indexed, and a scan returns each row once though rows are deleted and updated in it.

## Modules

| Module | Models | Notes |
|---|---|---|
| `OrderedMap` | what a tree promises: a map, and calls of `put` and `remove` that change the key they are given | abstract |
| `BTree` | `put()`, frame by frame of the recursive `insert()`; removal by flag | |
| `BTreeCalls` | the same with a history variable: the last call and its arguments | EXTENDS `BTree`, implements `OrderedMap` |
| `MCBTree`, `MCBTreeCalls` | sets of keys and values for TLC | |
| `BTreeProofs` | theorems about `BTree`: types, room, balance, links, frames; order and reachability of keys | |
| `MapCursor` | what an iterator promises over such a map: each call goes where its name, flag and key say | abstract |
| `BTreeIterator` | an iterator over `BTree` while the tree changes | EXTENDS `BTreeCalls`, implements `MapCursor` |
| `MCBTreeIterator` | sets of keys for TLC | |
| `BTreeMapProofs` | theorems about what callers see: the map, the count, a scan, the cursor | uses `BTreeProofs` |
| `NodeSearch` | the binary searches `find()` and `lub()`, one turn per step | what `BTree!Lub` assumes |
| `NodeSearchProofs` | theorems about `NodeSearch` | |
| `ValueStore` | data blocks byte by byte, `insertValue()`, `getValue()` | the tree below it reduced to its items |
| `ValueStoreProofs` | theorems about `ValueStore` | |
| `Conditions` | `conditionParse()` as an operator; what a condition and a range select | no state |
| `RowClient` | `insert()`, `query()`, `del()`, `update()` | EXTENDS `ValueStore` and `Conditions`; an iterator is a key, as `MapCursor` allows |
| `RowClientProofs` | theorems about `Conditions` and `RowClient` | uses `ValueStoreProofs` |
| `MCRowClient` | sets of keys, values and sizes for TLC | |
| `BufferPool` | `getBlock`, `save`, `open`, `~BTree`, write errors, crashes | blocks as references and a change counter |
| `Handler` | rows and index entries of one table, scans, failing puts | on top of the maps and cursors of `OrderedMap` and `MapCursor` |
| `BufferPoolProofs`, `HandlerProofs` | theorems about `BufferPool` and `Handler` | |
| `TableFiles` | the two files of a table under several handlers | `create`, `open`, `close`, `resize`, share mode, 32-bit positions |
| `MCTableFiles` | sets of handlers for TLC | |
| `TableFilesProofs` | theorems about `TableFiles` | |

### BTree

`node` holds the node blocks in use; a block is its items `kv` (so `count` is
`Len(kv)`), `leaf`, and the links `next` and `last`. `level` is auxiliary: no action
reads it. `root`, `countOfItem`, `countOfBlock`, `numberOfBlock` are `BTreeMetadata`.
`pc`, `cur`, `stack`, `arg` are the running `put()`: `stack` holds the frames of
`insert()` that wait for the call below them, with the index they chose. `Descend` is
the way down (542-552 of `btree.cpp`), `LeafDuplicate`, `LeafRevive`, `LeafInsert` and
`LeafValueError` the branches at the leaf, `AscendKeep` and `AscendSplit` the code after
the recursive call, `PutReturn` and `PutSplitRoot` the end of `put()`. Invariants
therefore also speak of the middle of a `put()`. Indexes count from 1. `Lub` is stated
by what it finds; `NodeSearch` shows the loop finds it. With `isConstValueSize` FALSE
values are in data blocks and `insertValue()` takes a new one or does not; a value too
large for any block, for which it never returns, is left out (a hazard in
`PROJECT.json`). `MaxItem` bounds `countOfItem` in `PutCall`: it bounds the number of
`put()` calls that store a key, not the number of removals.

### BTreeCalls and OrderedMap

`asked` is the last call with its arguments; no step of the tree reads it. `OrderedMap` has the
same variable, and its steps are tied to it: while a `put()` runs, nothing may change but by
`Put`, which stores `asked.val` under `asked.key` if that key is not live; `PutDuplicate` is
allowed only if it is; and only the `remove()` of a key, between puts, may hide that key. So a
duplicate that is reported for a removed key, a value that overwrites a live one, a split
after which another key is no longer found, are steps that the abstract map does not have.
`content` is `Lookup`, the lookup along `GetLeaf`, taken in every state.

### BTreeIterator

`asked` also records the calls to the iterator: the name and, of `locate()`, the key and the
flag. In `MapCursor` each of them has one target: `locate()` the nearest live key that its flag
allows, `next()` and `prev()` the nearest live key after and before the one the iterator stands
on, `first()` and `last()` the ends, or no key when there is none; only then may the call
return 0. `it` is `cur` and `index`. `Forward` and `Backward` are the loops of `next()` and
`prev()`, a call being one step since nothing runs beside it. `placed` is auxiliary and
says whether the callers may rely on the iterator: not after a failed `locate()`, not
after a `put()` has stored a new key (one that finds no memory for its value moves nothing). Only a placed iterator is moved: every caller in the
repository stops when the call that places it returns 0.

### ValueStore

A data block is its `count`, `free` and `next`, and every byte behind the header: blank, the
i-th byte of a value, or part of a directory entry for an offset. `Insert` writes a
record and its entry over whatever is there, so a wrong `freeSize()` shows when a value
is read back. `call` is the running `put()`: `TryNext` is one call of `insertValue()` for a
block that is too full, `StoreValue` the last of them with what `put()` does after it,
which may add nodes to the tree. The item whose block is tried first is `Neighbour`:
the first one at or above the key, or the last of all. It is the one that
`BTree::insert()` takes from the leaf also when there are several leaves, for the key that
a node keeps for a child is the largest of the child's items. `item[k].val` is auxiliary.

### Conditions and RowClient

`Comparison`, `Both`, `Either` and `conditionParse` give the result of `conditionParse()`: its
`ResFlag` and numbers. `Selects` says which ids a condition is about, `InRange` which ones a
result is about by the comments of `ResFlag`. A statement is a kind and, of an update, a new
value; `Walks` is the cases of the switches: which part of the tree a case walks. `Locate`, the turns
(`QueryRow`, `DeleteRow`, `UpdateRow` with `UpdatePut`), `Leave` and `NextRow` are the loops;
`RunPut` and `FailPut` are the steps of `put()` below them. `before` and `want` are auxiliary:
the table when the statement began and the rows that its comparisons select.
`excused` is auxiliary too: it marks the statements that the code is known not to do as
written, which `Slip` lists, and those whose `put()` found no memory. `MaxBlock` bounds the
file when a row is put, since no space is ever used again; `MaxNodes` the nodes one `put()`
adds.

### TableFiles

`file` holds the length of each file, the blocks in it that were written for their index, and
its metadata; `tree[h][f]` the `BTree` of a handler: its metadata, the blocks in its
pool, those of them that were read from where nothing had been written (`junk`), and the
file pointer of its handle. A position is the index modulo `Word`, which stands for
`2^32 / blockSize`, and is taken for signed by `SetFilePointer()`. `CreateRows`/`CreateIndexes`,
`OpenRows`/`OpenIndexes`/`OpenFails` and `CloseRows`/`CloseIndexes` are the steps of
`create()`, `open()` and `close()`, between which other handlers run, or the process ends
(`Crash`). `Creates` is one `BTree::create()`: it makes the file, or fails, or the process ends
in it and leaves a file with no blocks beside a table that the server knows. When the second
file cannot be opened, `OpenFails` closes the first, whose `save()` may fail as any other.
A `resize()` whose position is 0 modulo 2^32 leaves the file alone (`Resized`): the code takes the
result of `SetFilePointer()` for an error. `FreeBlock` grows a tree by a block whatever `resize()` did. `MayOpen` is the share
mode of `MyFile::open()`. `rows` is auxiliary: how many rows were put since the table was
created, as long as nothing failed that loses rows.

### BufferPool

`disk` and `pool` give each block's content: the blocks it refers to and a counter of
other changes. Block 0 is the metadata, which "refers to" the blocks below
`countOfBlock` and names the root. `dirty` is the set of blocks whose `reserved` is 1,
`root` and `cursor` the pointers the tree and an iterator keep. Operations of the tree are
reduced to what they get, with which flag, and what they change; blocks that are
reached through kept pointers are not got, so their bit is not set again — the reason
`BTree::save()` sets two of them. `save()` is a loop of `WriteBlock` steps in any order
(the pool is an unordered map), of which each may be followed by `WriteFails` or
`Crash`. A failed read ends the process too: `getBlock()` writes through the null pointer.
An iterator is not used after a `save()`: no caller does, and the model drops `cursor`.

### Handler

`rows` is `p_btree`, `entries` is `s_btree`, as the sets of their live keys; an iterator is
the key it stands on, which is what `MapCursor` allows. A key is a triple `<<index, value,
primary key>>`. The table has 0 to `MaxIndex` secondary indexes, chosen in `Init`. The
server's side is its protocol: under the lock of the table, a write outside of a scan
or of the row that was read last; the iterators are placed before they are used; a scan
does not change the key it goes along (the server collects positions first and returns
with `rnd_pos()`). `Puts` gives how far `write_row()` comes: it fails before the first `put()` (`update_auto_increment()`,
`pack_row()`), at the row or at one of the indexes.
`left` and `again` compare a scan with the rows it should return. A `put()` of a new key in
the tree that is scanned (an UPDATE of one secondary index in a scan of another) leaves
the iterator on any entry.

## Runs

| Run | Instance | Shows |
|---|---|---|
| `btree_shape` | 5 keys, 2 items per leaf, 3 per inner node, values in data blocks, 5 puts | shape, order and reachability in every state, four levels deep |
| `btree_map` | 4 keys, 2 values in data blocks, 3 items per block, 4 puts | each step does to the map what the running call asks for and nothing else; `put()` returns |
| `iterator` | 4 keys, 3 items per block, 5 puts | each call goes to the key that its name, flag and key say; a placed iterator keeps its key |
| `node_search` | nodes of up to 9 items, every result of comparisons | both searches are right and end |
| `buffer_pool` | 4 blocks, 1 change of each | nothing unmarked is lost; a file whose saves ended is whole |
| `handler` | 3 rows, 2 values, up to 2 secondary indexes | indexes and rows agree; scans and exact reads are right |
| `client` | 3 ids, values of 2 and 4 bytes, blocks of 21 bytes | values stay intact; ranges are right; statements do what they say, and end |
| `table_files` | 2 handlers, 2 tables one after the other, 7 blocks | no handler loses another's rows; closed files are whole |
| `torn_save` | as `buffer_pool` | violation: a reference to a block that is not counted |
| `update_to_taken_key` | 2 rows | violation: the failed UPDATE loses the row |
| `first_of_other_index` | 2 rows, 2 indexes | violation: `index_first()` leaves its index |
| `file_limit` | 1 handler, 6 blocks, `Word` 16 | violation: a saved block is read as junk |

Why the bounds suffice. With blocks of 2 and 3 items five keys make leaves, inner nodes and
roots split, in all orders of insertion and with any set of removed keys, to a height of
four levels; inner nodes split that have a right neighbour, and others two levels below the root. Splits look at
one block, its parent and its right neighbour, so larger blocks add only distance; three
items per leaf are used where positions inside a leaf matter (`iterator`, with values of
constant size; the theorems about the iterator cover values in data blocks too). Four blocks are
the metadata, a root, and two more: enough for a parent, a child and a block that is not
yet counted, and for a new root. Three rows give each scan a first, a middle and a last
row and two equal values. In blocks of 21 bytes with a header of 4 records and directory
meet exactly, with no byte between them, and a third value goes to the next block. `Word` 64
keeps `table_files` inside of the positions that a file can have, with `resize()` at 2 and 4
blocks; `Word` 16 puts the limit of `file_limit` within 6 blocks. Two handlers are enough for
one to come between two steps of the other, two tables for one to find the files of the
one before it. `KeyAssumption` and the others name what the code
guarantees; `SizeAssumption` (2 items in a leaf, 3 in an inner node) follows from keys of
at most 512 bytes in blocks of 4096, and `RowAssumption` (a row has bytes) from `encode()`, which
writes 16 of them besides the strings (`matu.h:26-57`).

`CHECK_DEADLOCK FALSE` is said where the system really ends: a finished search, and the last
table that is dropped.

Fairness. `BTree` assumes weak fairness of the steps of a running `put()`, `NodeSearch` of a
turn of its loop: a thread that runs in a function is not suspended for ever. `RowClient` assumes it of the steps of a statement
that runs (`Progress`) for the same reason, but not of `FailPut`: memory need not ever run out. No
fairness is assumed of callers. The safety runs need none.

## Findings

The four violation runs are disagreements between the code and its comments or assertions,
quoted in `PROJECT.json`:

1. A crash or a failed write in `save()` can leave a file on which
   `assert(index < meta->countOfBlock)` fails (`buffer.cpp:25-38`; `btree.cpp:408`).
2. `update_row()` to a primary key that is taken deletes the old row and returns the
   duplicate error (`ha_example.cc:655-659`; 627).
3. `index_first()` of a second secondary index returns an entry of the first one
   (`ha_example.cc:909`; 894).
4. `resize()` to 2^19 blocks, 2 GiB, cuts the file off at the current pointer; saved blocks
   are then read as junk and `assert(block->index == index)` fails (`file.cpp:64`;
   `buffer.cpp:45`).

Met while modelling, modelled as they are and without a run of their own: `id <= a and id = b`
with `b` below `a` selects `a` (`matu.h:270`, against the comments at 266 and 90); `id = n` of a
missing row selects the next one (`matu.h:512`);
four results of `conditionParse()` have no case in the switches; `update()` and `insert()` of
the client ignore a failed `put()` (`matu.h:614`, 393); `next()` behind the last item never
returns (`btree.cpp:242`); a scan of an empty table ends with `HA_ERR_KEY_NOT_FOUND`
(`ha_example.cc:1005`).

## Proofs

### The shape of the tree

`BTreeProofs` proves, for every set of integer keys, every block size of at least 2 and 3
items, every initial file and every bound on `put()` calls:

* `TypeCorrect`, `RoomTheorem`, `BalanceTheorem`, `LinkTheorem`, `PathTheorem`: the invariants
  `TypeOK`, `NodesHaveRoom`, `Balanced`, `SiblingsLinked`, `FramesFormPath`.

None of the five is inductive alone, so `Inv` is their conjunction. A split is safe for the
room of the parent because only the block just returned from may be full; that the parent
has an item for its son follows from `FramesFormPath`; that this item still leads to the son
from `Balanced` and the path being one block per level, which is also why a split below
cannot touch the frames above; and the sibling links survive because the block right of
the split one is of the same level, so it is neither the parent nor a waiting frame. There
is one lemma per action and conjunct. The proofs use the assumptions on constants named in
`BTree` and the library's facts about sequences. `Lub` and `ChildIndex` are used through
their range only, so these theorems do not depend on the order of keys.

### The order of its keys

`BTreeProofs` also proves, under the same assumptions:

* `OrderHolds`: the invariant `Ordered`. Its five parts need each other, and `btree_shape` checks
  them first. Keys increase in a block and from a block to the next of its level (`KeysSorted`).
  A separator is the largest key of its child (`SeparatorsExact`), except the one that the frame
  `insert()` is about to return to will update; it exists only while a key above all others is on
  its way up. Children are linked in the order of the items that lead to them, across the
  ends of parents (`ChildrenLinked`), and each is the child of one item (`OneParent`). And `put()`
  works at a block between whose neighbours its key belongs, with frames that agree on whether it
  is above all keys of the tree (`PutInRange`). A split keeps this because the upper half
  keeps the old separator and the lower half gets its own largest key; that the
  insertion of the new item comes right before the old one is where the order is used.
* `KeysReachable`: `EveryKeyReachable`. At each level of `GetLeaf` the block is the one that covers
  the key. `GetLeaf` is a recursive function: that there is one is shown level by level, a walk
  from one level extending to the next, and where it ends by the least level at which it could
  go wrong.

### What callers see: the map and the cursor

`BTreeMapProofs` proves, under the same assumptions, of the tree:

* `MapImplemented`: `CallSpec => ImplementsMap`, step by step: `BTreeCalls` implements `OrderedMap`. The
  invariant `Asked`, beside `Inv`, ties the running `put()` to the key and value it was called with. A step
  of it changes no lookup (`SameMap`) or is its return: `Stored`, `Duplicated` or `Refused`. What a lookup finds depends
  only on the set of items in the leaves, since an item with the key is reached if there is one.
  No step of the recursion but the one that stores changes that set. A new value shows in the
  abstract map when `put()` returns, so the item that was stored must be kept track of on the
  way up (`ItemsStored`).
* `CountTheorem`: `CountCoversLiveItems`. The live keys are no more than `countOfItem`, by an
  injection of live items into live keys.
* `ScanTheorem`: `ScanIsOrdered`. The leaves are ranked by their keys, so that `header.next` lowers
  the rank (`LeavesRanked`) and no leaf that was visited comes again; the scan thus ends at a leaf
  without a next one (`ScanChain`). Every leaf but the first has one before it (`OneFirst`), so the
  scan misses none (`ChainWhole`), and the keys of leaves that each lie below the next ascend
  together (`FlattenAscends`). The chain and the concatenation are recursive functions;
  `JoinWalkExists` shows, by the rank that each step lowers, that there are such functions.

and of the iterator over it:

* `IterTypeCorrect`, `OnItemTheorem`, `KeepsKeyTheorem`: `IterTypeOK`, `CursorOnItem` and
  `CursorKeepsKey`. The invariant `IterInv` adds to those of the tree that a `put()` on its way up
  under a placed iterator has no full node below it (`NothingToSplit`): the only steps that move
  items are the one that stores a new key, which takes the iterator its place, and the splits
  that can only follow it.
* `CursorImplemented`: `IterSpec => ImplementsCursor`: `BTreeIterator` implements `MapCursor`, each call with its
  own name, flag and key (`LocateCursor`, `FirstCursor`, `LastCursor`, `NextCursor`, `PrevCursor`). `Places` are the items of the leaves;
  `SuccPoint` and `PredPoint` show that the links of the leaves lead from each of them to the one
  with the next key or the key before, across the ends of parents, and `NextWalk` shows of any walk
  over points in order that it ends at the first one that is not to be skipped.
  `Forward` and `Backward` are recursive functions; that there is one such walk
  is shown, as for `GetLeaf`, by the rank of the place that goes down with each step.
  `LocatedFacts` gives where `locate()` goes for each flag, also from a leaf in which all keys are
  below the one it looks for: by `Ordered` the tree then has no key above it.

### Searches, values, the buffer pool

`NodeSearchProofs` proves, for nodes of any length and any outcome of comparisons that
ascends, that the window of a search stays inside the node (`TypeCorrect`), that `lub()`
(`LubTheorem`) and `find()` (`FindTheorem`) return what they should, and that each turn
narrows the window (`ShrinkTheorem`), from which termination follows. The invariant says
that items left of the window are below the key and items right of it are not.

`ValueStoreProofs` proves `TypeOK` and `ValuesIntact` for every block size with room for a
header and an entry, all sizes of values and any integer keys. The inductive invariant says of
each data block that its directory, with room for one more entry, ends below `free`
(`AllRoom`), and of each item that its Location leads to an entry of the directory and to
a record at or above `free` (`AllStored`): an insertion writes only between the two. The
proof that `Neighbour` exists needs that the keys ever put lie between two bounds.

`BufferPoolProofs` proves `TypeOK`, `DirtyCoversChanges`, `FileIsWhole` and `SaveLosesNothing`
for any number of blocks and changes. `Inv` adds three facts. The blocks behind kept
pointers are marked between operations, and in a `save()` only blocks still to come are
(`Marks`): when the loop ends nothing is marked, which is `SaveLosesNothing`. The root
is always counted, for both are in one block (`RootCounted`). And what the tree sees, the pool
over the file, is whole even while the file is not (`WholeTree`): the file becomes that.

### The files of a table

`TableFilesProofs` proves for any finite or infinite set of handlers, any number of tables and
any initial size:

* `TypeCorrect` and `CountedTheorem`: `TypeOK` and `RowsCounted`. `Calls` says which trees a handler
  has by the call it is in, `Exclusive` that a file is open in one handler at most, and
  `Counted` that the tree which is open, or else the file, has all rows. This needs
  the case of a file that waits for its second one with no rows (`table = "creating"`).
* `StoredTheorem` and `OwnTheorem`: `CountedBlocksStored` and `BlocksAreTheirOwn`, under `Near`,
  `4 * MaxBlocks <= Word`: files of up to 1 GiB in the code, so that a `resize()` to twice
  the blocks of a tree still seeks. `Kept` says that a block that is counted is in the pool
  or the file. `Near` holds in `table_files`; `file_limit` shows what happens without it.

### The handler

`HandlerProofs` proves for any finite set of rows, any values and number of indexes:

* `NoDanglingTheorem` and `IndexedTheorem`: `NoDanglingEntry` and `EveryRowIndexed`. The strengthening
  is `FirstOnes`: a row that lost entries to a failed `put()` has those of the first indexes
  only, so the loop of `delete_row()`, which stops at the first missing one, leaves none behind.
* `TypeCorrect`, `ScanTheorem` and `ExactReadTheorem`: `TypeOK`, `ScanReturnsEachRowOnce` and
  `ExactReadIsRight`. `Placed` says that an iterator stands on a key whenever a scan moves it.
  `ScanInv` says that the rows a scan has still to return are those whose keys its
  iterator has in front of it (behind it, backwards): deletes and updates of the row it
  stands on leave both sets alike. The order of keys, and that finite sets of them have a first
  and a last one, are lemmas.

### The client

`RowClientProofs` proves for all sets of numbers, ids and values and every layout of blocks:

* `ParseMeans` and `RangeTheorem`: a range has the ids of its condition but for one branch
  (`RangeIsRight`). A strict comparison is replaced by one with the next number, and then the
  nine pairs of kinds are gone through for each connective. Overflow of the number is
  left out.
* `ClientUsesStore`: every step of the client is a step of `ValueStore` or a stutter, so `ValuesIntact`
  holds under it (`ClientValuesTheorem`); its iterator stands on an item while a walk goes on
  (`ClientTypeCorrect`).
* `StatementTheorem`: `StatementIsRight`. The invariant `StatementInv`, which TLC checked on the
  instance of `client` before it was proved, splits the rows that are wanted
  into those still to come to (`Pending`, by the walks that are left and the place of the
  iterator) and those handled; all of the latter are in front of the former. The table is the one
  the statement found but for the rows handled, and for the one that `update()` has taken out
  and not yet put back (`Gone`). That the walks of a range pass its ids once and in order
  (`WalksOfRange`) comes from `RES_OR` having its first number below its second, which holds
  of every result of `conditionParse()` (`ParseType`). What is excused is what `Slip` lists and
  a `put()` that finds no memory. A value is read back because it is intact and, with
  `RowAssumption`, no other value has the same bytes.

### Only model-checked

The liveness properties (`PutReturns`, `Terminates`, `StatementEnds`), which are out of the
prover's reach. Every safety invariant of a run is proved too, with the assumptions named above.

## Not modelled

* Row packing (`pack_row`, `unpack_row`): byte layout by the server's `Field`.
* Plugin registration, system variables, methods that return a constant.
* The checksum, which nothing calls.
* Of the handler: `info()` (a copy of `countOfItem`), key-only reads, keys of several parts, NULL
  and collations; `get_share()` and `store_lock()`, which the server's lock makes idle.
* Of the client: the characters of a statement, `encode()` and `decode()` of columns, `initial()`.
* Tests and build files.

## Plan

1. That the trees of `Handler`, as sets of live keys and cursors, are what `OrderedMap` and
   `MapCursor` allow, as a theorem.
2. `KeyCompare`: several key parts, NULL, equal keys with different bytes; key-only reads.
3. `Checksum` with a small word size.
