----------------------------- MODULE TableFiles ------------------------------
(***************************************************************************)
(* The files of a table: ha_example::create(), open(), close() and         *)
(* delete_table() over the trees of the rows and of the secondary indexes, *)
(* and below them MyFile with the calls of Windows that it makes.          *)
(*                                                                         *)
(* The server may have several handlers of one table, each with trees, and *)
(* so buffer pools, of its own.  Of a block only this is kept: whether it  *)
(* is the block that was written for its index, or junk.  Every row takes  *)
(* a new block in each tree.  Positions in a file are counted in blocks;   *)
(* they are the low bits of index * blockSize, and SetFilePointer() takes  *)
(* them for signed.                                                        *)
(***************************************************************************)
EXTENDS Integers, FiniteSetsExt, Functions

CONSTANTS Handler,
          InitialBlocks,     \* blocks of a new file (32 in the code)
          Word,              \* 2^32 / blockSize
          MaxBlocks,         \* bound on the blocks of a tree
          MaxTables          \* bound on the tables created, one after the other

ASSUME BlocksAssumption == InitialBlocks \in Nat /\ InitialBlocks >= 2
ASSUME WordAssumption == Word \in Nat /\ Word >= 2 /\ Word % 2 = 0
ASSUME MaxAssumption == MaxBlocks \in Nat /\ MaxTables \in Nat

VARIABLES
  table,      \* "none", "creating" or "exists", as the server knows it
  keys,       \* the keys of the table; with one there is no second tree
  tables,     \* how many were created
  file,       \* the files: their length, the blocks in them that are no junk,
              \* and the metadata in block 0
  at,         \* which call of each handler is under way, or "open" or "closed"
  tree,       \* the BTree of each handler and file: meta, pool, junk in the
              \* pool, and the file pointer of its handle; None if it is closed
  rows,       \* auxiliary: rows put since the table was created, 0 after a fault
  fault       \* auxiliary: the process ended, or a write failed

vars == <<table, keys, tables, file, at, tree, rows, fault>>

File == {"db", "sec"}
Used == IF keys > 1 THEN File ELSE {"db"}
None == << >>
Meta(count, number) == [countOfBlock |-> count, numberOfBlock |-> number]
NoMeta == Meta(0, 0)
NoFile == [length |-> -1, stored |-> {}, meta |-> NoMeta]

-----------------------------------------------------------------------------
(* SetFilePointer() and SetEndOfFile(), as MyFile calls them               *)

Position(index) == index % Word
Signed(pos) == IF pos < Word \div 2 THEN pos ELSE pos - Word

\* A negative distance from the start of the file is refused.
Seekable(index) == Signed(Position(index)) >= 0

SetLength(f, length) ==
  [f EXCEPT !.length = length, !.stored = {b \in @ : b < length}]

\* Where resize() leaves the file pointer.  When SetFilePointer() fails the
\* result is not 0, so the file ends where the pointer happens to be.
ResizeToPointer(pointer, number) == pointer                    \* mutant
ResizeTo(pointer, number) ==
  IF Seekable(number) THEN Position(number) ELSE pointer

\* CreateFile() with the share modes of open(): the handlers that have the
\* file open do not let others write.
MayOpenShared(f) == file[f].length >= 0                        \* mutant
MayOpen(f) == file[f].length >= 0 /\ \A h \in Handler : tree[h][f] = None

-----------------------------------------------------------------------------
(* create()                                                                *)

\* MyFile::create() empties a file that a dropped table has left.
Emptied(f) == [length |-> 0, stored |-> {}, meta |-> NoMeta]

Root == 1
Written(f, S, meta) == [length |-> Max({f.length} \cup {b + 1 : b \in S}),
                        stored |-> f.stored \cup S, meta |-> meta]

\* What BTree::create() may leave: the new file, or one without the metadata,
\* without the root, of no length, or the old one
Made(f) == Written(SetLength(Emptied(f), InitialBlocks), {0, Root}, Meta(2, InitialBlocks))
HalfMade(f) == {f, Emptied(f), SetLength(Emptied(f), InitialBlocks),
                Written(SetLength(Emptied(f), InitialBlocks), {Root}, NoMeta)}

\* The call of BTree::create() for f makes the file; or it fails, and the
\* server has no table; or the process ends in it, with the .frm there.
Creates(f, next, ended) ==
  \/ ~ ended /\ file' = [file EXCEPT ![f] = Made(@)] /\ table' = next
  \/ /\ \E g \in HalfMade(file[f]) : file' = [file EXCEPT ![f] = g]
     /\ table' = IF ended THEN "exists" ELSE "none"

\* The server creates a table; all handlers of the dropped one are closed.
CreateRows ==
  /\ table = "none" /\ tables < MaxTables
  /\ tables' = tables + 1 /\ rows' = 0
  /\ keys' \in 1 .. 2
  /\ \E ended \in BOOLEAN :
       /\ Creates("db", IF keys' > 1 THEN "creating" ELSE "exists", ended)
       /\ fault' = ended
  /\ UNCHANGED <<at, tree>>

CreateIndexes ==
  /\ table = "creating"
  /\ \E ended \in BOOLEAN : Creates("sec", "exists", ended) /\ fault' = (fault \/ ended)
  /\ UNCHANGED <<keys, tables, at, tree, rows>>

\* delete_table() does nothing; the server forgets the table.
DropTable ==
  /\ table = "exists" /\ \A h \in Handler : at[h] = "closed"
  /\ table' = "none"
  /\ UNCHANGED <<keys, tables, file, at, tree, rows, fault>>

-----------------------------------------------------------------------------
(* open()                                                                  *)

\* readBlock() succeeds behind the end of the file too, and reads nothing.
ReadInto(t, f, b) ==
  [t EXCEPT !.pool = @ \cup {b},
            !.junk = IF b \in f.stored THEN @ ELSE @ \cup {b},
            !.pointer = IF b < f.length THEN Position(b) + 1 ELSE Position(b)]

\* BTree::open() gets the metadata and the root.
Opened(f) ==
  ReadInto(ReadInto([meta |-> f.meta, pool |-> {}, junk |-> {}, pointer |-> 0], f, 0), f, Root)

\* Of a file whose creation the process did not survive nothing is known; to
\* open it ends in an assertion or anything else.
Readable(f) == {0, Root} \subseteq f.stored

FlushedInPlace(f, t) ==                                        \* mutant
  Written(f, {b \in t.pool : b < f.length} \ t.junk, t.meta)
\* save() of ~BTree: every block in the pool is written, junk that was got as
\* a node too.
Flushed(f, t) ==
  LET g == Written(f, t.pool, t.meta)
  IN  [g EXCEPT !.stored = @ \ t.junk]

OpenRows(h) ==
  /\ table = "exists" /\ at[h] = "closed"
  /\ MayOpen("db") /\ Readable(file["db"])
  /\ tree' = [tree EXCEPT ![h]["db"] = Opened(file["db"])]
  /\ at' = [at EXCEPT ![h] = IF keys > 1 THEN "opening" ELSE "open"]
  /\ UNCHANGED <<table, keys, tables, file, rows, fault>>

OpenIndexes(h) ==
  /\ at[h] = "opening"
  /\ MayOpen("sec") /\ Readable(file["sec"])
  /\ tree' = [tree EXCEPT ![h]["sec"] = Opened(file["sec"])]
  /\ at' = [at EXCEPT ![h] = "open"]
  /\ UNCHANGED <<table, keys, tables, file, rows, fault>>

Fault == fault' = TRUE /\ rows' = 0

\* ~BTree of f: saves, prints a message when a write failed, and closes the file
CloseTree(h, f) ==
  /\ \/ file' = [file EXCEPT ![f] = Flushed(@, tree[h][f])] /\ UNCHANGED <<rows, fault>>
     \/ UNCHANGED file /\ Fault
  /\ tree' = [tree EXCEPT ![h][f] = None]
  /\ UNCHANGED <<table, keys, tables>>

OpenFailsKeepsTree(h) ==                                       \* mutant
  /\ at[h] = "opening"
  /\ ~ MayOpen("sec")
  /\ at' = [at EXCEPT ![h] = "closed"]
  /\ UNCHANGED <<table, keys, tables, file, tree, rows, fault>>
\* The second tree cannot be opened: the first one is deleted, which saves it.
OpenFails(h) ==
  /\ at[h] = "opening"
  /\ ~ MayOpen("sec")
  /\ CloseTree(h, "db")
  /\ at' = [at EXCEPT ![h] = "closed"]

-----------------------------------------------------------------------------
(* The use of the trees, and close()                                       *)

\* A block that the tree did not have in memory yet
ReadBlock(h, f, b) ==
  /\ at[h] = "open" /\ f \in Used
  /\ b < tree[h][f].meta.countOfBlock /\ b \notin tree[h][f].pool
  /\ Seekable(b)
  /\ tree' = [tree EXCEPT ![h][f] = ReadInto(@, file[f], b)]
  /\ UNCHANGED <<table, keys, tables, file, at, rows, fault>>

\* getFreeNodeBlock() or getFreeDataBlock(): resize() when all blocks are used,
\* whatever comes of it, then the block behind the last one
GrowsNow(t) == t.meta.countOfBlock = t.meta.numberOfBlock
Grown(t, f) ==
  IF ~ GrowsNow(t) THEN t
  ELSE [t EXCEPT !.meta.numberOfBlock = 2 * @,
                 !.pointer = ResizeTo(@, 2 * t.meta.numberOfBlock)]
FreeBlock(t, f) ==
  LET g == Grown(t, f)
      b == t.meta.countOfBlock
  IN  [g EXCEPT !.meta.countOfBlock = b + 1, !.pool = @ \cup {b},
                !.pointer = IF b < f.length THEN Position(b) + 1 ELSE Position(b)]

\* The file after that resize(), if it did one and the disk had room.  To go
\* to position 0 returns 0, like a failure, and SetEndOfFile() is not called.
Resized(t, f) ==
  LET number == 2 * t.meta.numberOfBlock
  IN  IF GrowsNow(t) /\ Position(number) # 0 THEN SetLength(f, ResizeTo(t.pointer, number))
      ELSE f

\* write_row().  (When a new block cannot be read the process ends.)
WriteRow(h) ==
  /\ at[h] = "open"
  /\ \A f \in Used : LET b == tree[h][f].meta.countOfBlock IN b < MaxBlocks /\ Seekable(b)
  /\ \E full \in SUBSET Used :
       LET new == [f \in File |-> IF f \in Used \ full THEN Resized(tree[h][f], file[f])
                                  ELSE file[f]]
       IN  /\ file' = new
           /\ tree' = [tree EXCEPT ![h] = [f \in File |->
                         IF f \in Used THEN FreeBlock(tree[h][f], new[f]) ELSE None]]
  /\ rows' = IF fault THEN 0 ELSE rows + 1
  /\ UNCHANGED <<table, keys, tables, at, fault>>

CloseRows(h) ==
  /\ at[h] = "open"
  /\ CloseTree(h, "db")
  /\ at' = [at EXCEPT ![h] = IF keys > 1 THEN "closing" ELSE "closed"]

CloseIndexes(h) ==
  /\ at[h] = "closing"
  /\ CloseTree(h, "sec")
  /\ at' = [at EXCEPT ![h] = "closed"]

\* The process ends.  The .frm of a table that is being created is there.
Crash ==
  /\ table # "none"
  /\ table' = "exists" /\ Fault
  /\ at' = [h \in Handler |-> "closed"]
  /\ tree' = [h \in Handler |-> [f \in File |-> None]]
  /\ UNCHANGED <<keys, tables, file>>

Init ==
  /\ table = "none" /\ keys = 1 /\ tables = 0 /\ rows = 0 /\ fault = FALSE
  /\ file = [f \in File |-> NoFile]
  /\ at = [h \in Handler |-> "closed"]
  /\ tree = [h \in Handler |-> [f \in File |-> None]]

Next ==
  \/ CreateRows \/ CreateIndexes \/ DropTable
  \/ \E h \in Handler :
       \/ OpenRows(h) \/ OpenIndexes(h) \/ OpenFails(h)
       \/ \E f \in File, b \in 0 .. MaxBlocks - 1 : ReadBlock(h, f, b)
       \/ WriteRow(h) \/ CloseRows(h) \/ CloseIndexes(h)
  \/ Crash

Spec == Init /\ [][Next]_vars

-----------------------------------------------------------------------------
(* Properties                                                              *)

MetaType == [countOfBlock : Nat, numberOfBlock : Nat]
Tree == [meta : MetaType, pool : SUBSET Nat, junk : SUBSET Nat, pointer : Nat]

\* The variables have their types, and a handler that is between calls has all
\* trees of its table or none.
TypeOK ==
  /\ table \in {"none", "creating", "exists"} /\ keys \in 1 .. 2
  /\ tables \in 0 .. MaxTables /\ rows \in Nat /\ fault \in BOOLEAN
  /\ \A f \in File : /\ file[f].length \in Nat \cup {-1} /\ file[f].meta \in MetaType
                     /\ \A b \in file[f].stored : b \in Nat /\ b < file[f].length
  /\ at \in [Handler -> {"closed", "opening", "open", "closing"}]
  /\ \A h \in Handler, f \in File :
       tree[h][f] = None \/ (tree[h][f] \in Tree /\ tree[h][f].junk \subseteq tree[h][f].pool)
  /\ \A h \in Handler : at[h] = "open" => \A f \in Used : tree[h][f] # None
  /\ \A h \in Handler : at[h] = "closed" => \A f \in File : tree[h][f] = None

\* The tree that a handler has of f, or the one in the file, counts every row
\* that any handler has put since the table was created, and none of a table
\* that had its name before: handlers with pools of their own do not write
\* over each other's rows.
RowsCounted ==
  table = "exists" /\ ~ fault =>
    \A f \in Used : /\ \A h \in Handler : tree[h][f] # None =>
                         tree[h][f].meta.countOfBlock = rows + 2
                    /\ (\A h \in Handler : tree[h][f] = None) =>
                         file[f].meta.countOfBlock = rows + 2

\* Every block that a closed file counts is in it, also when the file could
\* not be made longer: the blocks behind its end are written when the tree is
\* deleted.
CountedBlocksStored ==
  table = "exists" /\ ~ fault =>
    \A f \in Used : (\A h \in Handler : tree[h][f] = None) =>
                      0 .. file[f].meta.countOfBlock - 1 \subseteq file[f].stored

\* What getBlock() asserts of a block that it finds in the pool: that it is the
\* block of that index.
BlocksAreTheirOwn ==
  ~ fault => \A h \in Handler, f \in File : tree[h][f] # None => tree[h][f].junk = {}
=============================================================================
