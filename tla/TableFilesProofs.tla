-------------------------- MODULE TableFilesProofs ---------------------------
(***************************************************************************)
(* Proofs about TableFiles: handlers with trees of their own count every   *)
(* row and lose no block, for any number of them, as long as the file of a *)
(* tree stays where SetFilePointer() can reach it.                         *)
(***************************************************************************)
EXTENDS TableFiles, FiniteSetTheorems, TLAPS

USE BlocksAssumption, WordAssumption, MaxAssumption

FileRec == [length : Nat \cup {-1}, stored : SUBSET Nat, meta : MetaType]
GoodFile(f) == f \in FileRec /\ \A b \in f.stored : b < f.length
GoodTree(t) == t \in Tree /\ t.junk \subseteq t.pool /\ IsFiniteSet(t.pool)

-----------------------------------------------------------------------------
(* Numbers                                                                 *)

LEMMA PositionType == ASSUME NEW n \in Nat PROVE Position(n) \in Nat /\ Position(n) < Word
BY DEF Position

\* Block numbers that a signed word holds are their own positions.
LEMMA PositionNear ==
  ASSUME NEW n \in Nat, 2 * n < Word
  PROVE  Position(n) = n /\ Seekable(n)
<1>1. n % Word = n
  OBVIOUS
<1>2. n < Word \div 2
  OBVIOUS
<1> QED
  BY <1>1, <1>2 DEF Position, Seekable, Signed

\* A finite set of numbers has a greatest one.
LEMMA MaxOf ==
  ASSUME NEW S, IsFiniteSet(S), S # {}, S \subseteq Int
  PROVE  Max(S) \in S /\ \A x \in S : x <= Max(S)
<1> DEFINE above(x) == {y \in S : x < y}
           A == {above(x) : x \in S}
<1>1. A # {} /\ A \subseteq FiniteSubsetsOf(S)
  <2>1. FiniteSubsetsOf(S) = SUBSET S
    BY FS_FiniteSubsetsOfFinite
  <2>2. PICK x \in S : TRUE
    OBVIOUS
  <2>3. above(x) \in A
    OBVIOUS
  <2>4. ASSUME NEW a \in A PROVE a \subseteq S
    <3>1. PICK y \in S : a = above(y)
      OBVIOUS
    <3> QED
      BY <3>1
  <2> QED
    BY <2>1, <2>3, <2>4
<1>2. IsWellFoundedOn(StrictSubsetOrdering(S), FiniteSubsetsOf(S))
  BY FS_StrictSubsetOrderingWellFounded
<1> HIDE DEF A
<1>3. PICK a \in A : \A c \in A : ~ (<<c, a>> \in StrictSubsetOrdering(S))
  BY <1>1, <1>2, WFMin
<1>4. PICK x \in S : a = above(x)
  BY DEF A
<1>5. ASSUME NEW y \in S, x < y PROVE FALSE
  <2>1. above(y) \in A
    BY DEF A
  <2>2. ASSUME NEW z \in above(y) PROVE z \in above(x)
    <3>1. x \in Int /\ y \in Int /\ z \in Int /\ z \in S /\ x < y /\ y < z
      BY <1>4, <1>5
    <3> QED
      BY <3>1
  <2>3. y \in above(x) /\ y \notin above(y)
    BY <1>5
  <2>4. <<above(y), a>> \in StrictSubsetOrdering(S)
    BY <1>4, <2>2, <2>3 DEF StrictSubsetOrdering
  <2> QED
    BY <1>3, <2>1, <2>4
<1>6. \A y \in S : x >= y
  <2> SUFFICES ASSUME NEW y \in S PROVE x >= y
    OBVIOUS
  <2>1. x \in Int /\ y \in Int
    BY <1>4
  <2> QED
    BY <1>5, <2>1
<1> QED
  BY <1>6 DEF Max

-----------------------------------------------------------------------------
(* Files and trees                                                         *)

LEMMA SetLengthIs ==
  ASSUME NEW f, GoodFile(f), NEW n \in Nat
  PROVE  /\ GoodFile(SetLength(f, n))
         /\ SetLength(f, n).meta = f.meta
         /\ SetLength(f, n).stored = {b \in f.stored : b < n}
<1> DEFINE g == SetLength(f, n)
<1>1. f \in FileRec /\ DOMAIN f = {"length", "stored", "meta"}
  BY DEF GoodFile, FileRec
<1>2. /\ DOMAIN g = DOMAIN f /\ g.length = n
      /\ g.stored = {b \in f.stored : b < n} /\ g.meta = f.meta
  BY <1>1 DEF SetLength
<1>3. g = [x \in DOMAIN g |-> g[x]]
  BY DEF SetLength
<1> HIDE DEF g
<1>4. g \in FileRec
  BY <1>1, <1>2, <1>3 DEF FileRec
<1> QED
  BY <1>2, <1>4 DEF GoodFile, g

LEMMA WrittenIs ==
  ASSUME NEW f, GoodFile(f), NEW S \in SUBSET Nat, IsFiniteSet(S), NEW meta \in MetaType
  PROVE  /\ GoodFile(Written(f, S, meta))
         /\ Written(f, S, meta).meta = meta
         /\ Written(f, S, meta).stored = f.stored \cup S
<1> DEFINE E == {b + 1 : b \in S}
           T == {f.length} \cup E
           g == Written(f, S, meta)
<1>1. g = [length |-> Max(T), stored |-> f.stored \cup S, meta |-> meta]
  BY DEF Written
<1>2. IsFiniteSet(E)
  <2> DEFINE m == [b \in S |-> b + 1]
  <2>1. m \in Surjection(S, E)
    BY DEF Surjection
  <2> HIDE DEF m, E
  <2> QED
    BY <2>1, FS_Surjection
<1>3. IsFiniteSet(T) /\ T # {} /\ T \subseteq Int
  <2>1. IsFiniteSet({f.length})
    BY FS_Singleton
  <2>2. f.length \in Int
    BY DEF GoodFile, FileRec
  <2>3. \A b \in S : b + 1 \in Int
    OBVIOUS
  <2>4. E \subseteq Int
    BY <2>3
  <2> HIDE DEF E
  <2> QED
    BY <1>2, <2>1, <2>2, <2>4, FS_Union
<1> HIDE DEF g
<1>4. Max(T) \in T /\ \A x \in T : x <= Max(T)
  BY <1>3, MaxOf
<1>5. g.length \in Nat \cup {-1} /\ \A b \in S : b < g.length
  BY <1>1, <1>4 DEF GoodFile, FileRec
<1>6. \A b \in f.stored : b < g.length
  BY <1>1, <1>4 DEF GoodFile, FileRec
<1>7. g.meta = meta /\ g.stored = f.stored \cup S /\ f.stored \subseteq Nat
  BY <1>1 DEF GoodFile, FileRec
<1>8. DOMAIN g = {"length", "stored", "meta"} /\ g = [x \in DOMAIN g |-> g[x]]
  BY <1>1
<1>9. g \in FileRec
  BY <1>5, <1>7, <1>8 DEF FileRec
<1>10. \A b \in g.stored : b < g.length
  BY <1>5, <1>6, <1>7
<1> QED
  BY <1>7, <1>9, <1>10 DEF GoodFile, g

LEMMA FlushedIs ==
  ASSUME NEW f, GoodFile(f), NEW t, GoodTree(t)
  PROVE  /\ GoodFile(Flushed(f, t))
         /\ Flushed(f, t).meta = t.meta
         /\ Flushed(f, t).stored = (f.stored \cup t.pool) \ t.junk
<1> DEFINE g == Written(f, t.pool, t.meta)
<1>1. GoodFile(g) /\ g.meta = t.meta /\ g.stored = f.stored \cup t.pool
  BY WrittenIs DEF GoodTree, Tree
<1>2. Flushed(f, t) = [g EXCEPT !.stored = g.stored \ t.junk]
  BY DEF Flushed
<1> HIDE DEF g
<1> QED
  BY <1>1, <1>2 DEF GoodFile, FileRec

LEMMA ReadIntoIs ==
  ASSUME NEW t, GoodTree(t), NEW f, NEW b \in Nat
  PROVE  /\ GoodTree(ReadInto(t, f, b))
         /\ ReadInto(t, f, b).meta = t.meta
         /\ ReadInto(t, f, b).pool = t.pool \cup {b}
         /\ b \in f.stored => ReadInto(t, f, b).junk = t.junk
<1> DEFINE r == ReadInto(t, f, b)
<1>1. t \in Tree /\ DOMAIN t = {"meta", "pool", "junk", "pointer"}
  BY DEF GoodTree, Tree
<1>2. /\ DOMAIN r = DOMAIN t /\ r.meta = t.meta /\ r.pool = t.pool \cup {b}
      /\ r.junk = IF b \in f.stored THEN t.junk ELSE t.junk \cup {b}
      /\ r.pointer = IF b < f.length THEN Position(b) + 1 ELSE Position(b)
  BY <1>1 DEF ReadInto
<1>3. r = [x \in DOMAIN r |-> r[x]]
  BY DEF ReadInto
<1> HIDE DEF r
<1>4. r.pointer \in Nat
  BY <1>2, PositionType
<1>5. r.junk \subseteq r.pool /\ r.pool \subseteq Nat
  BY <1>1, <1>2 DEF GoodTree, Tree
<1>6. r \in Tree
  BY <1>1, <1>2, <1>3, <1>4, <1>5 DEF Tree
<1>7. IsFiniteSet(t.pool \cup {b})
  BY FS_AddElement DEF GoodTree
<1> QED
  BY <1>2, <1>5, <1>6, <1>7 DEF GoodTree, r

LEMMA OpenedIs ==
  ASSUME NEW f, GoodFile(f), Readable(f)
  PROVE  /\ GoodTree(Opened(f)) /\ Opened(f).meta = f.meta
         /\ Opened(f).junk = {}
<1> DEFINE t == [meta |-> f.meta, pool |-> {}, junk |-> {}, pointer |-> 0]
<1>1. GoodTree(t)
  BY FS_EmptySet DEF GoodTree, Tree, GoodFile, FileRec
<1>2. 0 \in f.stored /\ Root \in f.stored /\ Root \in Nat
  BY DEF Readable, Root
<1> DEFINE u == ReadInto(t, f, 0)
<1>3. t.meta = f.meta /\ t.junk = {}
  OBVIOUS
<1> HIDE DEF t
<1>4. GoodTree(u) /\ u.meta = f.meta /\ u.junk = {}
  BY <1>1, <1>2, <1>3, ReadIntoIs
<1> HIDE DEF u
<1>5. Opened(f) = ReadInto(u, f, Root)
  BY DEF Opened, u, t
<1> QED
  BY <1>2, <1>4, <1>5, ReadIntoIs

LEMMA FreeBlockIs ==
  ASSUME NEW t, GoodTree(t), NEW f
  PROVE  /\ GoodTree(FreeBlock(t, f))
         /\ FreeBlock(t, f).meta.countOfBlock = t.meta.countOfBlock + 1
         /\ FreeBlock(t, f).pool = t.pool \cup {t.meta.countOfBlock}
         /\ FreeBlock(t, f).junk = t.junk
<1> DEFINE b == t.meta.countOfBlock
           number == t.meta.numberOfBlock
           g == Grown(t, f)
           r == FreeBlock(t, f)
<1>1. b \in Nat /\ number \in Nat
  BY DEF GoodTree, Tree, MetaType
<1>2. /\ g \in Tree /\ g.pool = t.pool /\ g.junk = t.junk /\ g.meta.countOfBlock = b
  <2>1. ResizeTo(t.pointer, 2 * number) \in Nat
    BY <1>1, PositionType DEF ResizeTo, GoodTree, Tree
  <2>2. CASE ~ GrowsNow(t)
    BY <2>2 DEF Grown, GoodTree
  <2>3. CASE GrowsNow(t)
    <3>1. g = [meta |-> [countOfBlock |-> b, numberOfBlock |-> 2 * number], pool |-> t.pool,
               junk |-> t.junk, pointer |-> ResizeTo(t.pointer, 2 * number)]
      BY <2>3 DEF Grown, GoodTree, Tree, MetaType
    <3> QED
      BY <1>1, <2>1, <3>1 DEF GoodTree, Tree, MetaType
  <2> QED
    BY <2>2, <2>3
<1> HIDE DEF g
<1>3. /\ DOMAIN g = {"meta", "pool", "junk", "pointer"}
      /\ DOMAIN g.meta = {"countOfBlock", "numberOfBlock"}
  BY <1>2 DEF Tree, MetaType
<1>4. /\ DOMAIN r = DOMAIN g /\ r.meta = [g.meta EXCEPT !.countOfBlock = b + 1]
      /\ r.pool = t.pool \cup {b} /\ r.junk = t.junk
      /\ r.pointer = IF b < f.length THEN Position(b) + 1 ELSE Position(b)
  BY <1>2, <1>3 DEF FreeBlock, g
<1>5. r = [x \in DOMAIN r |-> r[x]]
  BY DEF FreeBlock
<1> HIDE DEF r
<1>6. r.meta \in MetaType /\ r.meta.countOfBlock = b + 1
  BY <1>1, <1>2, <1>3, <1>4 DEF Tree, MetaType
<1>7. r.pointer \in Nat /\ r.junk \subseteq r.pool /\ r.pool \subseteq Nat
  BY <1>1, <1>4, PositionType DEF GoodTree, Tree
<1>8. r \in Tree
  BY <1>3, <1>4, <1>5, <1>6, <1>7 DEF Tree
<1>9. IsFiniteSet(t.pool \cup {b})
  BY FS_AddElement DEF GoodTree
<1> QED
  BY <1>4, <1>6, <1>7, <1>8, <1>9 DEF GoodTree, r

\* The new length of the file leaves the blocks that the tree counts.
LEMMA ResizedIs ==
  ASSUME NEW t, GoodTree(t), NEW f, GoodFile(f)
  PROVE  /\ GoodFile(Resized(t, f)) /\ Resized(t, f).meta = f.meta
         /\ Resized(t, f).stored \subseteq f.stored
         /\ 4 * t.meta.countOfBlock < Word =>
              \A b \in f.stored : b < t.meta.countOfBlock => b \in Resized(t, f).stored
<1> DEFINE number == t.meta.numberOfBlock
           to == ResizeTo(t.pointer, 2 * number)
<1>1. t.meta.countOfBlock \in Nat /\ number \in Nat
  BY DEF GoodTree, Tree, MetaType
<1>2. to \in Nat
  BY <1>1, PositionType DEF ResizeTo, GoodTree, Tree
<1>3. CASE ~ (GrowsNow(t) /\ Position(2 * number) # 0)
  BY <1>3 DEF Resized
<1>4. CASE GrowsNow(t) /\ Position(2 * number) # 0
  <2>1. Resized(t, f) = SetLength(f, to) /\ t.meta.countOfBlock = number
    BY <1>4 DEF Resized, GrowsNow
  <2>2. 4 * number < Word => to = 2 * number
    BY <1>1, PositionNear DEF ResizeTo
  <2> HIDE DEF to, number
  <2>3. /\ GoodFile(SetLength(f, to)) /\ SetLength(f, to).meta = f.meta
        /\ SetLength(f, to).stored = {b \in f.stored : b < to}
    BY <1>2, SetLengthIs
  <2>4. f.stored \subseteq Nat
    BY DEF GoodFile, FileRec
  <2> QED
    BY <1>1, <2>1, <2>2, <2>3, <2>4
<1> QED
  BY <1>3, <1>4

\* A file that create() has made, or not quite
LEMMA MadeIs ==
  ASSUME NEW f, GoodFile(f)
  PROVE  /\ GoodFile(Made(f)) /\ Made(f).meta.countOfBlock = 2
         /\ 0 .. 1 \subseteq Made(f).stored
         /\ \A g \in HalfMade(f) : GoodFile(g)
<1> DEFINE e == Emptied(f)
           s == SetLength(e, InitialBlocks)
<1>1. GoodFile(e)
  BY DEF Emptied, GoodFile, FileRec, NoMeta, Meta, MetaType
<1> HIDE DEF e
<1>2. GoodFile(s)
  BY <1>1, SetLengthIs
<1> HIDE DEF s
<1>3. /\ IsFiniteSet({0, Root}) /\ IsFiniteSet({Root}) /\ {0, Root} \in SUBSET Nat /\ {Root} \in SUBSET Nat
  <2>1. IsFiniteSet({0} \cup {Root})
    BY FS_Singleton, FS_AddElement
  <2> QED
    BY <2>1, FS_Singleton DEF Root
<1>4. NoMeta \in MetaType /\ Meta(2, InitialBlocks) \in MetaType /\ Meta(2, InitialBlocks).countOfBlock = 2
  BY DEF NoMeta, Meta, MetaType
<1>5. /\ GoodFile(Written(s, {0, Root}, Meta(2, InitialBlocks)))
      /\ Written(s, {0, Root}, Meta(2, InitialBlocks)).meta = Meta(2, InitialBlocks)
      /\ Written(s, {0, Root}, Meta(2, InitialBlocks)).stored = s.stored \cup {0, Root}
      /\ GoodFile(Written(s, {Root}, NoMeta))
  <2> DEFINE two == {0, Root}
             one == {Root}
             m == Meta(2, InitialBlocks)
  <2>1. /\ IsFiniteSet(two) /\ two \in SUBSET Nat /\ m \in MetaType
        /\ IsFiniteSet(one) /\ one \in SUBSET Nat /\ NoMeta \in MetaType
    BY <1>3, <1>4
  <2> HIDE DEF two, one, m
  <2>2. /\ GoodFile(Written(s, two, m)) /\ Written(s, two, m).meta = m
        /\ Written(s, two, m).stored = s.stored \cup two
    BY <1>2, <2>1, WrittenIs
  <2>3. GoodFile(Written(s, one, NoMeta))
    BY <1>2, <2>1, WrittenIs
  <2> QED
    BY <2>2, <2>3 DEF two, one, m
<1>6. GoodFile(Made(f)) /\ Made(f).meta.countOfBlock = 2 /\ {0, Root} \subseteq Made(f).stored
  BY <1>4, <1>5 DEF Made, s, e
<1>7. \A g \in HalfMade(f) : GoodFile(g)
  BY <1>1, <1>2, <1>5 DEF HalfMade, s, e
<1>8. 0 .. 1 \subseteq Made(f).stored
  BY <1>6 DEF Root
<1> QED
  BY <1>6, <1>7, <1>8

-----------------------------------------------------------------------------
(* The inductive invariant                                                 *)

FileShape == file \in [File -> FileRec] /\ \A f \in File : GoodFile(file[f])
TreeShape ==
  /\ tree \in [Handler -> [File -> {None} \cup Tree]]
  /\ \A h \in Handler, f \in File : tree[h][f] # None => GoodTree(tree[h][f])
Shape ==
  /\ table \in {"none", "creating", "exists"} /\ keys \in 1 .. 2
  /\ tables \in 0 .. MaxTables /\ rows \in Nat /\ fault \in BOOLEAN
  /\ at \in [Handler -> {"closed", "opening", "open", "closing"}]
  /\ FileShape /\ TreeShape

\* The trees that a handler has, by the call it is in
Held(h) ==
  IF at[h] = "closed" THEN {} ELSE IF at[h] = "opening" THEN {"db"}
  ELSE IF at[h] = "open" THEN Used ELSE {"sec"}
Calls ==
  /\ \A h \in Handler, f \in File : tree[h][f] # None <=> f \in Held(h)
  /\ \A h \in Handler : at[h] \in {"opening", "closing"} => keys = 2
  /\ table # "exists" => \A h \in Handler : at[h] = "closed"

\* The share modes let one handler alone have a file open.
Exclusive == \A f \in File, g, h \in Handler : tree[g][f] # None /\ tree[h][f] # None => g = h

Closed(f) == \A h \in Handler : tree[h][f] = None
Ready == IF table = "exists" THEN Used ELSE IF table = "creating" THEN {"db"} ELSE {}

\* The file that is made first waits for the second one with no rows.
CountedIn(f) ==
  /\ \A h \in Handler : tree[h][f] # None => tree[h][f].meta.countOfBlock = rows + 2
  /\ Closed(f) => file[f].meta.countOfBlock = rows + 2
Counted ==
  /\ table = "creating" => rows = 0 /\ keys = 2
  /\ ~ fault => \A f \in Ready : CountedIn(f)

\* A block that is counted is in memory or in the file, as long as resize() can
\* seek to twice the blocks of a tree: in the code, files of up to 1 GiB.
Near == 4 * MaxBlocks <= Word
InFile(S, n) == \A b \in Nat : b < n => b \in S
KeptIn(f) ==
  /\ \A h \in Handler : tree[h][f] # None =>
       /\ tree[h][f].junk = {}
       /\ InFile(tree[h][f].pool \cup file[f].stored, tree[h][f].meta.countOfBlock)
  /\ Closed(f) => InFile(file[f].stored, file[f].meta.countOfBlock)
Kept == Near /\ ~ fault => \A f \in Ready : KeptIn(f)

Inv == Shape /\ Calls /\ Exclusive /\ Counted /\ Kept

LEMMA TreeIsSome == ASSUME NEW t \in Tree PROVE t # None
<1>1. DOMAIN t = {"meta", "pool", "junk", "pointer"}
  BY DEF Tree
<1>2. DOMAIN None = {}
  BY DEF None
<1> QED
  BY <1>1, <1>2

LEMMA Files == ASSUME Inv PROVE Used \subseteq File /\ "db" \in Used /\ (keys = 2 => Used = File)
                                /\ Ready \subseteq Used
BY DEF Used, File, Ready, Inv, Shape, Counted

\* The trees after the one that handler h has of f became x
SetTree(h, f, x) ==
  /\ TreeShape'
  /\ \A g \in Handler, e \in File : tree'[g][e] = IF g = h /\ e = f THEN x ELSE tree[g][e]

LEMMA TreeChanged ==
  ASSUME Inv, NEW h \in Handler, NEW f \in File, NEW x, x = None \/ GoodTree(x),
         tree' = [tree EXCEPT ![h][f] = x]
  PROVE  SetTree(h, f, x)
<1>1. tree \in [Handler -> [File -> {None} \cup Tree]]
  BY DEF Inv, Shape, TreeShape
<1>2. x \in {None} \cup Tree
  BY DEF GoodTree
<1>3. tree' \in [Handler -> [File -> {None} \cup Tree]]
  BY <1>1, <1>2
<1>4. \A g \in Handler, e \in File : tree'[g][e] = IF g = h /\ e = f THEN x ELSE tree[g][e]
  BY <1>1
<1> QED
  BY <1>3, <1>4 DEF SetTree, TreeShape, Inv, Shape

LEMMA FileChanged ==
  ASSUME Inv, NEW f \in File, NEW x, GoodFile(x), file' = [file EXCEPT ![f] = x]
  PROVE  /\ FileShape' /\ file'[f] = x
         /\ \A e \in File : e # f => file'[e] = file[e]
BY DEF Inv, Shape, FileShape, GoodFile

-----------------------------------------------------------------------------
(* Opening and closing a tree                                              *)

\* What a step does not change of a file and its trees leaves its count and its
\* blocks alone.
Untouched(f) == /\ \A h \in Handler : tree'[h][f] = tree[h][f]
                /\ file'[f] = file[f]
LEMMA UntouchedIs ==
  ASSUME NEW f \in File, Untouched(f), rows' = rows
  PROVE  (CountedIn(f) => CountedIn(f)') /\ (KeptIn(f) => KeptIn(f)')
BY DEF Untouched, CountedIn, KeptIn, Closed

LEMMA OpenTree ==
  ASSUME Inv, NEW h \in Handler, NEW f \in Used, table = "exists",
         MayOpen(f), Readable(file[f]),
         tree' = [tree EXCEPT ![h][f] = Opened(file[f])],
         UNCHANGED <<table, keys, file, rows, fault>>
  PROVE  SetTree(h, f, Opened(file[f])) /\ Opened(file[f]) # None
         /\ Exclusive' /\ Counted' /\ Kept'
<1> DEFINE t == Opened(file[f])
<1>1. f \in File /\ GoodFile(file[f]) /\ Closed(f) /\ f \in Ready
  BY Files DEF Inv, Shape, FileShape, MayOpen, Closed, Ready
<1>2. GoodTree(t) /\ t.meta = file[f].meta /\ t.junk = {}
  BY <1>1, OpenedIs
<1>3. t # None
  BY <1>2, TreeIsSome DEF GoodTree
<1>4. SetTree(h, f, t)
  BY <1>1, <1>2, TreeChanged
<1> HIDE DEF t
<1>5. Exclusive'
  BY <1>1, <1>4 DEF Exclusive, SetTree, Inv, Closed
<1>6. Ready' = Ready /\ Ready \subseteq File
  BY Files DEF Ready, Used
<1>7. tree'[h][f] = t /\ \A g \in Handler : tree'[g][f] # None => g = h
  BY <1>1, <1>4 DEF SetTree, Closed
<1>8. ~ Closed(f)' /\ \A e \in File : e # f => Untouched(e)
  BY <1>1, <1>3, <1>4 DEF SetTree, Closed, Untouched
<1>9. ASSUME ~ fault PROVE CountedIn(f)'
  BY <1>1, <1>2, <1>7, <1>8, <1>9 DEF CountedIn, Inv, Counted
<1>10. ASSUME Near, ~ fault PROVE KeptIn(f)'
  <2>1. InFile(t.pool \cup file[f].stored, t.meta.countOfBlock)
    BY <1>1, <1>2, <1>10 DEF Inv, Kept, KeptIn, InFile
  <2> QED
    BY <1>2, <1>7, <1>8, <2>1 DEF KeptIn
<1>11. Counted'
  BY <1>6, <1>8, <1>9, UntouchedIs DEF Counted, Inv
<1>12. Kept'
  BY <1>6, <1>8, <1>10, UntouchedIs DEF Kept, Inv, Near
<1> QED
  BY <1>3, <1>4, <1>5, <1>11, <1>12 DEF t

LEMMA ShutTree ==
  ASSUME Inv, NEW h \in Handler, NEW f \in Used, table = "exists", tree[h][f] # None,
         tree' = [tree EXCEPT ![h][f] = None], UNCHANGED <<table, keys>>,
         \/ /\ file' = [file EXCEPT ![f] = Flushed(file[f], tree[h][f])]
            /\ UNCHANGED <<rows, fault>>
         \/ UNCHANGED file /\ Fault
  PROVE  SetTree(h, f, None) /\ FileShape' /\ Exclusive' /\ Counted' /\ Kept'
<1> DEFINE t == tree[h][f]
           s == Flushed(file[f], t)
<1>1. f \in File /\ GoodFile(file[f]) /\ GoodTree(t) /\ f \in Ready
  BY Files DEF Inv, Shape, FileShape, TreeShape, Ready
<1>2. SetTree(h, f, None)
  BY <1>1, TreeChanged
<1>3. Exclusive'
  BY <1>2 DEF Exclusive, SetTree, Inv
<1>4. CASE UNCHANGED file /\ Fault
  BY <1>2, <1>3, <1>4 DEF Fault, Inv, Shape, FileShape, Counted, Kept
<1>5. CASE file' = [file EXCEPT ![f] = s] /\ UNCHANGED <<rows, fault>>
  <2>1. GoodFile(s) /\ s.meta = t.meta /\ s.stored = (file[f].stored \cup t.pool) \ t.junk
    BY <1>1, FlushedIs
  <2> HIDE DEF s
  <2>2. FileShape' /\ file'[f] = s /\ \A e \in File : e # f => file'[e] = file[e]
    BY <1>1, <1>5, <2>1, FileChanged
  <2>3. Ready' = Ready /\ Ready \subseteq File
    BY Files DEF Ready, Used
  <2>4. Closed(f)' /\ (\A g \in Handler : tree'[g][f] = None)
        /\ \A e \in File : e # f => Untouched(e)
    BY <1>1, <1>2, <2>2 DEF SetTree, Closed, Inv, Exclusive, Untouched
  <2>5. ASSUME ~ fault PROVE CountedIn(f)'
    <3>1. t.meta.countOfBlock = rows + 2
      BY <1>1, <2>5 DEF Inv, Counted, CountedIn
    <3> QED
      BY <1>5, <2>1, <2>2, <2>4, <3>1 DEF CountedIn
  <2>6. ASSUME Near, ~ fault PROVE KeptIn(f)'
    <3>1. InFile(s.stored, s.meta.countOfBlock)
      BY <1>1, <2>1, <2>6 DEF Inv, Kept, KeptIn, InFile
    <3> QED
      BY <2>2, <2>4, <3>1 DEF KeptIn
  <2>7. Counted'
    BY <1>5, <2>3, <2>4, <2>5, UntouchedIs DEF Counted, Inv
  <2>8. Kept'
    BY <1>5, <2>3, <2>4, <2>6, UntouchedIs DEF Kept, Inv, Near
  <2> QED
    BY <1>2, <1>3, <2>2, <2>7, <2>8
<1> QED
  BY <1>4, <1>5

-----------------------------------------------------------------------------
(* Reading a block, and new ones                                           *)

LEMMA ReadOne ==
  ASSUME Inv, NEW h \in Handler, NEW f \in File, NEW b \in Nat, ReadBlock(h, f, b)
  PROVE  Inv'
<1> DEFINE t == tree[h][f]
           x == ReadInto(t, file[f], b)
<1>1. f \in Used /\ at[h] = "open" /\ table = "exists" /\ f \in Ready /\ t # None
  BY DEF ReadBlock, Inv, Calls, Held, Ready
<1>2. GoodTree(t) /\ b < t.meta.countOfBlock /\ b \notin t.pool
  BY <1>1 DEF ReadBlock, Inv, Shape, TreeShape
<1>3. GoodTree(x) /\ x.meta = t.meta /\ x.pool = t.pool \cup {b} /\ (b \in file[f].stored => x.junk = t.junk)
  <2> HIDE DEF t
  <2> QED
    BY <1>2, ReadIntoIs
<1>4. x # None
  BY <1>3, TreeIsSome DEF GoodTree
<1>5. SetTree(h, f, x)
  <2>1. tree' = [tree EXCEPT ![h][f] = x]
    BY DEF ReadBlock
  <2> HIDE DEF x
  <2> QED
    BY <1>3, <2>1, TreeChanged
<1> HIDE DEF x
<1>6. UNCHANGED <<table, keys, tables, file, at, rows, fault>>
  BY DEF ReadBlock
<1>7. Shape' /\ Calls' /\ Exclusive'
  <2>1. Shape'
    BY <1>5, <1>6 DEF Inv, Shape, SetTree, FileShape
  <2>2. Calls'
    BY <1>1, <1>4, <1>5, <1>6 DEF Inv, Calls, SetTree, Held, Used
  <2>3. Exclusive'
    BY <1>1, <1>5 DEF Inv, Exclusive, SetTree
  <2> QED
    BY <2>1, <2>2, <2>3
<1>8. Ready' = Ready /\ Ready \subseteq File
  BY <1>6, Files DEF Ready, Used
<1>9. tree'[h][f] = x /\ ~ Closed(f)' /\ (\A g \in Handler : tree'[g][f] # None => g = h)
      /\ \A e \in File : e # f => Untouched(e)
  BY <1>1, <1>4, <1>5, <1>6 DEF SetTree, Closed, Inv, Exclusive, Untouched
<1>10. ASSUME ~ fault PROVE CountedIn(f)'
  BY <1>1, <1>3, <1>6, <1>9, <1>10 DEF CountedIn, Inv, Counted
<1>11. ASSUME Near, ~ fault PROVE KeptIn(f)'
  <2>1. t.junk = {} /\ InFile(t.pool \cup file[f].stored, t.meta.countOfBlock)
    BY <1>1, <1>11 DEF Inv, Kept, KeptIn
  <2>2. b \in file[f].stored
    BY <1>2, <2>1 DEF InFile
  <2>3. InFile(x.pool \cup file[f].stored, x.meta.countOfBlock)
    BY <1>3, <2>1 DEF InFile
  <2> QED
    BY <1>3, <1>6, <1>9, <2>1, <2>2, <2>3 DEF KeptIn
<1>12. Counted'
  BY <1>6, <1>8, <1>9, <1>10, UntouchedIs DEF Counted, Inv
<1>13. Kept'
  BY <1>6, <1>8, <1>9, <1>11, UntouchedIs DEF Kept, Inv, Near
<1> QED
  BY <1>7, <1>12, <1>13 DEF Inv

LEMMA PutRow ==
  ASSUME Inv, NEW h \in Handler, WriteRow(h)
  PROVE  Inv'
<1>1. at[h] = "open" /\ table = "exists" /\ Ready = Used /\ Used \subseteq File
  BY Files DEF WriteRow, Inv, Calls, Ready
<1>2. \A f \in Used : /\ GoodTree(tree[h][f]) /\ tree[h][f] # None
                      /\ tree[h][f].meta.countOfBlock < MaxBlocks
  BY <1>1 DEF WriteRow, Inv, Shape, TreeShape, Calls, Held
<1>3. \A g \in Handler, f \in File : f \notin Used => tree[g][f] = None
  <2>1. \A g \in Handler : Held(g) \subseteq Used
    BY Files DEF Held, Inv, Calls, File, Shape
  <2> QED
    BY <2>1 DEF Inv, Calls
<1>4. PICK full \in SUBSET Used :
        LET new == [f \in File |-> IF f \in Used \ full THEN Resized(tree[h][f], file[f])
                                   ELSE file[f]]
        IN  /\ file' = new
            /\ tree' = [tree EXCEPT ![h] = [f \in File |->
                          IF f \in Used THEN FreeBlock(tree[h][f], new[f]) ELSE None]]
  BY DEF WriteRow
<1>5. UNCHANGED <<table, keys, tables, at, fault>> /\ rows' = (IF fault THEN 0 ELSE rows + 1)
  BY DEF WriteRow
<1>6. \A f \in File : file'[f] = IF f \in Used \ full THEN Resized(tree[h][f], file[f]) ELSE file[f]
  BY <1>4
<1>7. \A g \in Handler, f \in File :
        tree'[g][f] = IF g = h /\ f \in Used THEN FreeBlock(tree[h][f], file'[f]) ELSE tree[g][f]
  <2>1. tree' = [tree EXCEPT ![h] = [f \in File |->
                   IF f \in Used THEN FreeBlock(tree[h][f], file'[f]) ELSE None]]
    BY <1>4
  <2> QED
    BY <1>3, <2>1 DEF Inv, Shape, TreeShape
<1>8. \A f \in Used : LET y == tree'[h][f] IN
        /\ GoodTree(y) /\ y # None
        /\ y.meta.countOfBlock = tree[h][f].meta.countOfBlock + 1
        /\ y.pool = tree[h][f].pool \cup {tree[h][f].meta.countOfBlock}
        /\ y.junk = tree[h][f].junk
  <2>1. TAKE f \in Used
  <2> DEFINE t == tree[h][f]
             g == file'[f]
  <2>2. GoodTree(t) /\ tree'[h][f] = FreeBlock(t, g)
    BY <1>1, <1>2, <1>7
  <2> HIDE DEF t, g
  <2>3. /\ GoodTree(FreeBlock(t, g))
        /\ FreeBlock(t, g).meta.countOfBlock = t.meta.countOfBlock + 1
        /\ FreeBlock(t, g).pool = t.pool \cup {t.meta.countOfBlock}
        /\ FreeBlock(t, g).junk = t.junk
    BY <2>2, FreeBlockIs
  <2>4. FreeBlock(t, g) # None
    BY <2>3, TreeIsSome DEF GoodTree
  <2> QED
    BY <2>2, <2>3, <2>4 DEF t
<1>9. \A f \in Used : /\ GoodFile(file'[f])
                      /\ 4 * tree[h][f].meta.countOfBlock < Word =>
                           \A b \in file[f].stored :
                             b < tree[h][f].meta.countOfBlock => b \in file'[f].stored
  <2>1. TAKE f \in Used
  <2>2. GoodTree(tree[h][f]) /\ GoodFile(file[f])
    BY <1>1, <1>2 DEF Inv, Shape, FileShape
  <2>3. CASE f \in full
    BY <1>1, <1>6, <2>2, <2>3
  <2>4. CASE f \notin full
    <3>1. file'[f] = Resized(tree[h][f], file[f])
      BY <1>1, <1>6, <2>4
    <3> QED
      BY <2>2, <3>1, ResizedIs
  <2> QED
    BY <2>3, <2>4
<1>10. \A f \in File : f \notin Used => Untouched(f)
  BY <1>6, <1>7 DEF Untouched
<1>11. Shape'
  <2>1. FileShape'
    <3>1. \A f \in File : GoodFile(file'[f])
      BY <1>9, <1>10 DEF Inv, Shape, FileShape, Untouched
    <3>2. DOMAIN file' = File /\ file' = [f \in File |-> file'[f]]
      BY <1>4
    <3> QED
      BY <3>1, <3>2 DEF FileShape, GoodFile
  <2>2. TreeShape'
    <3>1. \A g \in Handler, f \in File : tree'[g][f] \in {None} \cup Tree
                                         /\ (tree'[g][f] # None => GoodTree(tree'[g][f]))
      BY <1>7, <1>8 DEF Inv, Shape, TreeShape, GoodTree
    <3>2. tree' \in [Handler -> [File -> {None} \cup Tree]]
      <4> DEFINE new == [f \in File |-> IF f \in Used THEN FreeBlock(tree[h][f], file'[f]) ELSE None]
      <4>1. tree' = [tree EXCEPT ![h] = new]
        BY <1>4
      <4>2. new \in [File -> {None} \cup Tree]
        <5>1. \A f \in File : new[f] \in {None} \cup Tree
          BY <1>7, <3>1
        <5> QED
          BY <5>1
      <4> HIDE DEF new
      <4> QED
        BY <4>1, <4>2 DEF Inv, Shape, TreeShape
    <3> QED
      BY <3>1, <3>2 DEF TreeShape
  <2> QED
    BY <1>5, <2>1, <2>2 DEF Inv, Shape
<1>12. Calls'
  <2>1. \A g \in Handler, f \in File : tree'[g][f] # None <=> tree[g][f] # None
    BY <1>2, <1>7, <1>8
  <2> QED
    BY <1>5, <2>1 DEF Inv, Calls, Held, Used
<1>13. Exclusive'
  BY <1>2, <1>7 DEF Inv, Exclusive
<1>14. Ready' = Ready
  BY <1>5 DEF Ready, Used
<1>15. \A f \in Used : ~ Closed(f)' /\ \A g \in Handler : tree'[g][f] # None => g = h
  BY <1>1, <1>2, <1>7, <1>8 DEF Inv, Exclusive, Closed
<1>16. Counted'
  <2>1. ASSUME ~ fault, NEW f \in Used PROVE CountedIn(f)'
    <3>1. tree[h][f].meta.countOfBlock = rows + 2 /\ rows \in Nat
      BY <1>1, <1>2, <2>1 DEF Inv, Counted, CountedIn, Shape
    <3> QED
      BY <1>5, <1>8, <1>15, <2>1, <3>1 DEF CountedIn
  <2> QED
    BY <1>1, <1>5, <1>14, <2>1 DEF Counted
<1>17. Kept'
  <2>1. ASSUME Near, ~ fault, NEW f \in Used PROVE KeptIn(f)'
    <3> DEFINE n == tree[h][f].meta.countOfBlock
    <3>1. tree[h][f].junk = {} /\ InFile(tree[h][f].pool \cup file[f].stored, n)
      BY <1>1, <1>2, <2>1 DEF Inv, Kept, KeptIn
    <3>2. n \in Nat /\ 4 * n < Word
      BY <1>2, <2>1 DEF Near, GoodTree, Tree, MetaType
    <3>3. InFile(tree'[h][f].pool \cup file'[f].stored, tree'[h][f].meta.countOfBlock)
      <4>1. tree'[h][f].meta.countOfBlock = n + 1 /\ tree'[h][f].pool = tree[h][f].pool \cup {n}
        BY <1>8
      <4>2. \A b \in file[f].stored : b < n => b \in file'[f].stored
        BY <1>9, <3>2
      <4> HIDE DEF n
      <4> QED
        BY <3>1, <3>2, <4>1, <4>2 DEF InFile
    <3> QED
      BY <1>8, <1>15, <3>1, <3>3 DEF KeptIn
  <2> QED
    BY <1>1, <1>5, <1>14, <2>1 DEF Kept, Near
<1> QED
  BY <1>11, <1>12, <1>13, <1>16, <1>17 DEF Inv

-----------------------------------------------------------------------------
(* The steps                                                               *)

\* A step that leaves the trees of all handlers closed
LEMMA AllClosed ==
  ASSUME Inv, \A h \in Handler : at[h] = "closed"
  PROVE  \A h \in Handler, f \in File : tree[h][f] = None
BY DEF Inv, Calls, Held

LEMMA MakeRows == ASSUME Inv, CreateRows PROVE Inv'
<1>1. \A h \in Handler : at[h] = "closed"
  BY DEF CreateRows, Inv, Calls
<1>2. \A h \in Handler, f \in File : tree[h][f] = None
  BY <1>1, AllClosed
<1>0. PICK ended \in BOOLEAN :
        Creates("db", IF keys' > 1 THEN "creating" ELSE "exists", ended) /\ fault' = ended
  BY DEF CreateRows
<1>3. UNCHANGED <<at, tree>> /\ rows' = 0 /\ fault' = ended /\ keys' \in 1 .. 2
      /\ tables' \in 0 .. MaxTables
  BY <1>0 DEF CreateRows, Inv, Shape
<1>4. "db" \in File /\ GoodFile(file["db"])
  BY DEF File, Inv, Shape, FileShape
<1>5. Calls'
  <2>1. \A h \in Handler : Held(h)' = {}
    BY <1>1, <1>3 DEF Held
  <2> QED
    BY <1>1, <1>2, <1>3, <2>1 DEF Calls
<1>6. Exclusive'
  BY <1>2, <1>3 DEF Exclusive
<1>7. TreeShape'
  BY <1>3 DEF Inv, Shape, TreeShape
<1>8. CASE /\ file' = [file EXCEPT !["db"] = Made(@)]
           /\ table' = IF keys' > 1 THEN "creating" ELSE "exists"
  <2> DEFINE m == Made(file["db"])
  <2>1. GoodFile(m) /\ m.meta.countOfBlock = 2 /\ 0 .. 1 \subseteq m.stored
    BY <1>4, MadeIs
  <2>2. file' = [file EXCEPT !["db"] = m]
    BY <1>8
  <2> HIDE DEF m
  <2>3. FileShape' /\ file'["db"] = m
    BY <1>4, <2>1, <2>2, FileChanged
  <2>4. table' \in {"creating", "exists"} /\ (table' = "creating" => keys' = 2)
    BY <1>3, <1>8
  <2>5. Ready' \subseteq {"db"}
    BY <1>3, <1>8 DEF Ready, Used
  <2>6. Counted'
    <3>1. CountedIn("db")'
      BY <1>2, <1>3, <1>4, <2>1, <2>3 DEF CountedIn
    <3> QED
      BY <1>3, <2>4, <2>5, <3>1 DEF Counted
  <2>7. Kept'
    <3>1. KeptIn("db")'
      <4>1. InFile(m.stored, 2)
        BY <2>1 DEF InFile
      <4> QED
        BY <1>2, <1>3, <1>4, <2>1, <2>3, <4>1 DEF KeptIn
    <3> QED
      BY <2>5, <3>1 DEF Kept
  <2>8. Shape'
    BY <1>3, <1>7, <2>3, <2>4 DEF Inv, Shape
  <2> QED
    BY <1>5, <1>6, <2>6, <2>7, <2>8 DEF Inv
<1>9. CASE /\ \E f \in HalfMade(file["db"]) : file' = [file EXCEPT !["db"] = f]
           /\ table' = IF ended THEN "exists" ELSE "none"
  <2>1. PICK f \in HalfMade(file["db"]) : file' = [file EXCEPT !["db"] = f]
    BY <1>9
  <2>2. GoodFile(f)
    BY <1>4, MadeIs
  <2>3. FileShape'
    BY <1>4, <2>1, <2>2, FileChanged
  <2>4. Ready' = {} \/ fault'
    BY <1>3, <1>9 DEF Ready
  <2>5. Shape' /\ Counted' /\ Kept'
    BY <1>3, <1>7, <1>9, <2>3, <2>4 DEF Inv, Shape, Counted, Kept
  <2> QED
    BY <1>5, <1>6, <2>5 DEF Inv
<1> QED
  BY <1>0, <1>8, <1>9 DEF Creates

LEMMA MakeIndexes == ASSUME Inv, CreateIndexes PROVE Inv'
<1>1. \A h \in Handler : at[h] = "closed"
  BY DEF CreateIndexes, Inv, Calls
<1>2. \A h \in Handler, f \in File : tree[h][f] = None
  BY <1>1, AllClosed
<1>0. PICK ended \in BOOLEAN : Creates("sec", "exists", ended) /\ fault' = (fault \/ ended)
  BY DEF CreateIndexes
<1>3. /\ UNCHANGED <<keys, tables, at, tree, rows>> /\ table = "creating"
      /\ fault' = (fault \/ ended) /\ fault' \in BOOLEAN
  BY <1>0 DEF CreateIndexes, Inv, Shape
<1>4. "sec" \in File /\ "db" \in File /\ GoodFile(file["sec"])
  BY DEF File, Inv, Shape, FileShape
<1>5. Calls'
  <2>1. \A h \in Handler : Held(h)' = {}
    BY <1>1, <1>3 DEF Held
  <2> QED
    BY <1>1, <1>2, <1>3, <2>1 DEF Calls
<1>6. Exclusive'
  BY <1>2, <1>3 DEF Exclusive
<1>7. TreeShape'
  BY <1>3 DEF Inv, Shape, TreeShape
<1>8. CASE file' = [file EXCEPT !["sec"] = Made(@)] /\ table' = "exists"
  <2> DEFINE m == Made(file["sec"])
  <2>1. GoodFile(m) /\ m.meta.countOfBlock = 2 /\ 0 .. 1 \subseteq m.stored
    BY <1>4, MadeIs
  <2>2. file' = [file EXCEPT !["sec"] = m]
    BY <1>8
  <2> HIDE DEF m
  <2>3. FileShape' /\ file'["sec"] = m /\ \A e \in File : e # "sec" => file'[e] = file[e]
    BY <1>4, <2>1, <2>2, FileChanged
  <2>4. Untouched("db")
    BY <1>3, <1>4, <2>3 DEF Untouched
  <2>5. Ready' \subseteq File /\ Ready = {"db"} /\ File = {"db", "sec"}
    BY <1>3, <1>8 DEF Ready, Used, File
  <2>6. Counted'
    <3>1. CountedIn("sec")'
      BY <1>2, <1>3, <1>4, <2>1, <2>3 DEF CountedIn, Inv, Counted
    <3>2. ~ fault => CountedIn("db")'
      BY <1>3, <1>4, <2>4, <2>5, UntouchedIs DEF Inv, Counted
    <3> QED
      BY <1>3, <1>8, <2>5, <3>1, <3>2 DEF Counted
  <2>7. Kept'
    <3>1. KeptIn("sec")'
      <4>1. InFile(m.stored, 2)
        BY <2>1 DEF InFile
      <4> QED
        BY <1>2, <1>3, <1>4, <2>1, <2>3, <4>1 DEF KeptIn
    <3>2. Near /\ ~ fault => KeptIn("db")'
      BY <1>3, <1>4, <2>4, <2>5, UntouchedIs DEF Inv, Kept
    <3> QED
      BY <1>3, <2>5, <3>1, <3>2 DEF Kept, Near
  <2>8. Shape'
    BY <1>3, <1>7, <1>8, <2>3 DEF Inv, Shape
  <2> QED
    BY <1>5, <1>6, <2>6, <2>7, <2>8 DEF Inv
<1>9. CASE /\ \E f \in HalfMade(file["sec"]) : file' = [file EXCEPT !["sec"] = f]
           /\ table' = IF ended THEN "exists" ELSE "none"
  <2>1. PICK f \in HalfMade(file["sec"]) : file' = [file EXCEPT !["sec"] = f]
    BY <1>9
  <2>2. GoodFile(f)
    BY <1>4, MadeIs
  <2>3. FileShape'
    BY <1>4, <2>1, <2>2, FileChanged
  <2>4. Ready' = {} \/ fault'
    BY <1>3, <1>9 DEF Ready
  <2>5. Shape' /\ Counted' /\ Kept'
    BY <1>3, <1>7, <1>9, <2>3, <2>4 DEF Inv, Shape, Counted, Kept
  <2> QED
    BY <1>5, <1>6, <2>5 DEF Inv
<1> QED
  BY <1>0, <1>8, <1>9 DEF Creates

\* A handler goes on to the next call, and its trees with it.
LEMMA CallGoesOn ==
  ASSUME Inv, NEW h \in Handler, NEW f \in File, NEW x,
         NEW c \in {"closed", "opening", "open", "closing"},
         SetTree(h, f, x), at' = [at EXCEPT ![h] = c], UNCHANGED <<table, keys>>,
         table = "exists", c \in {"opening", "closing"} => keys = 2,
         Held(h)' = IF x = None THEN Held(h) \ {f} ELSE Held(h) \cup {f}
  PROVE  Calls' /\ at' \in [Handler -> {"closed", "opening", "open", "closing"}]
<1>1. at \in [Handler -> {"closed", "opening", "open", "closing"}]
  BY DEF Inv, Shape
<1>2. \A g \in Handler : g # h => Held(g)' = Held(g)
  BY <1>1 DEF Held, Used
<1>3. \A g \in Handler, e \in File : tree'[g][e] # None <=> e \in Held(g)'
  <2>1. TAKE g \in Handler, e \in File
  <2>2. tree[g][e] # None <=> e \in Held(g)
    BY DEF Inv, Calls
  <2>3. tree'[g][e] = IF g = h /\ e = f THEN x ELSE tree[g][e]
    BY DEF SetTree
  <2>4. CASE g # h
    BY <1>2, <2>2, <2>3, <2>4
  <2>5. CASE g = h
    BY <2>2, <2>3, <2>5
  <2> QED
    BY <2>4, <2>5
<1>4. \A g \in Handler : at'[g] \in {"opening", "closing"} => keys' = 2
  BY <1>1 DEF Inv, Calls
<1> QED
  BY <1>1, <1>3, <1>4 DEF Calls

LEMMA OpenOne == ASSUME Inv, NEW h \in Handler, OpenRows(h) PROVE Inv'
<1> DEFINE t == Opened(file["db"])
           c == IF keys > 1 THEN "opening" ELSE "open"
<1>1. /\ "db" \in Used /\ "db" \in File /\ keys \in 1 .. 2 /\ at[h] = "closed" /\ table = "exists"
      /\ at' = [at EXCEPT ![h] = c] /\ UNCHANGED <<table, keys, tables, file, rows, fault>>
      /\ c \in {"closed", "opening", "open", "closing"}
  BY Files DEF OpenRows, Inv, Shape, File
<1>2. SetTree(h, "db", t) /\ t # None /\ Exclusive' /\ Counted' /\ Kept'
  <2>1. /\ MayOpen("db") /\ Readable(file["db"])
        /\ tree' = [tree EXCEPT ![h]["db"] = Opened(file["db"])]
    BY DEF OpenRows
  <2> QED
    BY <1>1, <2>1, OpenTree
<1>3. Held(h)' = Held(h) \cup {"db"} /\ (c = "opening" => keys = 2) /\ c \in {"opening", "open"}
  BY <1>1 DEF Held, Used, Inv, Shape
<1> HIDE DEF t, c
<1>4. Calls' /\ at' \in [Handler -> {"closed", "opening", "open", "closing"}]
  BY <1>1, <1>2, <1>3, CallGoesOn
<1>5. Shape'
  BY <1>1, <1>2, <1>4 DEF Inv, Shape, SetTree, FileShape
<1> QED
  BY <1>2, <1>4, <1>5 DEF Inv

LEMMA OpenOther == ASSUME Inv, NEW h \in Handler, OpenIndexes(h) PROVE Inv'
<1> DEFINE t == Opened(file["sec"])
<1>1. /\ at[h] = "opening" /\ at' = [at EXCEPT ![h] = "open"]
      /\ UNCHANGED <<table, keys, tables, file, rows, fault>>
  BY DEF OpenIndexes
<1>2. keys = 2 /\ table = "exists" /\ Used = File /\ "sec" \in File /\ File = {"db", "sec"}
  BY <1>1, Files DEF Inv, Calls, File
<1>3. SetTree(h, "sec", t) /\ t # None /\ Exclusive' /\ Counted' /\ Kept'
  <2>1. /\ MayOpen("sec") /\ Readable(file["sec"])
        /\ tree' = [tree EXCEPT ![h]["sec"] = Opened(file["sec"])]
    BY DEF OpenIndexes
  <2> QED
    BY <1>1, <1>2, <2>1, OpenTree
<1>4. Held(h)' = Held(h) \cup {"sec"}
  BY <1>1, <1>2 DEF Held, Used, Inv, Shape
<1> HIDE DEF t
<1>5. Calls' /\ at' \in [Handler -> {"closed", "opening", "open", "closing"}]
  BY <1>1, <1>2, <1>3, <1>4, CallGoesOn
<1>6. Shape'
  BY <1>1, <1>3, <1>5 DEF Inv, Shape, SetTree, FileShape
<1> QED
  BY <1>3, <1>5, <1>6 DEF Inv

\* The three ways to close a tree of h: open() fails, or one of the two steps
\* of close().
Shuts(h, f, c) ==
  /\ tree' = [tree EXCEPT ![h][f] = None] /\ at' = [at EXCEPT ![h] = c]
  /\ UNCHANGED <<table, keys, tables>>
  /\ \/ /\ file' = [file EXCEPT ![f] = Flushed(file[f], tree[h][f])]
        /\ UNCHANGED <<rows, fault>>
     \/ UNCHANGED file /\ Fault

LEMMA ShutOne ==
  ASSUME Inv, NEW h \in Handler, NEW f \in File,
         NEW c \in {"closed", "opening", "open", "closing"}, Shuts(h, f, c),
         f \in Held(h), c \in {"opening", "closing"} => keys = 2,
         Held(h)' = Held(h) \ {f}
  PROVE  Inv'
<1>1. table = "exists" /\ tree[h][f] # None /\ f \in Used
  BY Files DEF Inv, Calls, Held, Shape, File
<1>2. SetTree(h, f, None) /\ FileShape' /\ Exclusive' /\ Counted' /\ Kept'
  BY <1>1, ShutTree DEF Shuts
<1>3. Calls' /\ at' \in [Handler -> {"closed", "opening", "open", "closing"}]
  BY <1>1, <1>2, CallGoesOn DEF Shuts
<1>4. rows' \in Nat /\ fault' \in BOOLEAN
  <2>1. rows \in Nat /\ fault \in BOOLEAN
    BY DEF Inv, Shape
  <2>2. CASE UNCHANGED <<rows, fault>>
    BY <2>1, <2>2
  <2>3. CASE Fault
    BY <2>3 DEF Fault
  <2> QED
    BY <2>2, <2>3 DEF Shuts
<1>5. Shape'
  BY <1>2, <1>3, <1>4 DEF Inv, Shape, SetTree, Shuts
<1> QED
  BY <1>2, <1>3, <1>5 DEF Inv

LEMMA FailOne == ASSUME Inv, NEW h \in Handler, OpenFails(h) PROVE Inv'
<1>1. Shuts(h, "db", "closed") /\ at[h] = "opening"
  BY DEF OpenFails, CloseTree, Shuts
<1>2. Held(h) = {"db"} /\ "db" \in File
  BY <1>1 DEF Held, File
<1>3. Held(h)' = {}
  BY <1>1 DEF Held, Shuts, Inv, Shape
<1> QED
  BY <1>1, <1>2, <1>3, ShutOne

LEMMA CloseOne == ASSUME Inv, NEW h \in Handler, CloseRows(h) PROVE Inv'
<1> DEFINE c == IF keys > 1 THEN "closing" ELSE "closed"
<1>1. Shuts(h, "db", c) /\ at[h] = "open"
  BY DEF CloseRows, CloseTree, Shuts
<1>2. /\ Held(h) = Used /\ "db" \in File /\ keys \in 1 .. 2 /\ "db" \in Used
      /\ c \in {"closed", "opening", "open", "closing"} /\ (c = "closing" => keys = 2)
      /\ c # "opening"
  BY <1>1, Files DEF Held, File, Inv, Shape
<1>3. Held(h)' = Held(h) \ {"db"}
  BY <1>1, <1>2 DEF Held, Shuts, Inv, Shape, Used, File
<1> HIDE DEF c
<1> QED
  BY <1>1, <1>2, <1>3, ShutOne

LEMMA CloseOther == ASSUME Inv, NEW h \in Handler, CloseIndexes(h) PROVE Inv'
<1>1. Shuts(h, "sec", "closed") /\ at[h] = "closing"
  BY DEF CloseIndexes, CloseTree, Shuts
<1>2. Held(h) = {"sec"} /\ "sec" \in File
  BY <1>1 DEF Held, File
<1>3. Held(h)' = {}
  BY <1>1 DEF Held, Shuts, Inv, Shape
<1> QED
  BY <1>1, <1>2, <1>3, ShutOne

LEMMA CrashOne == ASSUME Inv, Crash PROVE Inv'
<1>1. \A h \in Handler : at'[h] = "closed" /\ \A f \in File : tree'[h][f] = None
  BY DEF Crash
<1>2. fault' = TRUE /\ rows' = 0 /\ table' = "exists" /\ UNCHANGED <<keys, tables, file>>
  BY DEF Crash, Fault
<1>3. Shape'
  BY <1>1, <1>2 DEF Crash, Inv, Shape, FileShape, TreeShape
<1>4. Calls'
  BY <1>1, <1>2 DEF Calls, Held
<1>5. Exclusive' /\ Counted' /\ Kept'
  BY <1>1, <1>2 DEF Exclusive, Counted, Kept
<1> QED
  BY <1>3, <1>4, <1>5 DEF Inv

LEMMA DropOne == ASSUME Inv, DropTable PROVE Inv'
<1>1. /\ \A h \in Handler : at[h] = "closed"
      /\ table' = "none" /\ UNCHANGED <<keys, tables, file, at, tree, rows, fault>>
  BY DEF DropTable
<1>2. Shape'
  BY <1>1 DEF Inv, Shape, FileShape, TreeShape
<1>3. Calls' /\ Exclusive'
  BY <1>1 DEF Inv, Calls, Held, Exclusive
<1>4. Ready' = {}
  BY <1>1 DEF Ready
<1>5. Counted' /\ Kept'
  BY <1>1, <1>4 DEF Counted, Kept
<1> QED
  BY <1>2, <1>3, <1>5 DEF Inv

LEMMA InitInv == ASSUME Init PROVE Inv
<1>1. \A h \in Handler, f \in File : tree[h][f] = None
  BY DEF Init
<1>2. Shape
  <2>1. GoodFile(NoFile)
    BY DEF GoodFile, FileRec, NoFile, NoMeta, Meta, MetaType
  <2>2. FileShape
    BY <2>1 DEF Init, FileShape, GoodFile
  <2>3. TreeShape
    BY <1>1 DEF Init, TreeShape
  <2>4. /\ table = "none" /\ keys = 1 /\ tables = 0 /\ rows = 0 /\ fault = FALSE
        /\ at = [h \in Handler |-> "closed"]
    BY DEF Init
  <2>5. at \in [Handler -> {"closed", "opening", "open", "closing"}]
    BY <2>4
  <2>6. keys \in 1 .. 2 /\ tables \in 0 .. MaxTables /\ rows \in Nat
    BY <2>4
  <2> QED
    BY <2>2, <2>3, <2>4, <2>5, <2>6 DEF Shape
<1>3. Calls /\ Exclusive /\ Ready = {}
  BY <1>1 DEF Init, Calls, Held, Exclusive, Ready
<1>4. Counted /\ Kept
  BY <1>3 DEF Init, Counted, Kept
<1> QED
  BY <1>2, <1>3, <1>4 DEF Inv

LEMMA NextInv == ASSUME Inv, [Next]_vars PROVE Inv'
<1>1. CASE CreateRows
  BY <1>1, MakeRows
<1>2. CASE CreateIndexes
  BY <1>2, MakeIndexes
<1>3. CASE DropTable
  BY <1>3, DropOne
<1>4. CASE Crash
  BY <1>4, CrashOne
<1>5. ASSUME NEW h \in Handler, OpenRows(h) PROVE Inv'
  BY <1>5, OpenOne
<1>6. ASSUME NEW h \in Handler, OpenIndexes(h) PROVE Inv'
  BY <1>6, OpenOther
<1>7. ASSUME NEW h \in Handler, OpenFails(h) PROVE Inv'
  BY <1>7, FailOne
<1>8. ASSUME NEW h \in Handler, NEW f \in File, NEW b \in 0 .. MaxBlocks - 1, ReadBlock(h, f, b)
      PROVE  Inv'
  BY <1>8, ReadOne
<1>9. ASSUME NEW h \in Handler, WriteRow(h) PROVE Inv'
  BY <1>9, PutRow
<1>10. ASSUME NEW h \in Handler, CloseRows(h) PROVE Inv'
  BY <1>10, CloseOne
<1>11. ASSUME NEW h \in Handler, CloseIndexes(h) PROVE Inv'
  BY <1>11, CloseOther
<1>12. CASE UNCHANGED vars
  <2>1. /\ table' = table /\ keys' = keys /\ tables' = tables /\ rows' = rows /\ fault' = fault
        /\ file' = file /\ tree' = tree /\ at' = at
    BY <1>12 DEF vars
  <2>2. Shape'
    BY <2>1 DEF Inv, Shape, FileShape, TreeShape
  <2>3. Calls' /\ Exclusive'
    BY <2>1 DEF Inv, Calls, Held, Used, Exclusive
  <2>4. Ready' = Ready /\ \A f \in File : Closed(f)' <=> Closed(f)
    BY <2>1 DEF Ready, Used, Closed
  <2>5. Counted'
    BY <2>1, <2>4 DEF Inv, Counted, CountedIn, Ready, Used, Closed
  <2>6. Kept'
    BY <2>1, <2>4 DEF Inv, Kept, KeptIn, Ready, Used, Closed
  <2> QED
    BY <2>2, <2>3, <2>5, <2>6 DEF Inv
<1> QED
  BY <1>1, <1>2, <1>3, <1>4, <1>5, <1>6, <1>7, <1>8, <1>9, <1>10, <1>11, <1>12 DEF Next

LEMMA Invariant == Spec => []Inv
<1> QED
  BY InitInv, NextInv, PTL DEF Spec

-----------------------------------------------------------------------------
(* The theorems                                                            *)

\* A handler that is between calls has all trees of its table or none, and the
\* values of ha_example, BTree and MyFile have their types.
THEOREM TypeCorrect == Spec => []TypeOK
<1>1. ASSUME Inv PROVE TypeOK
  <2>1. \A f \in File : /\ file[f].length \in Nat \cup {-1} /\ file[f].meta \in MetaType
                        /\ \A b \in file[f].stored : b \in Nat /\ b < file[f].length
    BY <1>1 DEF Inv, Shape, FileShape, GoodFile, FileRec
  <2>2. \A h \in Handler, f \in File :
          tree[h][f] = None \/ (tree[h][f] \in Tree /\ tree[h][f].junk \subseteq tree[h][f].pool)
    BY <1>1 DEF Inv, Shape, TreeShape, GoodTree
  <2>3. \A h \in Handler : at[h] = "open" => \A f \in Used : tree[h][f] # None
    BY <1>1, Files DEF Inv, Calls, Held
  <2>4. \A h \in Handler : at[h] = "closed" => \A f \in File : tree[h][f] = None
    BY <1>1 DEF Inv, Calls, Held
  <2> QED
    BY <1>1, <2>1, <2>2, <2>3, <2>4 DEF TypeOK, Inv, Shape
<1> QED
  BY <1>1, Invariant, PTL

\* The handlers of a table, each with a pool of its own, count every row that
\* any of them has put: the share modes of open() keep them from writing over
\* each other's rows.
THEOREM CountedTheorem == Spec => []RowsCounted
<1>1. ASSUME Inv PROVE RowsCounted
  BY <1>1 DEF RowsCounted, Inv, Counted, CountedIn, Ready, Closed
<1> QED
  BY <1>1, Invariant, PTL

\* As long as resize() can seek to twice the blocks of a tree, every block that
\* a closed file counts is in it, whatever room the disk had.
THEOREM StoredTheorem == ASSUME Near PROVE Spec => []CountedBlocksStored
<1>1. ASSUME Inv PROVE CountedBlocksStored
  <2>1. SUFFICES ASSUME table = "exists", ~ fault, NEW f \in Used, Closed(f)
                 PROVE  0 .. file[f].meta.countOfBlock - 1 \subseteq file[f].stored
    BY DEF CountedBlocksStored, Closed
  <2>2. InFile(file[f].stored, file[f].meta.countOfBlock)
    BY <1>1, <2>1 DEF Inv, Kept, KeptIn, Ready
  <2>3. file[f].meta.countOfBlock \in Nat
    BY <1>1, <2>1, Files DEF Inv, Shape, FileShape, GoodFile, FileRec, MetaType
  <2> QED
    BY <2>2, <2>3 DEF InFile
<1> QED
  BY <1>1, Invariant, PTL

\* And then no handler ever reads junk for a block, so the assertion of
\* getBlock() that the block is the one of its index holds.
THEOREM OwnTheorem == ASSUME Near PROVE Spec => []BlocksAreTheirOwn
<1>1. ASSUME Inv PROVE BlocksAreTheirOwn
  <2>1. SUFFICES ASSUME ~ fault, NEW h \in Handler, NEW f \in File, tree[h][f] # None
                 PROVE  tree[h][f].junk = {}
    BY DEF BlocksAreTheirOwn
  <2>2. f \in Held(h) /\ table = "exists"
    BY <1>1, <2>1 DEF Inv, Calls, Held
  <2>3. f \in Ready
    BY <1>1, <2>2, Files DEF Inv, Calls, Held, Ready, Shape, File
  <2> QED
    BY <1>1, <2>1, <2>3 DEF Inv, Kept, KeptIn
<1> QED
  BY <1>1, Invariant, PTL
=============================================================================
