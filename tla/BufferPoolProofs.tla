--------------------------- MODULE BufferPoolProofs ---------------------------
(***************************************************************************)
(* Proofs about BufferPool, for any number of blocks and changes: what is  *)
(* not in the file is marked, save() loses nothing, and the file is whole  *)
(* when every save() came to its end.                                      *)
(***************************************************************************)
EXTENDS BufferPool, FiniteSetTheorems, TLAPS

(***************************************************************************)
(* The inductive invariant.  The blocks that the tree may change without   *)
(* getting them are marked between operations; save() has cleaned the      *)
(* blocks it has come past; and what the tree sees, the pool over the      *)
(* file, is whole, for that is what the file becomes.                      *)
(***************************************************************************)
Marks ==
  /\ phase = "open" => {0, root} \subseteq dirty /\ (cursor # 0 => cursor \in dirty)
  /\ phase \in {"saving", "closing"} => dirty \subseteq todo /\ cut
  /\ phase \in {"open", "closed"} => todo = {}
  /\ phase # "open" => cursor = 0

View == [b \in Block |-> Get(b)]

WholeTree ==
  /\ ~ cut /\ ~ torn => Whole(disk)
  /\ phase # "closed" /\ ~ torn => Whole(View)

\* The root is counted, for the number of blocks and the root are in one block.
RootCounted ==
  /\ disk[0].root \in disk[0].refs
  /\ phase # "closed" => root \in Known /\ pool[0].root = root

Inv == TypeOK /\ Marks /\ RootCounted /\ DirtyCoversChanges /\ WholeTree

USE BlockAssumption, ChangeAssumption

LEMMA NoBlocks == ASSUME NEW S PROVE << >> \in [{} -> S] /\ DOMAIN << >> = {}
OBVIOUS

LEMMA InitInv == Init => Inv
<1> SUFFICES ASSUME Init PROVE Inv
  OBVIOUS
<1>1. 0 \in Block /\ 1 \in Block /\ {0, 1} = 0 .. 1
  BY DEF Block
<1>2. Cached = {}
  BY DEF Init, Cached
<1>3. /\ disk \in [Block -> Content] /\ disk[0].refs = {0, 1} /\ disk[0].root = 1
      /\ \A b \in Block : b # 0 => disk[b].refs = {}
  <2>1. [refs |-> {0, 1}, changes |-> 0, root |-> 1] \in Content
    BY <1>1 DEF Content
  <2>2. Node({}) \in Content /\ Node({}).refs = {}
    BY <1>1 DEF Content, Node
  <2>3. disk = [b \in Block |-> IF b = 0 THEN [refs |-> {0, 1}, changes |-> 0, root |-> 1] ELSE Node({})]
    BY DEF Init
  <2> HIDE DEF Content, Node
  <2> QED
    BY <1>1, <2>1, <2>2, <2>3
<1>4. TypeOK
  <2>1. pool \in [Cached -> Content]
    BY <1>2, NoBlocks DEF Init
  <2> QED
    BY <1>1, <1>2, <1>3, <2>1 DEF Init, TypeOK
<1>5. Whole(disk)
  <2>1. \A b \in {0, 1} : disk[b].refs \subseteq {0, 1}
    BY <1>1, <1>3
  <2> QED
    BY <1>3, <2>1 DEF Whole
<1> QED
  BY <1>1, <1>2, <1>3, <1>4, <1>5 DEF Init, Inv, Marks, RootCounted, DirtyCoversChanges, WholeTree

-----------------------------------------------------------------------------
(* Operations of the tree                                                  *)

\* The next block of the file
LEMMA NewBlock ==
  ASSUME Inv, phase = "open"
  PROVE  \E n \in Block : /\ Known = 0 .. n /\ New(0) = n + 1 /\ New(1) = n + 2
<1>1. PICK n \in Block : Known = 0 .. n
  BY DEF Inv, TypeOK
<1>2. Cardinality(0 .. n) = n + 1
  BY FS_Interval DEF Block
<1> QED
  BY <1>1, <1>2 DEF New, Block

LEMMA GetType == ASSUME Inv, NEW b \in Block PROVE Get(b) \in Content /\ View[b] = Get(b)
BY DEF Inv, TypeOK, Get, View

\* What an operation must see to: it marks what it changes.
LEMMA UseInv ==
  ASSUME Inv, phase = "open", UNCHANGED <<disk, phase, todo, cut, torn>>,
         Cached \subseteq Cached', Cached' \subseteq Block,
         pool' \in [Cached' -> Content],
         \A b \in Cached' : b \notin dirty' => pool'[b] = Get(b),
         dirty \subseteq dirty', dirty' \subseteq Cached', {0, root'} \subseteq dirty',
         cursor' \in Block, cursor' # 0 => cursor' \in dirty',
         \E n \in Block : pool'[0].refs = 0 .. n,
         root' \in pool'[0].refs, pool'[0].root = root',
         Whole(View) => Whole(View')
  PROVE  Inv'
<1>1. TypeOK'
  BY DEF Inv, TypeOK, Known
<1>2. Marks'
  BY DEF Inv, Marks
<1>3. DirtyCoversChanges'
  <2> SUFFICES ASSUME NEW b \in Cached', b \notin dirty' PROVE pool'[b] = disk'[b]
    BY DEF DirtyCoversChanges
  <2>1. pool'[b] = Get(b)
    OBVIOUS
  <2> QED
    BY <2>1 DEF Get, Inv, DirtyCoversChanges
<1>4. WholeTree'
  BY DEF Inv, WholeTree
<1>5. RootCounted'
  BY DEF Inv, RootCounted, Known
<1> QED
  BY <1>1, <1>2, <1>3, <1>4, <1>5 DEF Inv

\* Operations that load the blocks of S and change some of the marked ones, but
\* not what they refer to
LEMMA ChangeInv ==
  ASSUME Inv, phase = "open", UNCHANGED <<disk, phase, todo, root, cut, torn>>,
         NEW S \in SUBSET Block, NEW M \in SUBSET S,
         Cached' = Cached \cup S, dirty' = dirty \cup M,
         pool' \in [Cached' -> Content],
         \A b \in Cached' : pool'[b].refs = Get(b).refs /\ pool'[b].root = Get(b).root,
         \A b \in Cached' : b \notin dirty' => pool'[b] = Get(b),
         cursor' \in Block, cursor' # 0 => cursor' \in dirty'
  PROVE  Inv'
<1>1. /\ Cached \subseteq Cached' /\ Cached' \subseteq Block /\ {0, root'} \subseteq dirty'
      /\ dirty \subseteq dirty' /\ dirty' \subseteq Cached' /\ 0 \in Cached /\ 0 \in Cached'
  BY DEF Inv, TypeOK, Marks
<1>2. pool'[0].refs = Known /\ pool'[0].root = root' /\ root' \in pool'[0].refs
  BY <1>1 DEF Get, Known, Inv, RootCounted
<1>3. \E n \in Block : pool'[0].refs = 0 .. n
  BY <1>2 DEF Inv, TypeOK
<1>4. ASSUME NEW b \in Block PROVE View'[b].refs = View[b].refs /\ View'[b].root = View[b].root
  BY <1>1 DEF View, Get
<1>5. Whole(View) => Whole(View')
  <2> SUFFICES ASSUME Whole(View) PROVE Whole(View')
    OBVIOUS
  <2>1. 0 \in Block
    BY DEF Block
  <2>2. View[0].refs \subseteq Block
    BY <2>1, GetType DEF Content
  <2> HIDE DEF View
  <2> QED
    BY <1>4, <2>1, <2>2 DEF Whole
<1> HIDE DEF View
<1> QED
  BY <1>1, <1>2, <1>3, <1>5, UseInv

LEMMA FetchedBlocks == ASSUME NEW S \in SUBSET Block PROVE Fetched(S) \in SUBSET Block /\ S \subseteq Fetched(S) \cup {0, root}
BY DEF Fetched

LEMMA LoadType ==
  ASSUME Inv, NEW S \in SUBSET Block
  PROVE  /\ DOMAIN Load(S) = Cached \cup S
         /\ \A b \in Cached \cup S : Load(S)[b] = Get(b) /\ Load(S)[b] \in Content
         /\ Load(S) \in [Cached \cup S -> Content]
<1>1. \A b \in Cached \cup S : Get(b) \in Content
  BY GetType DEF Inv, TypeOK
<1> QED
  BY <1>1 DEF Load

\* A change of the counter of a block
LEMMA ChangedType ==
  ASSUME NEW D, NEW p \in [D -> Content], NEW b, b \in D => p[b].changes < MaxChange
  PROVE  /\ Changed(p, b) \in [D -> Content]
         /\ \A x \in D : /\ Changed(p, b)[x].refs = p[x].refs /\ Changed(p, b)[x].root = p[x].root
                         /\ x # b => Changed(p, b)[x] = p[x]
<1>1. CASE b \in D
  <2>1. Changed(p, b) = [p EXCEPT ![b] = [p[b] EXCEPT !.changes = @ + 1]]
    BY DEF Changed
  <2>2. p[b] \in Content /\ p[b].changes + 1 \in 0 .. MaxChange
    BY <1>1 DEF Content
  <2>3. /\ [p[b] EXCEPT !.changes = @ + 1] \in Content
        /\ [p[b] EXCEPT !.changes = @ + 1].refs = p[b].refs
        /\ [p[b] EXCEPT !.changes = @ + 1].root = p[b].root
    BY <2>2 DEF Content
  <2> QED
    BY <2>1, <2>3
<1>2. CASE b \notin D
  BY <1>2 DEF Changed
<1> QED
  BY <1>1, <1>2

LEMMA KnownBlocks == ASSUME Inv, phase = "open" PROVE Known \subseteq Block /\ {0, root} \subseteq Cached \cap dirty
BY DEF Inv, TypeOK, Marks, Block

\* Operations that only load the blocks of S, marked or not
LEMMA LoadInv ==
  ASSUME Inv, phase = "open", UNCHANGED <<disk, phase, todo, root, cut, torn>>,
         NEW S \in SUBSET Block, NEW flag \in {0, 1},
         pool' = Load(S), dirty' = Mark(S, flag),
         cursor' \in Block, cursor' # 0 => cursor' \in dirty'
  PROVE  Inv'
<1>1. DEFINE M == IF flag = 1 THEN S ELSE {}
<1>2. M \in SUBSET S /\ dirty' = dirty \cup M
  BY DEF Mark
<1>3. /\ Cached' = Cached \cup S
      /\ pool' \in [Cached' -> Content]
      /\ \A b \in Cached' : pool'[b] = Get(b)
  BY LoadType DEF Cached
<1> HIDE DEF M
<1> QED
  BY <1>2, <1>3, ChangeInv

LEMMA ReadValueInv == ASSUME Inv, NEW b \in Block, ReadValue(b) PROVE Inv'
<1>1. {b} \in SUBSET Block /\ 0 \in {0, 1} /\ dirty' = Mark({b}, 0)
  BY DEF ReadValue
<1>2. cursor' \in Block /\ (cursor' # 0 => cursor' \in dirty')
  BY DEF ReadValue, Mark, Inv, TypeOK, Marks
<1> QED
  BY <1>1, <1>2, LoadInv DEF ReadValue

LEMMA GoToInv == ASSUME Inv, NEW b \in Block, GoTo(b) PROVE Inv'
<1>1. Fetched({b}) \in SUBSET Block /\ {b} \subseteq Fetched({b}) \cup {0, root}
  BY FetchedBlocks
<1>2. {0, root} \subseteq dirty /\ dirty' = dirty \cup Fetched({b})
  BY KnownBlocks DEF GoTo, Mark
<1>3. cursor' \in Block /\ cursor' \in dirty'
  BY <1>1, <1>2 DEF GoTo
<1> QED
  BY <1>1, <1>3, LoadInv DEF GoTo

LEMMA RemoveAtCursorInv == ASSUME Inv, RemoveAtCursor PROVE Inv'
<1>1. pool \in [Cached -> Content] /\ cursor \in dirty /\ cursor \in Cached
  BY DEF Inv, TypeOK, Marks, RemoveAtCursor, Cached
<1>2. pool[cursor].changes < MaxChange
  BY <1>1 DEF RemoveAtCursor, Fresh, Get
<1>3. /\ pool' \in [Cached -> Content]
      /\ \A x \in Cached : /\ pool'[x].refs = pool[x].refs /\ pool'[x].root = pool[x].root
                           /\ x # cursor => pool'[x] = pool[x]
  BY <1>1, <1>2, ChangedType DEF RemoveAtCursor
<1>4. Cached' = Cached \cup {} /\ dirty' = dirty \cup {} /\ {} \in SUBSET Block
  BY <1>3 DEF Cached, RemoveAtCursor
<1>5. cursor' \in Block /\ (cursor' # 0 => cursor' \in dirty')
  BY <1>1 DEF RemoveAtCursor, Inv, TypeOK
<1>6. /\ pool' \in [Cached' -> Content]
      /\ \A b \in Cached' : /\ pool'[b].refs = Get(b).refs /\ pool'[b].root = Get(b).root
                            /\ b \notin dirty' => pool'[b] = Get(b)
  BY <1>1, <1>3, <1>4 DEF Get
<1> QED
  BY <1>4, <1>5, <1>6, ChangeInv DEF RemoveAtCursor

LEMMA PutIntoInv == ASSUME Inv, NEW b \in Block \ {0}, PutInto(b) PROVE Inv'
<1> DEFINE S == Fetched({b})
           D == Cached \cup S
           p == Changed(Load(S), b)
<1>1. S \in SUBSET Block /\ {b} \subseteq S \cup {0, root}
  BY FetchedBlocks
<1>2. {0, root} \subseteq Cached \cap dirty /\ dirty' = dirty \cup S
  BY KnownBlocks DEF PutInto, Mark
<1>3. Load(S) \in [D -> Content] /\ \A x \in D : Load(S)[x] = Get(x)
  BY <1>1, LoadType
<1>4. b \in D /\ 0 \in D /\ {b, 0} \subseteq dirty'
  BY <1>1, <1>2
<1>5. Get(b).changes < MaxChange /\ Get(0).changes < MaxChange /\ pool' = Changed(p, 0)
  BY DEF PutInto, Fresh
<1>6. /\ p \in [D -> Content]
      /\ \A x \in D : /\ p[x].refs = Get(x).refs /\ p[x].root = Get(x).root
                      /\ x # b => p[x] = Get(x)
  <2>1. Load(S)[b].changes < MaxChange
    BY <1>3, <1>4, <1>5
  <2> HIDE DEF S, D
  <2> QED
    BY <1>3, <2>1, ChangedType
<1>7. p[0].changes < MaxChange
  BY <1>4, <1>5, <1>6
<1> HIDE DEF D, p
<1>8. /\ pool' \in [D -> Content]
      /\ \A x \in D : /\ pool'[x].refs = p[x].refs /\ pool'[x].root = p[x].root
                      /\ x # 0 => pool'[x] = p[x]
  BY <1>5, <1>6, <1>7, ChangedType
<1>9. Cached' = D
  BY <1>8 DEF Cached
<1>10. /\ pool' \in [Cached' -> Content]
       /\ \A x \in Cached' : /\ pool'[x].refs = Get(x).refs /\ pool'[x].root = Get(x).root
                             /\ x \notin dirty' => pool'[x] = Get(x)
  BY <1>4, <1>6, <1>8, <1>9
<1>11. cursor' \in Block /\ (cursor' # 0 => cursor' \in dirty')
  BY <1>2 DEF PutInto, Inv, TypeOK, Marks
<1>12. Cached' = Cached \cup S
  BY <1>9 DEF D
<1> HIDE DEF S
<1> QED
  BY <1>1, <1>2, <1>10, <1>11, <1>12, ChangeInv DEF PutInto

WithRefs(p, x, R) == [p EXCEPT ![x].refs = R]

LEMMA SetRefs ==
  ASSUME NEW D, NEW p \in [D -> Content], NEW x \in D, NEW R \in SUBSET Block
  PROVE  /\ WithRefs(p, x, R) \in [D -> Content]
         /\ \A y \in D : /\ WithRefs(p, x, R)[y].root = p[y].root
                         /\ y # x => WithRefs(p, x, R)[y] = p[y]
                         /\ WithRefs(p, x, R)[y].refs = IF y = x THEN R ELSE p[y].refs
<1>1. /\ [p[x] EXCEPT !.refs = R] \in Content
      /\ [p[x] EXCEPT !.refs = R].refs = R
      /\ [p[x] EXCEPT !.refs = R].root = p[x].root
  BY DEF Content
<1>2. WithRefs(p, x, R) = [p EXCEPT ![x] = [p[x] EXCEPT !.refs = R]]
  BY DEF WithRefs
<1> QED
  BY <1>1, <1>2

\* The tree stays whole when it takes the blocks of `new'.
LEMMA GrowWhole ==
  ASSUME Inv, phase = "open", Whole(View), NEW new,
         View'[0].refs = Known \cup new, View'[0].root \in Known \cup new,
         \A x \in Known : View'[x].refs \subseteq View[x].refs \cup new,
         \A x \in new : View'[x].refs \subseteq Known \cup new
  PROVE  Whole(View')
<1>1. View[0].refs = Known
  BY KnownBlocks, GetType DEF Get, Known, View, Block
<1> HIDE DEF View
<1> QED
  BY <1>1 DEF Whole

LEMMA NodeType == ASSUME NEW R \in SUBSET Block PROVE Node(R) \in Content /\ Node(R).refs = R
BY DEF Node, Content, Block

LEMMA PutNewBlockInv ==
  ASSUME Inv, NEW b \in Known \ {0}, NEW child \in Known \ {0},
         NEW moved \in SUBSET Get(child).refs, PutNewBlock(b, child, moved)
  PROVE  Inv'
<1> DEFINE N == New(0)
           S == Fetched({b, child, N})
           D == Cached \cup S
           P1 == [Load(S) EXCEPT ![N] = Node(moved)]
           R2 == Get(child).refs \ moved
           R3 == Get(b).refs \cup {N}
           R4 == Known \cup {N}
           P2 == WithRefs(P1, child, R2)
           P3 == WithRefs(P2, b, R3)
           P4 == WithRefs(P3, 0, R4)
<1>1. phase = "open" /\ UNCHANGED <<disk, phase, todo, root, cursor, cut, torn>>
  BY DEF PutNewBlock
<1>2. pool' = P4 /\ dirty' = dirty \cup S
  BY DEF PutNewBlock, Mark, WithRefs
<1>3. PICK n \in Block : Known = 0 .. n /\ N = n + 1
  BY <1>1, NewBlock
<1>4. N \in Block /\ N \notin Known /\ Known \cup {N} = 0 .. N /\ 0 \in Known
  BY <1>3 DEF PutNewBlock, Block
<1>5. Known \subseteq Block /\ {0, root} \subseteq Cached \cap dirty /\ root \in Known /\ pool[0].root = root
  BY <1>1, KnownBlocks DEF Inv, RootCounted
<1>6. S \in SUBSET Block /\ {b, child, N} \subseteq S \cup {0, root}
  BY <1>4, <1>5, FetchedBlocks
<1>7. D \subseteq Block /\ {0, b, child, N, root} \subseteq D /\ {0, b, child, N} \subseteq dirty'
  BY <1>2, <1>5, <1>6 DEF Inv, TypeOK
<1>8. /\ Get(b) \in Content /\ Get(child) \in Content
      /\ Get(b).refs \subseteq Block /\ Get(child).refs \subseteq Block /\ moved \in SUBSET Block
  BY <1>5, GetType DEF Content
<1>9. Load(S) \in [D -> Content] /\ \A x \in D : Load(S)[x] = Get(x)
  BY <1>6, LoadType
<1>10. Node(moved) \in Content /\ Node(moved).refs = moved
  BY <1>8, NodeType
<1>11. \A x \in {b, child, 0} : x # N
  BY <1>4
<1> HIDE DEF N, S, D
<1>12. P1 \in [D -> Content] /\ P1[N] = Node(moved) /\ \A x \in D : x # N => P1[x] = Get(x)
  BY <1>7, <1>9, <1>10 DEF P1
<1> HIDE DEF P1
<1>13. child \in D /\ b \in D /\ 0 \in D /\ R2 \in SUBSET Block /\ R3 \in SUBSET Block /\ R4 \in SUBSET Block
  BY <1>4, <1>5, <1>7, <1>8
<1>14. b # N /\ child # N /\ 0 # N
  BY <1>11
<1> HIDE DEF R2, R3, R4
<1>a. /\ P2 \in [D -> Content]
      /\ \A x \in D : /\ P2[x].root = P1[x].root
                      /\ x # child => P2[x] = P1[x]
                      /\ P2[x].refs = IF x = child THEN R2 ELSE P1[x].refs
  BY <1>12, <1>13, SetRefs
<1> HIDE DEF P2
<1>b. /\ P3 \in [D -> Content]
      /\ \A x \in D : /\ P3[x].root = P2[x].root
                      /\ x # b => P3[x] = P2[x]
                      /\ P3[x].refs = IF x = b THEN R3 ELSE P2[x].refs
  BY <1>a, <1>13, SetRefs
<1> HIDE DEF P3
<1>c. /\ P4 \in [D -> Content]
      /\ \A x \in D : /\ P4[x].root = P3[x].root
                      /\ x # 0 => P4[x] = P3[x]
                      /\ P4[x].refs = IF x = 0 THEN R4 ELSE P3[x].refs
  BY <1>b, <1>13, SetRefs
<1> HIDE DEF P4
<1>15. /\ P4 \in [D -> Content]
       /\ \A x \in D \ {0, b, child} : P4[x] = P1[x]
       /\ P4[0].refs = R4 /\ P4[0].root = P1[0].root
       /\ P4[b].refs = R3 /\ (child # b => P4[child].refs = R2)
  <2>1. b # 0 /\ child # 0
    OBVIOUS
  <2> QED
    BY <1>a, <1>b, <1>c, <1>13, <2>1
<1>16. pool' \in [D -> Content] /\ Cached' = D
  BY <1>2, <1>15 DEF Cached
<1>17. ASSUME NEW x \in D, x \notin {0, b, child, N} PROVE pool'[x] = Get(x)
  BY <1>2, <1>12, <1>15, <1>17
<1>18. /\ pool'[0].refs = Known \cup {N} /\ pool'[0].root = root'
       /\ pool'[N].refs = moved
       /\ \A x \in D \ {N, 0} : pool'[x].refs \subseteq Get(x).refs \cup {N}
  <2>1. pool'[0].refs = Known \cup {N}
    BY <1>2, <1>15 DEF R4
  <2>2. pool'[0].root = Get(0).root
    BY <1>2, <1>12, <1>13, <1>14, <1>15
  <2>3. pool'[N].refs = moved
    BY <1>2, <1>7, <1>10, <1>12, <1>14, <1>15
  <2>4. ASSUME NEW x \in D \ {N, 0} PROVE pool'[x].refs \subseteq Get(x).refs \cup {N}
    <3>1. CASE x = b
      BY <1>2, <1>15, <3>1 DEF R3
    <3>2. CASE x = child /\ x # b
      BY <1>2, <1>15, <3>2 DEF R2
    <3>3. CASE x # b /\ x # child
      BY <1>17, <3>3
    <3> QED
      BY <3>1, <3>2, <3>3
  <2> QED
    BY <1>1, <1>5, <2>1, <2>2, <2>3, <2>4 DEF Get
<1>19. Whole(View) => Whole(View')
  <2> SUFFICES ASSUME Whole(View) PROVE Whole(View')
    OBVIOUS
  <2>1. moved \subseteq Known
    <3>1. View[0].refs = Known /\ View[child].refs = Get(child).refs
      BY <1>5, GetType DEF Get, Known, View, Block
    <3> HIDE DEF View
    <3> QED
      BY <3>1 DEF Whole
  <2>2. View'[0].refs = Known \cup {N} /\ View'[0].root \in Known \cup {N}
    BY <1>1, <1>4, <1>5, <1>7, <1>16, <1>18 DEF View, Get
  <2>3. ASSUME NEW x \in Known PROVE View'[x].refs \subseteq View[x].refs \cup {N}
    <3>1. CASE x \in D
      BY <1>4, <1>5, <1>16, <1>18, <2>2, <3>1 DEF View, Get, Known
    <3>2. CASE x \notin D
      BY <1>1, <1>5, <1>16, <3>2 DEF View, Get, D
    <3> QED
      BY <3>1, <3>2
  <2>4. View'[N].refs \subseteq Known \cup {N}
    BY <1>4, <1>7, <1>16, <1>18, <2>1 DEF View, Get
  <2> HIDE DEF View
  <2> QED
    BY <1>1, <2>2, <2>3, <2>4, GrowWhole
<1>20. \E m \in Block : pool'[0].refs = 0 .. m
  BY <1>4, <1>18
<1>21. /\ Cached \subseteq Cached' /\ dirty \subseteq dirty' /\ dirty' \subseteq Cached'
       /\ cursor' \in Block /\ (cursor' # 0 => cursor' \in dirty')
  BY <1>1, <1>2, <1>16 DEF Inv, TypeOK, Marks, D
<1>22. \A x \in Cached' : x \notin dirty' => pool'[x] = Get(x)
  BY <1>7, <1>16, <1>17
<1> HIDE DEF View
<1> QED
  BY <1>1, <1>5, <1>7, <1>16, <1>18, <1>19, <1>20, <1>21, <1>22, UseInv

LEMMA PutNewRootInv ==
  ASSUME Inv, NEW moved \in SUBSET pool[root].refs, phase = "open", PutNewRoot(moved)
  PROVE  Inv'
<1> DEFINE N == New(0)
           M == New(1)
           S == {N, M}
           D == Cached \cup S
           R2 == {root, N}
           R3 == pool[root].refs \ moved
           R4 == Known \cup {N, M}
           P2 == [Load(S) EXCEPT ![N] = Node(moved), ![M] = Node(R2)]
           P3 == WithRefs(P2, root, R3)
           P4 == WithRefs(P3, 0, R4)
           P5 == [P4 EXCEPT ![0].root = M]
<1>1. UNCHANGED <<disk, phase, todo, cursor, cut, torn>> /\ root' = M
  BY DEF PutNewRoot
<1>2. pool' = P5 /\ dirty' = dirty \cup S
  BY DEF PutNewRoot, Mark, WithRefs
<1>3. PICK n \in Block : Known = 0 .. n /\ N = n + 1 /\ M = n + 2
  BY NewBlock
<1>4. /\ N \in Block /\ M \in Block /\ N # M /\ N \notin Known /\ M \notin Known
      /\ Known \cup {N, M} = 0 .. M /\ 0 \in Known /\ M # 0
  BY <1>3 DEF PutNewRoot, Block
<1>5. Known \subseteq Block /\ {0, root} \subseteq Cached \cap dirty /\ root \in Known /\ pool[0].root = root
  BY KnownBlocks DEF Inv, RootCounted
<1>6. S \in SUBSET Block
  BY <1>4
<1>7. D \subseteq Block /\ {0, root} \subseteq D /\ N \in D /\ M \in D /\ {0, root, N, M} \subseteq dirty'
  BY <1>2, <1>5, <1>6 DEF Inv, TypeOK
<1>8. Get(root) = pool[root] /\ pool[root].refs \subseteq Block /\ moved \in SUBSET Block
  <2>1. Get(root) = pool[root] /\ Get(root) \in Content
    BY <1>5, GetType DEF Get
  <2> QED
    BY <2>1 DEF Content
<1>9. Load(S) \in [D -> Content] /\ \A x \in D : Load(S)[x] = Get(x)
  BY <1>6, LoadType
<1>10. /\ Node(moved) \in Content /\ Node(moved).refs = moved
       /\ Node(R2) \in Content /\ Node(R2).refs = R2
  <2>1. R2 \in SUBSET Block
    BY <1>4, <1>5
  <2> HIDE DEF R2
  <2> QED
    BY <1>8, <2>1, NodeType
<1>11. 0 # N /\ 0 # M /\ root # N /\ root # M
  BY <1>4, <1>5
<1>12. 0 \in D /\ root \in D /\ R3 \in SUBSET Block /\ R4 \in SUBSET Block
  BY <1>4, <1>5, <1>7, <1>8
<1> HIDE DEF N, M, S, D, R2, R3, R4
<1>13. /\ P2 \in [D -> Content] /\ P2[N] = Node(moved) /\ P2[M] = Node(R2)
       /\ \A x \in D \ {N, M} : P2[x] = Get(x)
  BY <1>4, <1>7, <1>9, <1>10
<1> HIDE DEF P2
<1>a. /\ P3 \in [D -> Content]
      /\ \A x \in D : /\ P3[x].root = P2[x].root
                      /\ x # root => P3[x] = P2[x]
                      /\ P3[x].refs = IF x = root THEN R3 ELSE P2[x].refs
  BY <1>12, <1>13, SetRefs
<1> HIDE DEF P3
<1>b. /\ P4 \in [D -> Content]
      /\ \A x \in D : /\ P4[x].root = P3[x].root
                      /\ x # 0 => P4[x] = P3[x]
                      /\ P4[x].refs = IF x = 0 THEN R4 ELSE P3[x].refs
  BY <1>a, <1>12, SetRefs
<1> HIDE DEF P4
<1>c. /\ P5 \in [D -> Content] /\ P5[0].root = M /\ P5[0].refs = P4[0].refs
      /\ \A x \in D \ {0} : P5[x] = P4[x]
  <2>1. P5 = [P4 EXCEPT ![0] = [P4[0] EXCEPT !.root = M]]
    OBVIOUS
  <2>2. P4[0] \in Content
    BY <1>b, <1>12
  <2>3. /\ [P4[0] EXCEPT !.root = M] \in Content
        /\ [P4[0] EXCEPT !.root = M].root = M
        /\ [P4[0] EXCEPT !.root = M].refs = P4[0].refs
    BY <1>4, <2>2 DEF Content
  <2> HIDE DEF P5
  <2> QED
    BY <1>b, <1>12, <2>1, <2>3
<1> HIDE DEF P5
<1>16. pool' \in [D -> Content] /\ Cached' = D
  BY <1>2, <1>c DEF Cached
<1>17. ASSUME NEW x \in D, x \notin {0, root, N, M} PROVE pool'[x] = Get(x)
  BY <1>2, <1>13, <1>a, <1>b, <1>c, <1>17
<1>18. /\ pool'[0].refs = Known \cup {N, M} /\ pool'[0].root = root'
       /\ pool'[N].refs = moved /\ pool'[M].refs = {root, N}
       /\ \A x \in D \ {N, M, 0} : pool'[x].refs \subseteq Get(x).refs
  <2>1. pool'[0].refs = Known \cup {N, M} /\ pool'[0].root = root'
    BY <1>1, <1>2, <1>12, <1>b, <1>c DEF R4
  <2>2. pool'[N].refs = moved /\ pool'[M].refs = {root, N}
    <3>1. pool'[N] = P2[N] /\ pool'[M] = P2[M]
      BY <1>2, <1>7, <1>11, <1>a, <1>b, <1>c
    <3>2. P2[N].refs = moved /\ P2[M].refs = R2
      BY <1>10, <1>13
    <3> QED
      BY <3>1, <3>2 DEF R2
  <2>3. ASSUME NEW x \in D \ {N, M, 0} PROVE pool'[x].refs \subseteq Get(x).refs
    <3>1. CASE x = root
      BY <1>2, <1>8, <1>a, <1>b, <1>c, <3>1 DEF R3
    <3>2. CASE x # root
      BY <1>17, <3>2
    <3> QED
      BY <3>1, <3>2
  <2> QED
    BY <2>1, <2>2, <2>3
<1>19. Whole(View) => Whole(View')
  <2> SUFFICES ASSUME Whole(View) PROVE Whole(View')
    OBVIOUS
  <2>1. moved \subseteq Known
    <3>1. View[0].refs = Known /\ View[root].refs = pool[root].refs
      BY <1>5, GetType DEF Get, Known, View, Block
    <3> HIDE DEF View
    <3> QED
      BY <1>5, <3>1 DEF Whole
  <2>2. View'[0].refs = Known \cup S /\ View'[0].root \in Known \cup S
    BY <1>1, <1>4, <1>5, <1>7, <1>16, <1>18 DEF View, Get, S
  <2>3. ASSUME NEW x \in Known PROVE View'[x].refs \subseteq View[x].refs \cup S
    <3>1. CASE x \in D
      <4>1. x \in Block /\ View'[x] = pool'[x] /\ View[x] = Get(x)
        BY <1>5, <1>16, <3>1 DEF View, Get
      <4>2. x \notin {N, M}
        BY <1>4
      <4>3. Get(0).refs = Known /\ 0 \in Block
        BY <1>4, <1>5 DEF Get, Known
      <4> QED
        BY <1>18, <3>1, <4>1, <4>2, <4>3 DEF S
    <3>2. CASE x \notin D
      BY <1>1, <1>5, <1>16, <3>2 DEF View, Get, D
    <3> QED
      BY <3>1, <3>2
  <2>4. ASSUME NEW x \in S PROVE View'[x].refs \subseteq Known \cup S
    <3>1. x \in {N, M} /\ x \in Block /\ x \in D
      BY <1>6, <1>7 DEF S
    <3>2. View'[x] = pool'[x]
      BY <1>16, <3>1 DEF View, Get
    <3> QED
      BY <1>5, <1>18, <2>1, <3>1, <3>2 DEF S
  <2> HIDE DEF View
  <2> QED
    BY <1>1, <2>2, <2>3, <2>4, GrowWhole
<1>20. \E m \in Block : pool'[0].refs = 0 .. m
  BY <1>4, <1>18
<1>21. /\ Cached \subseteq Cached' /\ dirty \subseteq dirty' /\ dirty' \subseteq Cached'
       /\ cursor' \in Block /\ (cursor' # 0 => cursor' \in dirty')
  BY <1>1, <1>2, <1>16 DEF Inv, TypeOK, Marks, D
<1>22. \A x \in Cached' : x \notin dirty' => pool'[x] = Get(x)
  BY <1>7, <1>16, <1>17
<1>23. root' \in pool'[0].refs /\ {0, root'} \subseteq dirty'
  BY <1>1, <1>4, <1>7, <1>18
<1> HIDE DEF View
<1> QED
  BY <1>1, <1>16, <1>18, <1>19, <1>20, <1>21, <1>22, <1>23, <1>7, UseInv

-----------------------------------------------------------------------------
(* open(), save(), a failure, a crash                                      *)

LEMMA OpenInv == ASSUME Inv, Open PROVE Inv'
<1> DEFINE r == disk[0].root
<1>1. /\ phase = "closed" /\ phase' = "open" /\ root' = r /\ dirty' = {0, r}
      /\ torn' = (torn \/ cut) /\ UNCHANGED <<disk, todo, cursor, cut>>
      /\ pool' = [b \in {0, r} |-> disk[b]]
  BY DEF Open, Restrict
<1>2. 0 \in Block /\ disk \in [Block -> Content] /\ r \in Block
  BY DEF Inv, TypeOK, Block, Content
<1>3. Cached' = {0, r} /\ pool'[0] = disk[0] /\ pool'[r] = disk[r] /\ todo = {} /\ cursor = 0
  BY <1>1 DEF Cached, Inv, Marks
<1> HIDE DEF r
<1>4. pool' \in [Cached' -> Content] /\ Cached' \subseteq Block
  BY <1>1, <1>2, <1>3
<1>5. TypeOK'
  BY <1>1, <1>2, <1>3, <1>4 DEF Inv, TypeOK, Known
<1>6. Marks' /\ RootCounted' /\ DirtyCoversChanges'
  BY <1>1, <1>3 DEF Inv, Marks, RootCounted, DirtyCoversChanges, Known, r
<1>7. View' = disk
  <2>1. View' = [b \in Block |-> disk[b]]
    BY <1>1, <1>3 DEF View, Get
  <2> QED
    BY <1>2, <2>1
<1>8. WholeTree'
  BY <1>1, <1>7 DEF Inv, WholeTree
<1> QED
  BY <1>5, <1>6, <1>8 DEF Inv

LEMMA BeginSaveInv == ASSUME Inv, NEW p \in {"saving", "closing"}, BeginSave(p) PROVE Inv'
<1>1. /\ phase = "open" /\ phase' = p /\ todo' = Cached /\ cut' = TRUE /\ cursor' = 0
      /\ UNCHANGED <<disk, pool, dirty, root, torn>>
  BY DEF BeginSave
<1>2. View' = View /\ Cached' = Cached /\ Known' = Known
  BY <1>1 DEF View, Get, Cached, Known
<1>3. TypeOK'
  BY <1>1, <1>2 DEF Inv, TypeOK, Block
<1>4. Marks' /\ RootCounted' /\ DirtyCoversChanges'
  BY <1>1, <1>2 DEF Inv, TypeOK, Marks, RootCounted, DirtyCoversChanges
<1>5. WholeTree'
  BY <1>1, <1>2 DEF Inv, WholeTree
<1> QED
  BY <1>3, <1>4, <1>5 DEF Inv

LEMMA WriteBlockInv == ASSUME Inv, NEW b, WriteBlock(b) PROVE Inv'
<1>1. /\ phase \in {"saving", "closing"} /\ b \in todo /\ todo' = todo \ {b} /\ dirty' = dirty \ {b}
      /\ disk' = IF b \in dirty THEN [disk EXCEPT ![b] = pool[b]] ELSE disk
      /\ UNCHANGED <<pool, phase, root, cursor, cut, torn>>
  BY DEF WriteBlock
<1>2. b \in Block /\ b \in Cached /\ Cached' = Cached /\ Known' = Known /\ cut
  BY <1>1 DEF Inv, TypeOK, Marks, Cached, Known
<1>3. /\ disk' \in [Block -> Content] /\ disk'[b] = pool[b]
      /\ \A x \in Block : x # b => disk'[x] = disk[x]
  BY <1>1, <1>2 DEF Inv, TypeOK, DirtyCoversChanges
<1>4. disk'[0] \in {disk[0], pool[0]}
  BY <1>3 DEF Block
<1>5. TypeOK'
  <2>1. \E n \in Block : disk'[0].refs = 0 .. n
    BY <1>1, <1>4 DEF Inv, TypeOK, Known
  <2> QED
    BY <1>1, <1>2, <1>3, <2>1 DEF Inv, TypeOK
<1>6. Marks'
  BY <1>1 DEF Inv, Marks
<1>7. RootCounted'
  BY <1>1, <1>2, <1>4 DEF Inv, RootCounted, Known
<1>8. DirtyCoversChanges'
  BY <1>1, <1>2, <1>3 DEF Inv, TypeOK, DirtyCoversChanges
<1>9. View' = View
  BY <1>1, <1>2, <1>3 DEF View, Get
<1>10. WholeTree'
  BY <1>1, <1>2, <1>9 DEF Inv, WholeTree
<1> QED
  BY <1>5, <1>6, <1>7, <1>8, <1>10 DEF Inv

LEMMA EndSaveInv ==
  ASSUME Inv, EndSave, phase \in {"saving", "closing"}, todo' = {}, UNCHANGED <<disk, cursor, torn>>,
         cut' \in BOOLEAN, ~ cut' => dirty = {}
  PROVE  Inv'
<1>1. cursor = 0 /\ {0, root} \subseteq Cached /\ cut
  BY DEF Inv, TypeOK, Marks
<1>2. ASSUME ~ cut', ~ torn PROVE Whole(disk')
  <2>1. disk = [b \in Block |-> disk[b]] /\ Cached \subseteq Block
    BY DEF Inv, TypeOK
  <2>2. View = [b \in Block |-> disk[b]]
    BY <1>2 DEF View, Get, Inv, DirtyCoversChanges
  <2>3. View = disk
    BY <2>1, <2>2
  <2> QED
    BY <1>2, <2>3 DEF Inv, WholeTree
<1>3. CASE phase = "saving"
  <2>1. phase' = "open" /\ dirty' = dirty \cup {0, root} /\ UNCHANGED <<pool, root>>
    BY <1>3 DEF EndSave, KeepMarked
  <2>2. Cached' = Cached /\ Known' = Known /\ View' = View
    BY <2>1 DEF Cached, Known, View, Get
  <2>3. TypeOK'
    BY <1>1, <2>1, <2>2 DEF Inv, TypeOK
  <2>4. Marks' /\ RootCounted' /\ DirtyCoversChanges'
    BY <1>1, <1>3, <2>1, <2>2 DEF Inv, Marks, RootCounted, DirtyCoversChanges
  <2>5. WholeTree'
    BY <1>2, <1>3, <2>1, <2>2 DEF Inv, WholeTree
  <2> QED
    BY <2>3, <2>4, <2>5 DEF Inv
<1>4. CASE phase = "closing"
  <2>1. phase' = "closed" /\ dirty' = {} /\ pool' = << >> /\ root' = 0
    BY <1>4 DEF EndSave
  <2>2. Cached' = {} /\ pool' \in [Cached' -> Content] /\ 0 \in Block
    BY <2>1, NoBlocks DEF Cached, Block
  <2>3. TypeOK'
    BY <1>1, <2>1, <2>2 DEF Inv, TypeOK
  <2>4. Marks' /\ RootCounted' /\ DirtyCoversChanges'
    BY <1>1, <2>1, <2>2 DEF Inv, Marks, RootCounted, DirtyCoversChanges
  <2>5. WholeTree'
    BY <1>2, <2>1 DEF WholeTree
  <2> QED
    BY <2>3, <2>4, <2>5 DEF Inv
<1> QED
  BY <1>3, <1>4

LEMMA SavedInv == ASSUME Inv, Saved PROVE Inv' /\ dirty = {}
<1>1. phase \in {"saving", "closing"} /\ todo = {}
  BY DEF Saved, EndSave
<1>2. dirty = {}
  BY <1>1 DEF Inv, Marks
<1> QED
  BY <1>1, <1>2, EndSaveInv DEF Saved

LEMMA WriteFailsInv == ASSUME Inv, WriteFails PROVE Inv'
<1>1. phase \in {"saving", "closing"}
  BY DEF WriteFails, EndSave
<1>2. cut /\ cut' = cut
  BY <1>1 DEF Inv, Marks, WriteFails
<1> QED
  BY <1>1, <1>2, EndSaveInv DEF WriteFails

LEMMA CrashInv == ASSUME Inv, Crash PROVE Inv'
<1>1. /\ phase' = "closed" /\ pool' = << >> /\ dirty' = {} /\ todo' = {} /\ root' = 0 /\ cursor' = 0
      /\ UNCHANGED <<disk, cut, torn>>
  BY DEF Crash
<1>2. Cached' = {} /\ pool' \in [Cached' -> Content] /\ 0 \in Block
  BY <1>1, NoBlocks DEF Cached, Block
<1>3. TypeOK'
  BY <1>1, <1>2 DEF Inv, TypeOK
<1>4. Marks' /\ RootCounted' /\ DirtyCoversChanges' /\ WholeTree'
  BY <1>1, <1>2 DEF Inv, Marks, RootCounted, DirtyCoversChanges, WholeTree
<1> QED
  BY <1>3, <1>4 DEF Inv

LEMMA StutterInv == ASSUME Inv, UNCHANGED vars PROVE Inv'
<1>1. UNCHANGED <<disk, pool, dirty, phase, todo, root, cursor, cut, torn>>
  BY DEF vars
<1>2. Cached' = Cached /\ Known' = Known /\ View' = View
  BY <1>1 DEF Cached, Known, View, Get
<1>3. TypeOK'
  BY <1>1, <1>2 DEF Inv, TypeOK
<1>4. Marks' /\ RootCounted' /\ DirtyCoversChanges' /\ WholeTree'
  BY <1>1, <1>2 DEF Inv, Marks, RootCounted, DirtyCoversChanges, WholeTree
<1> QED
  BY <1>3, <1>4 DEF Inv

LEMMA UseTreeInv == ASSUME Inv, phase = "open", UseTree PROVE Inv' /\ cut' = cut
<1>1. Known \subseteq Block
  BY KnownBlocks
<1>2. ASSUME NEW b \in Known \ {0}, ReadValue(b) PROVE Inv' /\ cut' = cut
  BY <1>1, <1>2, ReadValueInv DEF ReadValue
<1>3. ASSUME NEW b \in Known \ {0}, GoTo(b) PROVE Inv' /\ cut' = cut
  BY <1>1, <1>3, GoToInv DEF GoTo
<1>4. ASSUME NEW b \in Known \ {0}, PutInto(b) PROVE Inv' /\ cut' = cut
  BY <1>1, <1>4, PutIntoInv DEF PutInto
<1>5. ASSUME NEW b \in Known \ {0}, NEW child \in Known \ {0}, NEW moved \in SUBSET Get(child).refs,
             PutNewBlock(b, child, moved)
      PROVE  Inv' /\ cut' = cut
  BY <1>5, PutNewBlockInv DEF PutNewBlock
<1>6. ASSUME NEW moved \in SUBSET pool[root].refs, PutNewRoot(moved) PROVE Inv' /\ cut' = cut
  BY <1>6, PutNewRootInv DEF PutNewRoot
<1>7. RemoveAtCursor => Inv' /\ cut' = cut
  BY RemoveAtCursorInv DEF RemoveAtCursor
<1> QED
  BY <1>2, <1>3, <1>4, <1>5, <1>6, <1>7 DEF UseTree

\* A step keeps the invariant.
LEMMA NextInv == Inv /\ [Next]_vars => Inv'
<1> SUFFICES ASSUME Inv, [Next]_vars PROVE Inv'
  OBVIOUS
<1>1. CASE Open
  BY <1>1, OpenInv
<1>2. CASE phase = "open" /\ UseTree
  BY <1>2, UseTreeInv
<1>3. CASE BeginSave("saving") \/ BeginSave("closing")
  BY <1>3, BeginSaveInv
<1>4. CASE \E b \in todo : WriteBlock(b)
  BY <1>4, WriteBlockInv
<1>5. CASE Saved \/ WriteFails \/ Crash
  BY <1>5, SavedInv, WriteFailsInv, CrashInv
<1>6. CASE UNCHANGED vars
  BY <1>6, StutterInv
<1> QED
  BY <1>1, <1>2, <1>3, <1>4, <1>5, <1>6 DEF Next

LEMMA InvHolds == Spec => []Inv
BY InitInv, NextInv, PTL DEF Spec

-----------------------------------------------------------------------------
(* Theorems                                                                *)

\* The blocks in memory are blocks of the file, the marks and the work of
\* save() are about blocks in memory, the two kept pointers have their blocks,
\* and countOfBlock always counts an unbroken row.
THEOREM TypeCorrect == Spec => []TypeOK
<1>1. Inv => TypeOK
  BY DEF Inv
<1> QED
  BY <1>1, InvHolds, PTL

\* Whatever the tree does through the blocks it gets and the pointers it
\* keeps, between, during and after any saves, failed ones too, a block that
\* differs from the file is marked, so that save() will write it.
THEOREM DirtyTheorem == Spec => []DirtyCoversChanges
<1>1. Inv => DirtyCoversChanges
  BY DEF Inv
<1> QED
  BY <1>1, InvHolds, PTL

\* As long as every save() came to its end the file can be opened again, and
\* refers to no block that it does not count.
THEOREM FileTheorem == Spec => []FileIsWhole
<1>1. Inv => FileIsWhole
  BY DEF Inv, WholeTree, FileIsWhole
<1> QED
  BY <1>1, InvHolds, PTL

\* A save() that reports success has written all that was in memory.
THEOREM SaveTheorem == Spec => SaveLosesNothing
<1>1. ASSUME Inv, Next, cut, ~ cut' PROVE \A b \in Cached : disk'[b] = pool[b]
  <2>1. Saved
    <3>1. phase = "open" /\ UseTree => cut' = cut
      BY <1>1, UseTreeInv
    <3> QED
      BY <1>1, <3>1 DEF Next, Open, BeginSave, WriteBlock, WriteFails, Crash
  <2>2. dirty = {} /\ disk' = disk
    BY <1>1, <2>1, SavedInv DEF Saved
  <2> QED
    BY <1>1, <2>2 DEF Inv, DirtyCoversChanges
<1>2. Inv /\ [Next]_vars => [cut /\ ~ cut' => (\A b \in Cached : disk'[b] = pool[b])]_vars
  BY <1>1
<1> QED
  BY <1>2, InvHolds, PTL DEF Spec, SaveLosesNothing
=============================================================================
