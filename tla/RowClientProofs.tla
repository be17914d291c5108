--------------------------- MODULE RowClientProofs ----------------------------
(***************************************************************************)
(* Proofs about RowClient and the conditions of its statements:            *)
(* conditionParse() is right for all numbers and ids, but for one of its   *)
(* branches; the client uses the tree as ValueStore says, so what is       *)
(* proved of ValueStore holds below it; its loops keep their iterator on   *)
(* an item; and a statement does to the rows that its condition selects,   *)
(* and to no others, what it is there for.                                 *)
(***************************************************************************)
EXTENDS RowClient, ValueStoreProofs, FiniteSetTheorems

-----------------------------------------------------------------------------
(* The range of a condition                                                *)

(***************************************************************************)
(* The comparison that OpOf makes of c, and what it says of an id.  The    *)
(* proof replaces both comparisons by these, and then goes through the     *)
(* nine pairs of kinds.                                                    *)
(***************************************************************************)
Operation == [op : {"GE", "EQ", "LE"}, num : Int]

Meets(k, c) ==
  CASE c.op = "GE" -> k >= c.num
    [] c.op = "EQ" -> k = c.num
    [] c.op = "LE" -> k <= c.num

USE NumberAssumption

\* A strict comparison with a number is one that is not strict with the next.
LEMMA OpMeans ==
  ASSUME NEW c \in Comparison, NEW k \in Int
  PROVE  OpOf(c) \in Operation /\ (Meets(k, OpOf(c)) <=> Satisfies(k, c))
<1>1. c.number \in Int /\ c.sign \in {">", ">=", "=", "<", "<="}
  BY DEF Comparison
<1>2. CASE c.sign = ">"
  <2>1. OpOf(c) = [op |-> "GE", num |-> c.number + 1]
    BY <1>2 DEF OpOf
  <2> QED
    BY <1>1, <1>2, <2>1 DEF Operation, Meets, Satisfies
<1>3. CASE c.sign = ">="
  <2>1. OpOf(c) = [op |-> "GE", num |-> c.number]
    BY <1>1, <1>3 DEF OpOf
  <2> QED
    BY <1>1, <1>3, <2>1 DEF Operation, Meets, Satisfies
<1>4. CASE c.sign = "="
  <2>1. OpOf(c) = [op |-> "EQ", num |-> c.number]
    BY <1>1, <1>4 DEF OpOf
  <2> QED
    BY <1>1, <1>4, <2>1 DEF Operation, Meets, Satisfies
<1>5. CASE c.sign = "<"
  <2>1. OpOf(c) = [op |-> "LE", num |-> c.number + -1]
    BY <1>5 DEF OpOf
  <2> QED
    BY <1>1, <1>5, <2>1 DEF Operation, Meets, Satisfies
<1>6. CASE c.sign = "<="
  <2>1. OpOf(c) = [op |-> "LE", num |-> c.number]
    BY <1>1, <1>6 DEF OpOf
  <2> QED
    BY <1>1, <1>6, <2>1 DEF Operation, Meets, Satisfies
<1> QED
  BY <1>1, <1>2, <1>3, <1>4, <1>5, <1>6

LEMMA OneMeans ==
  ASSUME NEW c \in Operation, NEW k \in Int
  PROVE  InRange(k, One(c)) <=> Meets(k, c)
BY DEF Operation, One, Range1, Range2, InRange, Meets

\* The ids of each kind of range
LEMMA Ranges ==
  ASSUME NEW k \in Int, NEW a \in Int, NEW b \in Int
  PROVE  /\ ~ InRange(k, Bad)
         /\ InRange(k, All)
         /\ InRange(k, Range1("EQ_FIRST", a)) <=> k = a
         /\ InRange(k, Range1("HI", a)) <=> k <= a
         /\ InRange(k, Range1("LO", a)) <=> k >= a
         /\ InRange(k, Range2("EQ_BOTH", a, b)) <=> k = a \/ k = b
         /\ InRange(k, Range2("AND", a, b)) <=> a <= k /\ k <= b
         /\ InRange(k, Range2("OR", a, b)) <=> k <= a \/ k >= b
         /\ InRange(k, Range2("EQ_LO", a, b)) <=> k = a \/ k >= b
         /\ InRange(k, Range2("EQ_HI", a, b)) <=> k = a \/ k <= b
BY DEF InRange, Range1, Range2, Bad, All

\* c AND d, but for a bound and an id below it
LEMMA BothMeans ==
  ASSUME NEW c \in Operation, NEW d \in Operation, NEW k \in Int,
         c.op = "LE" /\ d.op = "EQ" => d.num >= c.num
  PROVE  InRange(k, Both(c, d)) <=> Meets(k, c) /\ Meets(k, d)
<1>1. c.num \in Int /\ d.num \in Int /\ c.op \in {"GE", "EQ", "LE"} /\ d.op \in {"GE", "EQ", "LE"}
  BY DEF Operation
<1>2. CASE c.op = "EQ" /\ d.op = "EQ"
  <2>1. Both(c, d) = IF d.num = c.num THEN Range1("EQ_FIRST", d.num) ELSE Bad
    BY <1>2 DEF Both
  <2> QED
    BY <1>1, <1>2, <2>1, Ranges DEF Meets
<1>3. CASE c.op = "EQ" /\ d.op = "GE"
  <2>1. Both(c, d) = IF c.num < d.num THEN Bad ELSE Range1("EQ_FIRST", c.num)
    BY <1>3 DEF Both
  <2> QED
    BY <1>1, <1>3, <2>1, Ranges DEF Meets
<1>4. CASE c.op = "EQ" /\ d.op = "LE"
  <2>1. Both(c, d) = IF c.num > d.num THEN Bad ELSE Range1("EQ_FIRST", c.num)
    BY <1>4 DEF Both
  <2> QED
    BY <1>1, <1>4, <2>1, Ranges DEF Meets
<1>5. CASE c.op = "GE" /\ d.op = "EQ"
  <2>1. Both(c, d) = IF c.num > d.num THEN Bad ELSE Range1("EQ_FIRST", d.num)
    BY <1>5 DEF Both
  <2> QED
    BY <1>1, <1>5, <2>1, Ranges DEF Meets
<1>6. CASE c.op = "GE" /\ d.op = "GE"
  <2>1. Both(c, d) = Range1("LO", Greater(c.num, d.num))
    BY <1>6 DEF Both
  <2> QED
    BY <1>1, <1>6, <2>1, Ranges DEF Meets, Smaller, Greater
<1>7. CASE c.op = "GE" /\ d.op = "LE"
  <2>1. Both(c, d) = IF d.num < c.num THEN Bad
              ELSE IF d.num = c.num THEN Range1("EQ_FIRST", c.num) ELSE Range2("AND", c.num, d.num)
    BY <1>7 DEF Both
  <2> QED
    BY <1>1, <1>7, <2>1, Ranges DEF Meets
<1>8. CASE c.op = "LE" /\ d.op = "EQ"
  <2>1. Both(c, d) = IF d.num > c.num THEN Bad ELSE Range1("EQ_FIRST", c.num)
    BY <1>8 DEF Both
  <2> QED
    BY <1>1, <1>8, <2>1, Ranges DEF Meets
<1>9. CASE c.op = "LE" /\ d.op = "GE"
  <2>1. Both(c, d) = IF c.num < d.num THEN Bad
              ELSE IF c.num = d.num THEN Range1("EQ_FIRST", d.num) ELSE Range2("AND", d.num, c.num)
    BY <1>9 DEF Both
  <2> QED
    BY <1>1, <1>9, <2>1, Ranges DEF Meets
<1>10. CASE c.op = "LE" /\ d.op = "LE"
  <2>1. Both(c, d) = Range1("HI", Smaller(c.num, d.num))
    BY <1>10 DEF Both
  <2> QED
    BY <1>1, <1>10, <2>1, Ranges DEF Meets, Smaller, Greater
<1> QED
  BY <1>1, <1>2, <1>3, <1>4, <1>5, <1>6, <1>7, <1>8, <1>9, <1>10

\* c OR d
LEMMA EitherMeans ==
  ASSUME NEW c \in Operation, NEW d \in Operation, NEW k \in Int
  PROVE  InRange(k, Either(c, d)) <=> Meets(k, c) \/ Meets(k, d)
<1>1. c.num \in Int /\ d.num \in Int /\ c.op \in {"GE", "EQ", "LE"} /\ d.op \in {"GE", "EQ", "LE"}
  BY DEF Operation
<1>2. CASE c.op = "EQ" /\ d.op = "EQ"
  <2>1. Either(c, d) = IF d.num = c.num THEN Range1("EQ_FIRST", d.num) ELSE Range2("EQ_BOTH", d.num, c.num)
    BY <1>2 DEF Either
  <2> QED
    BY <1>1, <1>2, <2>1, Ranges DEF Meets
<1>3. CASE c.op = "EQ" /\ d.op = "GE"
  <2>1. Either(c, d) = IF c.num >= d.num THEN Range1("LO", d.num) ELSE Range2("EQ_LO", c.num, d.num)
    BY <1>3 DEF Either
  <2> QED
    BY <1>1, <1>3, <2>1, Ranges DEF Meets
<1>4. CASE c.op = "EQ" /\ d.op = "LE"
  <2>1. Either(c, d) = IF c.num > d.num THEN Range2("EQ_HI", c.num, d.num) ELSE Range1("HI", d.num)
    BY <1>4 DEF Either
  <2> QED
    BY <1>1, <1>4, <2>1, Ranges DEF Meets
<1>5. CASE c.op = "GE" /\ d.op = "EQ"
  <2>1. Either(c, d) = IF d.num >= c.num THEN Range1("LO", c.num) ELSE Range2("EQ_LO", d.num, c.num)
    BY <1>5 DEF Either
  <2> QED
    BY <1>1, <1>5, <2>1, Ranges DEF Meets
<1>6. CASE c.op = "GE" /\ d.op = "GE"
  <2>1. Either(c, d) = Range1("LO", Smaller(c.num, d.num))
    BY <1>6 DEF Either
  <2> QED
    BY <1>1, <1>6, <2>1, Ranges DEF Meets, Smaller, Greater
<1>7. CASE c.op = "GE" /\ d.op = "LE"
  <2>1. Either(c, d) = IF c.num <= d.num + 1 THEN All ELSE Range2("OR", d.num, c.num)
    BY <1>7 DEF Either
  <2> QED
    BY <1>1, <1>7, <2>1, Ranges DEF Meets
<1>8. CASE c.op = "LE" /\ d.op = "EQ"
  <2>1. Either(c, d) = IF d.num > c.num THEN Range2("EQ_HI", d.num, c.num) ELSE Range1("HI", c.num)
    BY <1>8 DEF Either
  <2> QED
    BY <1>1, <1>8, <2>1, Ranges DEF Meets
<1>9. CASE c.op = "LE" /\ d.op = "GE"
  <2>1. Either(c, d) = IF d.num <= c.num + 1 THEN All ELSE Range2("OR", c.num, d.num)
    BY <1>9 DEF Either
  <2> QED
    BY <1>1, <1>9, <2>1, Ranges DEF Meets
<1>10. CASE c.op = "LE" /\ d.op = "LE"
  <2>1. Either(c, d) = Range1("HI", Greater(c.num, d.num))
    BY <1>10 DEF Either
  <2> QED
    BY <1>1, <1>10, <2>1, Ranges DEF Meets, Smaller, Greater
<1> QED
  BY <1>1, <1>2, <1>3, <1>4, <1>5, <1>6, <1>7, <1>8, <1>9, <1>10

\* The branch that the lemma on AND leaves out is the one that is wrong.
LEMMA OutsideOfSlip ==
  ASSUME NEW x \in Condition, x.conn = "and", ~ BoundForId(x, conditionParse(x))
  PROVE  OpOf(x.first).op = "LE" /\ OpOf(x.second).op = "EQ"
           => OpOf(x.second).num >= OpOf(x.first).num
<1> DEFINE c == OpOf(x.first)
           d == OpOf(x.second)
<1> SUFFICES ASSUME c.op = "LE", d.op = "EQ", ~ (d.num >= c.num) PROVE FALSE
  OBVIOUS
<1>1. x.first \in Comparison /\ x.second \in Comparison
  BY DEF Condition
<1>2. c \in Operation /\ d \in Operation
  BY <1>1, OpMeans
<1>3. x.first.sign \in {"<", "<="} /\ x.second.sign = "=" /\ d.num = x.second.number
  BY <1>1 DEF OpOf, Comparison
<1>4. conditionParse(x) = Both(c, d)
  BY DEF conditionParse
<1> HIDE DEF c, d
<1>5. Both(c, d) = [flag |-> "EQ_FIRST", a |-> c.num, b |-> 0] /\ c.num # d.num
  BY <1>2 DEF Both, Range1, Range2, Operation
<1> QED
  BY <1>3, <1>4, <1>5 DEF BoundForId

\* The range that conditionParse() of lib/matu.h returns has the ids that the
\* condition selects, but for `<= n and = m' with m below n.
THEOREM ParseMeans ==
  ASSUME NEW x \in Condition, NEW k \in Int, ~ BoundForId(x, conditionParse(x))
  PROVE  InRange(k, conditionParse(x)) <=> Selects(x, k)
<1>1. x.first \in Comparison /\ x.conn \in {"none", "and", "or"}
  BY DEF Condition
<1>2. x.conn # "none" => x.second \in Comparison
  BY DEF Condition
<1>3. CASE x.conn = "none"
  BY <1>1, <1>3, OpMeans, OneMeans DEF conditionParse, Selects
<1>4. CASE x.conn = "and"
  <2>1. OpOf(x.first).op = "LE" /\ OpOf(x.second).op = "EQ" => OpOf(x.second).num >= OpOf(x.first).num
    BY <1>4, OutsideOfSlip
  <2>2. InRange(k, Both(OpOf(x.first), OpOf(x.second)))
          <=> Meets(k, OpOf(x.first)) /\ Meets(k, OpOf(x.second))
    BY <1>1, <1>2, <1>4, <2>1, OpMeans, BothMeans
  <2> QED
    BY <1>1, <1>2, <1>4, <2>2, OpMeans DEF conditionParse, Selects
<1>5. CASE x.conn = "or"
  <2>1. InRange(k, Either(OpOf(x.first), OpOf(x.second)))
          <=> Meets(k, OpOf(x.first)) \/ Meets(k, OpOf(x.second))
    BY <1>1, <1>2, <1>5, OpMeans, EitherMeans
  <2> QED
    BY <1>1, <1>2, <1>5, <2>1, OpMeans DEF conditionParse, Selects
<1> QED
  BY <1>1, <1>3, <1>4, <1>5

-----------------------------------------------------------------------------
(* The types of the client                                                 *)

USE BoundAssumption

\* Between its two calls update() has a value to put; the statement that ends
\* has made all its walks.
Running ==
  /\ pc \in {"idle", "done"} => walks = << >>
  /\ pc = "put" => stmt.kind = "update"
  /\ pc # "idle" /\ stmt.kind = "update" => stmt.val \in Val

ClientInv == Inv /\ ClientTypeOK /\ Running

\* A row that the iterator stands on has a key of the table.
LEMMA CursorKeys == ClientInv => cursor \subseteq Key /\ Live \subseteq DOMAIN item /\ DOMAIN item \subseteq Key
BY DEF ClientInv, ClientTypeOK, Inv, TypeOK, Live

-----------------------------------------------------------------------------
(* Every step of the client is a step of the tree below it.                *)

LEMMA StepOfStore == ClientInv /\ [ClientNext]_allVars => [Next]_vars
<1> SUFFICES ASSUME ClientInv, [ClientNext]_allVars PROVE [Next]_vars
  OBVIOUS
<1>1. ASSUME NEW k \in Key, NEW v \in Val, InsertRow(k, v) PROVE [Next]_vars
  BY <1>1 DEF InsertRow, Next
<1>2. ASSUME NEW kind, NEW v, NEW cond, Execute(kind, v, cond) PROVE UNCHANGED vars
  BY <1>2 DEF Execute
<1>3. ASSUME Locate \/ Leave \/ Finish \/ Return PROVE UNCHANGED vars
  BY <1>3 DEF Locate, Leave, Finish, Return
<1>4. ASSUME RunPut PROVE [Next]_vars
  <2>1. ASSUME NEW nodes \in 0 .. MaxNodes, StoreValue(nodes) PROVE Next
    <3>1. nodes \in Nat
      OBVIOUS
    <3> QED
      BY <3>1, <2>1 DEF Next, PutStep
  <2> QED
    BY <1>4, <2>1 DEF RunPut, Next, PutStep
<1>5. ASSUME FailPut PROVE [Next]_vars
  BY <1>5 DEF FailPut, Next, PutStep
<1>6. ASSUME NEW k \in cursor, QueryRow(k) \/ NextRow(k) PROVE UNCHANGED vars
  BY <1>6 DEF QueryRow, NextRow
<1>7. ASSUME NEW k \in cursor, DeleteRow(k) \/ UpdateRow(k) PROVE [Next]_vars
  BY <1>7, CursorKeys DEF DeleteRow, UpdateRow, Next
<1>8. ASSUME NEW k \in cursor, UpdatePut(k) PROVE [Next]_vars
  <2>1. k \in Key /\ stmt.val \in Val
    BY <1>8, CursorKeys DEF UpdatePut, ClientInv, Running
  <2> QED
    BY <1>8, <2>1 DEF UpdatePut, Next
<1>9. ASSUME UNCHANGED allVars PROVE UNCHANGED vars
  BY <1>9 DEF allVars
<1> QED
  BY <1>1, <1>2, <1>3, <1>4, <1>5, <1>6, <1>7, <1>8, <1>9 DEF ClientNext, Progress

\* Items are never taken away.
LEMMA ItemsStay == ClientInv /\ [Next]_vars => DOMAIN item \subseteq DOMAIN item'
<1> SUFFICES ASSUME ClientInv, [Next]_vars PROVE DOMAIN item \subseteq DOMAIN item'
  OBVIOUS
<1>1. ASSUME NEW nodes \in Nat, StoreValue(nodes) PROVE DOMAIN item \subseteq DOMAIN item'
  BY <1>1 DEF StoreValue
<1>2. ASSUME NEW k \in Key, RemoveItem(k) PROVE DOMAIN item \subseteq DOMAIN item'
  BY <1>2 DEF RemoveItem, ClientInv, Inv, TypeOK
<1>3. ASSUME \/ \E k \in Key, v \in Val : PutCall(k, v)
             \/ \E k \in Key : PutDuplicate(k)
             \/ TryNext \/ PutError \/ UNCHANGED vars
      PROVE  item' = item
  BY <1>3 DEF PutCall, PutDuplicate, TryNext, PutError, vars
<1> QED
  BY <1>1, <1>2, <1>3 DEF Next, PutStep

-----------------------------------------------------------------------------
(* The types                                                               *)

LEMMA AtMostOne ==
  ASSUME NEW S, S \subseteq Int
  PROVE  Cardinality({k \in S : \A l \in S : k <= l}) <= 1
<1> DEFINE T == {k \in S : \A l \in S : k <= l}
<1> SUFFICES Cardinality(T) <= 1
  OBVIOUS
<1>1. \A k, l \in T : k = l
  OBVIOUS
<1> HIDE DEF T
<1>2. CASE T = {}
  BY <1>2, FS_EmptySet
<1>3. CASE T # {}
  <2>1. PICK k \in T : TRUE
    BY <1>3
  <2>2. T = {k}
    BY <1>1, <2>1
  <2> QED
    BY <2>2, FS_Singleton
<1> QED
  BY <1>2, <1>3

\* Where the iterator goes when the loop goes on
LEMMA GoToType ==
  ASSUME ClientInv, NEW S \in SUBSET Live, GoTo(S), walks # << >>
  PROVE  /\ cursor' \subseteq DOMAIN item /\ Cardinality(cursor') <= 1
         /\ pc' \in {"locate", "turn"}
         /\ pc' = "turn" => cursor' # {} /\ walks' # << >>
<1>1. S \subseteq DOMAIN item /\ S \subseteq Int
  BY CursorKeys
<1>2. CASE S = {}
  BY <1>2, FS_EmptySet DEF GoTo, EndWalk
<1>3. CASE S # {}
  <2>1. cursor' = {k \in S : \A l \in S : k <= l} /\ pc' = "turn" /\ walks' = walks
    BY <1>3 DEF GoTo
  <2>2. PICK low \in Int : \A k \in DOMAIN item : low <= k
    BY DEF ClientInv, Inv, Bounded
  <2>3. \E k \in S : \A l \in S : k <= l
    BY <2>2, <1>1, <1>3, LeastExists
  <2> QED
    BY <2>1, <2>3, <1>1, AtMostOne
<1> QED
  BY <1>2, <1>3

LEMMA ClientInitInv == ClientInit => ClientInv
<1> SUFFICES ASSUME ClientInit PROVE ClientInv
  OBVIOUS
<1>1. Inv
  BY InitInv DEF ClientInit
<1>2. Cardinality(cursor) <= 1 /\ cursor \subseteq DOMAIN item
  BY FS_EmptySet DEF ClientInit
<1> QED
  BY <1>1, <1>2 DEF ClientInit, ClientInv, ClientTypeOK, Running

\* What the steps have in common: the iterator stays where it is, or goes on.
LEMMA KeepsCursor ==
  ASSUME ClientInv, [Next]_vars, UNCHANGED <<walks, cursor>>
  PROVE  cursor' \subseteq DOMAIN item' /\ Cardinality(cursor') <= 1
BY ItemsStay DEF ClientInv, ClientTypeOK

LEMMA InsertRowType ==
  ASSUME ClientInv, NEW k \in Key, NEW v \in Val, InsertRow(k, v), [Next]_vars
  PROVE  ClientTypeOK' /\ Running'
BY KeepsCursor DEF InsertRow, clientVars, ClientInv, ClientTypeOK, Running

LEMMA ExecuteType ==
  ASSUME ClientInv, NEW kind, NEW v, NEW cond, Execute(kind, v, cond), kind = "update" => v \in Val,
         [Next]_vars
  PROVE  ClientTypeOK' /\ Running'
<1>1. /\ pc = "idle" /\ pc' = "locate" /\ stmt' = [kind |-> kind, val |-> v]
      /\ cursor' = cursor
      /\ excused' = Slip(cond, conditionParse(cond))
      /\ want' = {k \in Live : Selects(cond, k)}
  BY DEF Execute
<1>2. excused' \in BOOLEAN
  BY <1>1 DEF Slip
<1>3. want' \subseteq Key
  BY <1>1, CursorKeys
<1>4. cursor' \subseteq DOMAIN item' /\ Cardinality(cursor') <= 1
  BY <1>1, ItemsStay DEF ClientInv, ClientTypeOK
<1>5. ClientTypeOK'
  BY <1>1, <1>2, <1>3, <1>4 DEF ClientTypeOK
<1> QED
  BY <1>1, <1>5 DEF Running

\* locate() and next(), or the end of a walk
LEMMA MoveType ==
  ASSUME ClientInv, UNCHANGED vars, NEW S \in SUBSET Live, EndWalk \/ GoTo(S), walks # << >>,
         Unchanged, UNCHANGED <<out, excused>>
  PROVE  ClientTypeOK' /\ Running'
<1>1. /\ cursor' \subseteq DOMAIN item' /\ Cardinality(cursor') <= 1
      /\ pc' \in {"locate", "turn"}
      /\ pc' = "turn" => cursor' # {} /\ walks' # << >>
  <2>1. item' = item
    BY DEF vars
  <2>2. CASE EndWalk
    BY <2>1, <2>2, FS_EmptySet DEF EndWalk
  <2>3. CASE GoTo(S)
    BY <2>1, <2>3, GoToType
  <2> QED
    BY <2>2, <2>3
<1>2. stmt' = stmt /\ want' = want /\ excused' = excused
  BY DEF Unchanged
<1>3. ClientTypeOK'
  BY <1>1, <1>2 DEF ClientInv, ClientTypeOK
<1> QED
  BY <1>1, <1>2, <1>3 DEF ClientInv, Running

LEMMA LocateType == ASSUME ClientInv, Locate PROVE ClientTypeOK' /\ Running'
<1> DEFINE S == {k \in Live : \A n \in Head(walks).from : k >= n}
<1>1. S \in SUBSET Live /\ GoTo(S) /\ walks # << >> /\ Unchanged /\ UNCHANGED <<vars, out, excused>>
  BY DEF Locate
<1> HIDE DEF S
<1> QED
  BY <1>1, MoveType

LEMMA LeaveType == ASSUME ClientInv, Leave PROVE ClientTypeOK' /\ Running'
<1>1. EndWalk /\ Unchanged /\ UNCHANGED <<vars, out, excused>>
  BY DEF Leave
<1>2. walks # << >> /\ {} \in SUBSET Live
  BY DEF Leave, ClientInv, ClientTypeOK
<1> QED
  BY <1>1, <1>2, MoveType

LEMMA NextRowType == ASSUME ClientInv, NEW k \in cursor, NextRow(k) PROVE ClientTypeOK' /\ Running'
<1>1. (EndWalk \/ GoTo(Behind(k))) /\ Unchanged /\ UNCHANGED <<vars, out, excused>>
  BY DEF NextRow
<1>2. walks # << >> /\ Behind(k) \in SUBSET Live
  BY DEF NextRow, ClientInv, ClientTypeOK, Behind
<1> QED
  BY <1>1, <1>2, MoveType

\* The statements in the body of a loop, and the put() that one of them calls
LEMMA TurnType ==
  ASSUME ClientInv, NEW k \in cursor, [Next]_vars,
         QueryRow(k) \/ DeleteRow(k) \/ UpdateRow(k) \/ UpdatePut(k)
  PROVE  ClientTypeOK' /\ Running'
<1>1. /\ UNCHANGED <<walks, cursor, excused, stmt, want>>
      /\ pc \in {"turn", "put"} /\ pc' \in {"put", "next"}
      /\ pc' = "put" => stmt.kind = "update"
  BY DEF QueryRow, DeleteRow, UpdateRow, UpdatePut, Turn, Unchanged
<1>2. cursor' \subseteq DOMAIN item' /\ Cardinality(cursor') <= 1
  BY <1>1, KeepsCursor
<1>3. ClientTypeOK'
  BY <1>1, <1>2 DEF ClientInv, ClientTypeOK
<1> QED
  BY <1>1, <1>3 DEF ClientInv, Running

LEMMA PutType == ASSUME ClientInv, [Next]_vars, RunPut \/ FailPut PROVE ClientTypeOK' /\ Running'
<1>1. UNCHANGED <<pc, walks, cursor, stmt, want>>
  BY DEF RunPut, FailPut, clientVars, Unchanged
<1>2. excused' \in BOOLEAN
  <2>1. CASE RunPut
    BY <2>1 DEF RunPut, clientVars, ClientInv, ClientTypeOK
  <2>2. CASE FailPut
    BY <2>2 DEF FailPut
  <2> QED
    BY <2>1, <2>2
<1>3. cursor' \subseteq DOMAIN item' /\ Cardinality(cursor') <= 1
  BY <1>1, KeepsCursor
<1>4. ClientTypeOK'
  BY <1>1, <1>2, <1>3 DEF ClientInv, ClientTypeOK
<1> QED
  BY <1>1, <1>4 DEF ClientInv, Running

LEMMA EndType == ASSUME ClientInv, [Next]_vars, Finish \/ Return PROVE ClientTypeOK' /\ Running'
<1>1. /\ UNCHANGED <<walks, cursor>> /\ walks = << >>
      /\ pc' \in {"done", "idle"} /\ want' \subseteq Key /\ excused' \in BOOLEAN
      /\ pc' = "done" => pc # "idle" /\ stmt' = stmt
  BY DEF Finish, Return, Unchanged, ClientInv, ClientTypeOK, Running
<1>2. cursor' \subseteq DOMAIN item' /\ Cardinality(cursor') <= 1
  BY <1>1, KeepsCursor
<1>3. ClientTypeOK'
  BY <1>1, <1>2 DEF ClientTypeOK
<1> QED
  BY <1>1, <1>3 DEF ClientInv, Running

LEMMA ClientNextInv == ClientInv /\ [ClientNext]_allVars => ClientInv'
<1> SUFFICES ASSUME ClientInv, [ClientNext]_allVars PROVE ClientInv'
  OBVIOUS
<1>1. [Next]_vars
  BY StepOfStore
<1>2. Inv'
  BY <1>1, NextInv DEF ClientInv
<1>3. ASSUME NEW k \in Key, NEW v \in Val, InsertRow(k, v) PROVE ClientTypeOK' /\ Running'
  BY <1>1, <1>3, InsertRowType
<1>4. ASSUME NEW kind \in {"query", "delete"}, NEW cond \in Condition, Execute(kind, {}, cond)
      PROVE  ClientTypeOK' /\ Running'
  <2>1. kind # "update"
    OBVIOUS
  <2> QED
    BY <1>1, <1>4, <2>1, ExecuteType
<1>5. ASSUME NEW v \in Val, NEW cond \in Condition, Execute("update", v, cond)
      PROVE  ClientTypeOK' /\ Running'
  BY <1>1, <1>5, ExecuteType
<1>6. ASSUME Locate \/ Leave PROVE ClientTypeOK' /\ Running'
  BY <1>6, LocateType, LeaveType
<1>7. ASSUME RunPut \/ FailPut PROVE ClientTypeOK' /\ Running'
  BY <1>1, <1>7, PutType
<1>8. ASSUME Finish \/ Return PROVE ClientTypeOK' /\ Running'
  BY <1>1, <1>8, EndType
<1>9. ASSUME NEW k \in cursor, QueryRow(k) \/ DeleteRow(k) \/ UpdateRow(k) \/ UpdatePut(k)
      PROVE  ClientTypeOK' /\ Running'
  BY <1>1, <1>9, TurnType
<1>10. ASSUME NEW k \in cursor, NextRow(k) PROVE ClientTypeOK' /\ Running'
  BY <1>10, NextRowType
<1>11. ASSUME UNCHANGED allVars PROVE ClientTypeOK' /\ Running'
  BY <1>11 DEF allVars, vars, clientVars, ClientInv, ClientTypeOK, Running
<1>12. ClientTypeOK' /\ Running'
  BY <1>3, <1>4, <1>5, <1>6, <1>7, <1>8, <1>9, <1>10, <1>11 DEF ClientNext, Progress
<1> QED
  BY <1>2, <1>12 DEF ClientInv
-----------------------------------------------------------------------------
(* The inductive invariant of the statements                               *)

\* The rows that a walk passes; the one of EQ_FIRST is there.
WalkType == [from : SUBSET Int, to : SUBSET Int, once : BOOLEAN]
Passes(w, k) == IF w.once THEN w.from = {k}
                ELSE (\A n \in w.from : k >= n) /\ (\A n \in w.to : k <= n)
InWalks(ws, k) == \E i \in 1 .. Len(ws) : Passes(ws[i], k)

\* A walk to one row of S
OneRowWalk(w, S) == w.to = {} /\ \E a \in S : w.from = {a}

\* The walks of a statement pass the rows in the order of their ids.
Ascending(ws) == \A i, j \in 1 .. Len(ws), k, l \in Int :
                   i < j /\ Passes(ws[i], k) /\ Passes(ws[j], l) => k < l
GoodWalks(ws) == ws \in Seq(WalkType) /\ Ascending(ws)

\* The ids that the statement has still to come to
Ahead(k) ==
  CASE pc = "locate" -> InWalks(walks, k)
    [] pc \in {"turn", "put"} -> \/ InWalks(Tail(walks), k)
                                 \/ Passes(Head(walks), k) /\ \A c \in cursor : c <= k
    [] pc = "next" -> \/ InWalks(Tail(walks), k)
                      \/ Passes(Head(walks), k) /\ \A c \in cursor : c < k
    [] OTHER -> FALSE
Pending == {k \in DOMAIN before : Ahead(k)}
Handled == want \ Pending

\* The row that update() has taken out and not put back yet
Gone == IF pc = "put" \/ (pc = "next" /\ call # Idle) THEN cursor ELSE {}

\* The rows are handled in the order of their ids.
OrderInv ==
  /\ Pending \subseteq want /\ want \subseteq DOMAIN before
  /\ \A k \in Handled, l \in Pending : k < l

WalkInv ==
  /\ GoodWalks(walks)
  /\ \A i \in 1 .. Len(walks) : walks[i].once => OneRowWalk(walks[i], DOMAIN before)
  /\ pc \in {"turn", "put", "next"} =>
       /\ cursor \subseteq DOMAIN before
       /\ \A c \in cursor, n \in Head(walks).from : c >= n
       /\ Head(walks).once => Head(walks).from = cursor
  /\ pc = "put" => \A c \in cursor : Passes(Head(walks), c)
  /\ pc = "next" => cursor \subseteq Handled

TableInv ==
  /\ Live = DOMAIN before \ (Gone \cup IF stmt.kind = "delete" THEN Handled ELSE {})
  /\ \A k \in Live : item[k].val = IF stmt.kind = "update" /\ k \in Handled THEN stmt.val
                                   ELSE before[k]

OutInv ==
  /\ out \in Seq(Key \X Val) /\ InOrder(out)
  /\ stmt.kind = "query" => ToSet(out) = RowsOf(before, Handled)

StatementInv ==
  /\ pc = "idle" => out = << >>
  /\ \A c, d \in cursor : c = d
  /\ call # Idle => pc \in {"idle", "next"}
  /\ pc = "next" /\ call # Idle =>
       stmt.kind = "update" /\ call.key \in cursor /\ call.val = stmt.val
  /\ pc # "idle" => /\ stmt.kind \in {"query", "delete", "update"}
                    /\ DOMAIN before \subseteq Key
                    /\ before = [k \in DOMAIN before |-> before[k]]
  /\ pc # "idle" /\ ~ excused => OrderInv /\ WalkInv /\ TableInv /\ OutInv

-----------------------------------------------------------------------------
(* Values                                                                  *)

USE KeyAssumption, RowAssumption

\* Of a row that has bytes, getValue() finds nothing but the row.
LEMMA ValueIs == ASSUME ClientInv, NEW k \in DOMAIN item PROVE GetValue(item[k].loc) = item[k].val
<1> DEFINE loc == item[k].loc
           v == item[k].val
<1>1. v \in Val
  BY DEF ClientInv, Inv, TypeOK, Item
<1>2. Holds(loc, v)
  BY StoredHolds DEF ClientInv, ValuesIntact
<1>3. ASSUME NEW w \in Val, Holds(loc, w) PROVE w = v
  <2> DEFINE byte == block[loc.index].byte
             entry == DirectoryEnd(loc.position)
  <2>1. PICK o \in Byte \ {0} : byte[entry] = Entry(o) /\ \A i \in 0 .. size[v] - 1 : byte[o + i] = Part(v, i)
    BY <1>2 DEF Holds
  <2>2. PICK p \in Byte \ {0} : byte[entry] = Entry(p) /\ \A i \in 0 .. size[w] - 1 : byte[p + i] = Part(w, i)
    BY <1>3 DEF Holds
  <2>3. o = p
    <3>1. Entry(o) = Entry(p)
      BY <2>1, <2>2
    <3>2. Entry(o)[2] = o /\ Entry(p)[2] = p
      BY DEF Entry
    <3> QED
      BY <3>1, <3>2
  <2>4. 0 \in 0 .. size[v] - 1 /\ 0 \in 0 .. size[w] - 1
    <3>1. \A u \in Val : size[u] \in Nat /\ size[u] > 0
      BY SizeAssumption, RowAssumption
    <3> HIDE DEF v
    <3> QED
      BY <1>1, <3>1
  <2>5. byte[o + 0] = Part(v, 0) /\ byte[o + 0] = Part(w, 0)
    BY <2>1, <2>2, <2>3, <2>4
  <2> QED
    BY <2>5 DEF Part
<1> HIDE DEF loc, v
<1>4. GetValue(loc) = v
  BY <1>1, <1>2, <1>3 DEF GetValue
<1> QED
  BY <1>4 DEF loc, v

LEMMA TableIs == ASSUME ClientInv PROVE Table = [k \in Live |-> item[k].val]
BY ValueIs, CursorKeys DEF Table

-----------------------------------------------------------------------------
(* Walks                                                                   *)

LEMMA TailIs ==
  ASSUME NEW ws \in Seq(WalkType), ws # << >>
  PROVE  /\ Head(ws) = ws[1] /\ Head(ws) \in WalkType /\ 1 \in 1 .. Len(ws)
         /\ Tail(ws) \in Seq(WalkType)
         /\ \A i \in 1 .. Len(Tail(ws)) : i + 1 \in 1 .. Len(ws) /\ Tail(ws)[i] = ws[i + 1]
         /\ \A i \in 1 .. Len(ws) : i = 1 \/ (i - 1 \in 1 .. Len(Tail(ws)) /\ Tail(ws)[i - 1] = ws[i])
<1>1. Len(ws) \in Nat /\ Len(ws) # 0 /\ Len(Tail(ws)) = Len(ws) - 1 /\ Tail(ws) \in Seq(WalkType)
  OBVIOUS
<1>2. \A i \in 1 .. Len(Tail(ws)) : Tail(ws)[i] = ws[i + 1]
  OBVIOUS
<1> QED
  BY <1>1, <1>2

LEMMA WalksSplit ==
  ASSUME NEW ws, GoodWalks(ws), ws # << >>
  PROVE  /\ GoodWalks(Tail(ws))
         /\ \A k : InWalks(ws, k) <=> Passes(Head(ws), k) \/ InWalks(Tail(ws), k)
         /\ \A k, l \in Int : Passes(Head(ws), k) /\ InWalks(Tail(ws), l) => k < l
<1>1. ws \in Seq(WalkType)
  BY DEF GoodWalks
<1>2. Ascending(Tail(ws))
  <2>1. SUFFICES ASSUME NEW i \in 1 .. Len(Tail(ws)), NEW j \in 1 .. Len(Tail(ws)), NEW k \in Int, NEW l \in Int,
                        i < j, Passes(Tail(ws)[i], k), Passes(Tail(ws)[j], l)
                 PROVE  k < l
    BY DEF Ascending
  <2>2. /\ i + 1 \in 1 .. Len(ws) /\ j + 1 \in 1 .. Len(ws) /\ i + 1 < j + 1
        /\ Passes(ws[i + 1], k) /\ Passes(ws[j + 1], l)
    BY <1>1, <2>1, TailIs
  <2> QED
    BY <2>2 DEF GoodWalks, Ascending
<1>3. \A k : InWalks(ws, k) <=> Passes(Head(ws), k) \/ InWalks(Tail(ws), k)
  BY <1>1, TailIs DEF InWalks
<1>4. ASSUME NEW k \in Int, NEW l \in Int, Passes(Head(ws), k), InWalks(Tail(ws), l) PROVE k < l
  <2>1. PICK i \in 1 .. Len(Tail(ws)) : Passes(Tail(ws)[i], l)
    BY <1>4 DEF InWalks
  <2>2. /\ i + 1 \in 1 .. Len(ws) /\ 1 < i + 1 /\ Passes(ws[i + 1], l)
        /\ 1 \in 1 .. Len(ws) /\ Passes(ws[1], k)
    BY <1>1, <1>4, <2>1, TailIs
  <2> QED
    BY <2>2 DEF GoodWalks, Ascending
<1> QED
  BY <1>1, <1>2, <1>3, <1>4, TailIs DEF GoodWalks

\* The numbers of a range, and the order of the two of RES_OR
Flag == {"BAD", "ALL", "EQ_FIRST", "HI", "LO", "EQ_BOTH", "AND", "OR", "EQ_LO", "EQ_HI"}
GoodRange(r) == r.flag \in Flag /\ r.a \in Int /\ r.b \in Int /\ (r.flag = "OR" => r.a < r.b)
LEMMA RangesGood ==
  ASSUME NEW a \in Int, NEW b \in Int
  PROVE  /\ GoodRange(Bad) /\ GoodRange(All)
         /\ \A f \in Flag \ {"OR"} : GoodRange(Range1(f, a)) /\ GoodRange(Range2(f, a, b))
         /\ a < b => GoodRange(Range2("OR", a, b))
BY DEF GoodRange, Flag, Bad, All, Range1, Range2

LEMMA BothType ==
  ASSUME NEW c \in Operation, NEW d \in Operation PROVE GoodRange(Both(c, d))
<1> DEFINE m == c.num
           n == d.num
<1>1. m \in Int /\ n \in Int /\ c.op \in {"GE", "EQ", "LE"} /\ d.op \in {"GE", "EQ", "LE"}
  BY DEF Operation
<1>2. {"EQ_FIRST", "HI", "LO", "EQ_BOTH", "AND", "EQ_LO", "EQ_HI"} \subseteq Flag \ {"OR"}
  BY DEF Flag
<1>3. Smaller(m, n) \in Int /\ Greater(m, n) \in Int
  BY <1>1 DEF Smaller, Greater
<1>4. CASE c.op = "EQ" /\ d.op = "EQ"
  <2>1. Both(c, d) = IF n = m THEN Range1("EQ_FIRST", n) ELSE Bad
    BY <1>4 DEF Both
  <2> HIDE DEF m, n
  <2> QED
    BY <1>1, <1>2, <1>3, <2>1, RangesGood
<1>5. CASE c.op = "EQ" /\ d.op = "GE"
  <2>1. Both(c, d) = IF m < n THEN Bad ELSE Range1("EQ_FIRST", m)
    BY <1>5 DEF Both
  <2> HIDE DEF m, n
  <2> QED
    BY <1>1, <1>2, <1>3, <2>1, RangesGood
<1>6. CASE c.op = "EQ" /\ d.op = "LE"
  <2>1. Both(c, d) = IF m > n THEN Bad ELSE Range1("EQ_FIRST", m)
    BY <1>6 DEF Both
  <2> HIDE DEF m, n
  <2> QED
    BY <1>1, <1>2, <1>3, <2>1, RangesGood
<1>7. CASE c.op = "GE" /\ d.op = "EQ"
  <2>1. Both(c, d) = IF m > n THEN Bad ELSE Range1("EQ_FIRST", n)
    BY <1>7 DEF Both
  <2> HIDE DEF m, n
  <2> QED
    BY <1>1, <1>2, <1>3, <2>1, RangesGood
<1>8. CASE c.op = "LE" /\ d.op = "EQ"
  <2>1. Both(c, d) = IF n > m THEN Bad ELSE Range1("EQ_FIRST", m)
    BY <1>8 DEF Both
  <2> HIDE DEF m, n
  <2> QED
    BY <1>1, <1>2, <1>3, <2>1, RangesGood
<1>9. CASE c.op = "GE" /\ d.op = "GE"
  <2>1. Both(c, d) = Range1("LO", Greater(m, n))
    BY <1>9 DEF Both
  <2> HIDE DEF m, n
  <2> QED
    BY <1>1, <1>2, <1>3, <2>1, RangesGood
<1>10. CASE c.op = "LE" /\ d.op = "LE"
  <2>1. Both(c, d) = Range1("HI", Smaller(m, n))
    BY <1>10 DEF Both
  <2> HIDE DEF m, n
  <2> QED
    BY <1>1, <1>2, <1>3, <2>1, RangesGood
<1>11. CASE c.op = "GE" /\ d.op = "LE"
  <2>1. Both(c, d) = IF n < m THEN Bad ELSE IF n = m THEN Range1("EQ_FIRST", m) ELSE Range2("AND", m, n)
    BY <1>11 DEF Both
  <2> HIDE DEF m, n
  <2> QED
    BY <1>1, <1>2, <1>3, <2>1, RangesGood
<1>12. CASE c.op = "LE" /\ d.op = "GE"
  <2>1. Both(c, d) = IF m < n THEN Bad ELSE IF m = n THEN Range1("EQ_FIRST", n) ELSE Range2("AND", n, m)
    BY <1>12 DEF Both
  <2> HIDE DEF m, n
  <2> QED
    BY <1>1, <1>2, <1>3, <2>1, RangesGood
<1> QED
  BY <1>1, <1>4, <1>5, <1>6, <1>7, <1>8, <1>9, <1>10, <1>11, <1>12

LEMMA EitherType ==
  ASSUME NEW c \in Operation, NEW d \in Operation PROVE GoodRange(Either(c, d))
<1> DEFINE m == c.num
           n == d.num
<1>1. m \in Int /\ n \in Int /\ c.op \in {"GE", "EQ", "LE"} /\ d.op \in {"GE", "EQ", "LE"}
  BY DEF Operation
<1>2. {"EQ_FIRST", "HI", "LO", "EQ_BOTH", "AND", "EQ_LO", "EQ_HI"} \subseteq Flag \ {"OR"}
  BY DEF Flag
<1>3. Smaller(m, n) \in Int /\ Greater(m, n) \in Int
  BY <1>1 DEF Smaller, Greater
<1>4. CASE c.op = "EQ" /\ d.op = "EQ"
  <2>1. Either(c, d) = IF n = m THEN Range1("EQ_FIRST", n) ELSE Range2("EQ_BOTH", n, m)
    BY <1>4 DEF Either
  <2> HIDE DEF m, n
  <2> QED
    BY <1>1, <1>2, <1>3, <2>1, RangesGood
<1>5. CASE c.op = "EQ" /\ d.op = "GE"
  <2>1. Either(c, d) = IF m >= n THEN Range1("LO", n) ELSE Range2("EQ_LO", m, n)
    BY <1>5 DEF Either
  <2> HIDE DEF m, n
  <2> QED
    BY <1>1, <1>2, <1>3, <2>1, RangesGood
<1>6. CASE c.op = "EQ" /\ d.op = "LE"
  <2>1. Either(c, d) = IF m > n THEN Range2("EQ_HI", m, n) ELSE Range1("HI", n)
    BY <1>6 DEF Either
  <2> HIDE DEF m, n
  <2> QED
    BY <1>1, <1>2, <1>3, <2>1, RangesGood
<1>7. CASE c.op = "GE" /\ d.op = "EQ"
  <2>1. Either(c, d) = IF n >= m THEN Range1("LO", m) ELSE Range2("EQ_LO", n, m)
    BY <1>7 DEF Either
  <2> HIDE DEF m, n
  <2> QED
    BY <1>1, <1>2, <1>3, <2>1, RangesGood
<1>8. CASE c.op = "LE" /\ d.op = "EQ"
  <2>1. Either(c, d) = IF n > m THEN Range2("EQ_HI", n, m) ELSE Range1("HI", m)
    BY <1>8 DEF Either
  <2> HIDE DEF m, n
  <2> QED
    BY <1>1, <1>2, <1>3, <2>1, RangesGood
<1>9. CASE c.op = "GE" /\ d.op = "GE"
  <2>1. Either(c, d) = Range1("LO", Smaller(m, n))
    BY <1>9 DEF Either
  <2> HIDE DEF m, n
  <2> QED
    BY <1>1, <1>2, <1>3, <2>1, RangesGood
<1>10. CASE c.op = "LE" /\ d.op = "LE"
  <2>1. Either(c, d) = Range1("HI", Greater(m, n))
    BY <1>10 DEF Either
  <2> HIDE DEF m, n
  <2> QED
    BY <1>1, <1>2, <1>3, <2>1, RangesGood
<1>11. CASE c.op = "GE" /\ d.op = "LE"
  <2>1. Either(c, d) = IF m <= n + 1 THEN All ELSE Range2("OR", n, m)
    BY <1>11 DEF Either
  <2> HIDE DEF m, n
  <2> QED
    BY <1>1, <1>2, <1>3, <2>1, RangesGood
<1>12. CASE c.op = "LE" /\ d.op = "GE"
  <2>1. Either(c, d) = IF n <= m + 1 THEN All ELSE Range2("OR", m, n)
    BY <1>12 DEF Either
  <2> HIDE DEF m, n
  <2> QED
    BY <1>1, <1>2, <1>3, <2>1, RangesGood
<1> QED
  BY <1>1, <1>4, <1>5, <1>6, <1>7, <1>8, <1>9, <1>10, <1>11, <1>12

LEMMA ParseType == ASSUME NEW x \in Condition PROVE GoodRange(conditionParse(x))
<1>1. x.first \in Comparison /\ x.conn \in {"none", "and", "or"} /\ (x.conn # "none" => x.second \in Comparison)
  BY DEF Condition
<1>2. OpOf(x.first) \in Operation /\ (x.conn # "none" => OpOf(x.second) \in Operation)
  BY <1>1, OpMeans
<1>3. CASE x.conn = "none"
  <2>1. conditionParse(x) = One(OpOf(x.first))
    BY <1>3 DEF conditionParse
  <2> QED
    BY <1>2, <2>1 DEF One, Operation, GoodRange, Flag, Range1, Range2
<1>4. CASE x.conn = "and"
  BY <1>2, <1>4, BothType DEF conditionParse
<1>5. CASE x.conn = "or"
  BY <1>2, <1>5, EitherType DEF conditionParse
<1> QED
  BY <1>1, <1>3, <1>4, <1>5

LEMMA JoinOne == ASSUME NEW a, NEW b PROVE << a >> \o << b >> = << a, b >>
<1> DEFINE s == << a >> \o << b >>
<1>1. << a >> \in Seq({a, b}) /\ << b >> \in Seq({a, b}) /\ Len(<< a >>) = 1 /\ Len(<< b >>) = 1
  OBVIOUS
<1>2. s \in Seq({a, b}) /\ Len(s) = 2 /\ s[1] = a /\ s[2] = b
  BY <1>1
<1> HIDE DEF s
<1>3. s = << a, b >>
  BY <1>2
<1> QED
  BY <1>3 DEF s

LEMMA WalkTyped ==
  ASSUME NEW from \in SUBSET Int, NEW to \in SUBSET Int
  PROVE  [from |-> from, to |-> to, once |-> FALSE] \in WalkType
BY DEF WalkType

\* The walks of a range that no Slip is known of pass the ids in it, once each.
LEMMA WalksOfRange ==
  ASSUME NEW r, GoodRange(r), r.flag \notin {"EQ_BOTH", "EQ_LO", "EQ_HI", "ALL"}
  PROVE  /\ GoodWalks(Walks(r))
         /\ \A k \in Int : InWalks(Walks(r), k) <=> InRange(k, r)
         /\ \A i \in 1 .. Len(Walks(r)) :
              Walks(r)[i].once => r.flag = "EQ_FIRST" /\ Walks(r)[i].to = {} /\ Walks(r)[i].from = {r.a}
<1> DEFINE walk(from, to) == [from |-> from, to |-> to, once |-> FALSE]
<1>1. r.a \in Int /\ r.b \in Int /\ (r.flag = "OR" => r.a < r.b)
  BY DEF GoodRange
<1>2. \A from, to \in SUBSET Int : walk(from, to) \in WalkType
  BY WalkTyped
<1>3. CASE r.flag = "AND"
  <2>1. Walks(r) = << walk({r.a}, {r.b}) >>
    BY <1>3 DEF Walks, Walk
  <2> QED
    BY <1>1, <1>2, <1>3, <2>1, SMTT(20) DEF GoodWalks, Ascending, InWalks, Passes, InRange
<1>4. CASE r.flag = "HI"
  <2>1. Walks(r) = << walk({}, {r.a}) >>
    BY <1>4 DEF Walks, Walk
  <2> QED
    BY <1>1, <1>2, <1>4, <2>1 DEF GoodWalks, Ascending, InWalks, Passes, InRange
<1>5. CASE r.flag = "LO"
  <2>1. Walks(r) = << walk({r.a}, {}) >>
    BY <1>5 DEF Walks, Walk
  <2> QED
    BY <1>1, <1>2, <1>5, <2>1 DEF GoodWalks, Ascending, InWalks, Passes, InRange
<1>6. CASE r.flag = "EQ_FIRST"
  <2>1. Walks(r) = << [from |-> {r.a}, to |-> {}, once |-> TRUE] >>
    BY <1>6 DEF Walks, OneRow
  <2>2. [from |-> {r.a}, to |-> {}, once |-> TRUE] \in WalkType
    BY <1>1 DEF WalkType
  <2>3. \A k : {r.a} = {k} <=> k = r.a
    OBVIOUS
  <2> QED
    BY <1>1, <1>6, <2>1, <2>2, <2>3 DEF GoodWalks, Ascending, InWalks, Passes, InRange
<1>7. CASE r.flag = "BAD"
  <2>1. Walks(r) = << >>
    BY <1>7 DEF Walks
  <2> QED
    BY <1>7, <2>1 DEF GoodWalks, Ascending, InWalks, InRange
<1>8. CASE r.flag = "OR"
  <2>1. Walks(r) = << walk({}, {r.a}), walk({r.b}, {}) >>
    <3>1. Walks(r) = << walk({}, {r.a}) >> \o << walk({r.b}, {}) >>
      BY <1>8 DEF Walks, Walk
    <3> QED
      BY <3>1, JoinOne
  <2>2. Walks(r) \in Seq(WalkType) /\ Len(Walks(r)) = 2
    BY <1>1, <1>2, <2>1
  <2>3. \A k \in Int : (Passes(Walks(r)[1], k) <=> k <= r.a) /\ (Passes(Walks(r)[2], k) <=> k >= r.b)
    BY <1>1, <2>1 DEF Passes
  <2>4. ~ Walks(r)[1].once /\ ~ Walks(r)[2].once
    BY <2>1
  <2> HIDE DEF walk
  <2>5. Ascending(Walks(r))
    BY <1>1, <1>8, <2>2, <2>3 DEF Ascending
  <2> QED
    BY <1>8, <2>2, <2>3, <2>4, <2>5 DEF GoodWalks, InWalks, InRange
<1> QED
  BY <1>3, <1>4, <1>5, <1>6, <1>7, <1>8 DEF GoodRange, Flag

-----------------------------------------------------------------------------
(* The steps of a statement                                                *)

SInv == ClientInv /\ StatementInv

LEMMA OneCursor == ASSUME SInv, NEW c \in cursor PROVE cursor = {c} /\ c \in Key /\ c \in Int
<1>1. cursor \subseteq Key
  BY CursorKeys DEF SInv
<1>2. \A d \in cursor : d = c
  BY DEF SInv, StatementInv
<1> QED
  BY <1>1, <1>2

\* No row is out while the statement is between two rows.
LEMMA PendingLive ==
  ASSUME SInv, pc # "idle", ~ excused, Gone = {}
  PROVE  Pending \subseteq Live /\ Live \subseteq DOMAIN before /\ DOMAIN before \subseteq Int
<1>1. Pending \subseteq DOMAIN before /\ DOMAIN before \subseteq Key
  BY DEF SInv, StatementInv, Pending
<1>2. Live = DOMAIN before \ IF stmt.kind = "delete" THEN want \ Pending ELSE {}
  BY DEF SInv, StatementInv, TableInv, Handled
<1> QED
  BY <1>1, <1>2

\* locate() and next() leave the iterator on one row or none.
LEMMA GoesToOne ==
  ASSUME SInv, NEW S \in SUBSET Live, EndWalk \/ GoTo(S)
  PROVE  (\A c, d \in cursor' : c = d) /\ pc' \in {"locate", "turn"}
<1>1. S \subseteq Int
  BY CursorKeys DEF SInv
<1>2. CASE EndWalk \/ S = {}
  BY <1>2 DEF EndWalk, GoTo
<1>3. CASE GoTo(S) /\ S # {}
  <2>1. cursor' = {k \in S : \A l \in S : k <= l} /\ pc' = "turn"
    BY <1>3 DEF GoTo
  <2>2. ASSUME NEW c \in cursor', NEW d \in cursor' PROVE c = d
    <3>1. c \in Int /\ d \in Int /\ c <= d /\ d <= c
      BY <1>1, <2>1, <2>2
    <3> QED
      BY <3>1
  <2> QED
    BY <2>1, <2>2
<1> QED
  BY <1>2, <1>3

\* A step between two rows changes neither.
LEMMA BetweenRows ==
  ASSUME SInv, pc # "idle", call = Idle, Gone = {}, pc' \in {"locate", "turn", "done"},
         UNCHANGED <<vars, stmt, before, want, out, excused>>, \A c, d \in cursor' : c = d,
         ~ excused => Pending' = Pending /\ WalkInv'
  PROVE  StatementInv'
<1>1. UNCHANGED <<item, call>> /\ Live' = Live
  BY DEF vars, Live
<1>2. Gone' = {}
  BY DEF Gone
<1>3. ASSUME ~ excused PROVE OrderInv' /\ WalkInv' /\ TableInv' /\ OutInv'
  <2>1. Pending' = Pending /\ Handled' = Handled /\ WalkInv'
    BY <1>3 DEF Handled
  <2>2. OrderInv /\ TableInv /\ OutInv
    BY <1>3 DEF SInv, StatementInv
  <2>3. OrderInv'
    BY <2>1, <2>2 DEF OrderInv
  <2>4. TableInv'
    BY <1>1, <1>2, <2>1, <2>2 DEF TableInv
  <2>5. OutInv'
    BY <2>1, <2>2 DEF OutInv
  <2> QED
    BY <2>1, <2>3, <2>4, <2>5
<1> QED
  BY <1>1, <1>3 DEF SInv, StatementInv

\* The end of a walk that no row is left of
LEMMA WalkEnds ==
  ASSUME SInv, pc \in {"locate", "turn", "next"}, ~ excused, walks # << >>, EndWalk,
         UNCHANGED <<vars, stmt, before, want, out, excused>>,
         \A k \in Pending : ~ Passes(Head(walks), k)
  PROVE  Pending' = Pending /\ WalkInv'
<1>1. WalkInv
  BY DEF SInv, StatementInv
<1>2. pc' = "locate" /\ walks' = Tail(walks) /\ before' = before /\ cursor' = {}
  BY DEF EndWalk
<1>3. \A k : InWalks(walks, k) <=> Passes(Head(walks), k) \/ InWalks(Tail(walks), k)
  BY <1>1, WalksSplit DEF WalkInv
<1>4. \A k : Ahead(k)' <=> InWalks(Tail(walks), k)
  BY <1>2 DEF Ahead
<1>5. \A k \in DOMAIN before : Ahead(k) <=> InWalks(Tail(walks), k)
  <2>1. TAKE k \in DOMAIN before
  <2>2. Ahead(k) => ~ Passes(Head(walks), k)
    BY DEF Pending
  <2>3. CASE pc = "locate"
    BY <1>3, <2>2, <2>3 DEF Ahead
  <2>4. CASE pc = "turn"
    BY <2>2, <2>4 DEF Ahead
  <2>5. CASE pc = "next"
    BY <2>2, <2>5 DEF Ahead
  <2> QED
    BY <2>3, <2>4, <2>5
<1>6. Pending' = Pending
  BY <1>2, <1>4, <1>5 DEF Pending
<1>7. GoodWalks(walks') /\ \A i \in 1 .. Len(walks') : walks'[i].once => OneRowWalk(walks'[i], DOMAIN before')
  <2>1. walks \in Seq(WalkType)
    BY <1>1 DEF WalkInv, GoodWalks
  <2> QED
    BY <1>1, <1>2, <2>1, TailIs, WalksSplit DEF WalkInv
<1> QED
  BY <1>2, <1>6, <1>7 DEF WalkInv

\* The iterator goes to the first of the rows that are left of a walk.
LEMMA WalkGoes ==
  ASSUME SInv, pc \in {"locate", "next"}, ~ excused, call = Idle, Gone = {}, walks # << >>,
         NEW S \in SUBSET Live, GoTo(S), UNCHANGED <<vars, stmt, before, want, out, excused>>,
         \A k \in Pending : Passes(Head(walks), k) => k \in S,
         \A k \in S, n \in Head(walks).from : k >= n,
         Head(walks).once => Head(walks).from \subseteq S,
         pc = "next" => \A c \in cursor, k \in S : c < k
  PROVE  Pending' = Pending /\ WalkInv'
<1>1. WalkInv /\ walks \in Seq(WalkType)
  BY DEF SInv, StatementInv, WalkInv, GoodWalks
<1>2. S \subseteq Int /\ S \subseteq DOMAIN before
  BY PendingLive
<1>3. CASE S = {}
  <2>1. EndWalk /\ \A k \in Pending : ~ Passes(Head(walks), k)
    BY <1>3 DEF GoTo
  <2> QED
    BY <2>1, WalkEnds
<1>4. CASE S # {}
  <2>1. cursor' = {k \in S : \A l \in S : k <= l} /\ pc' = "turn" /\ walks' = walks /\ before' = before
    BY <1>4 DEF GoTo
  <2>2. PICK low \in Int : \A k \in DOMAIN item : low <= k
    BY DEF SInv, ClientInv, Inv, Bounded
  <2>3. PICK c \in S : \A l \in S : c <= l
    <3>1. \A k \in S : low <= k
      BY <2>2 DEF Live
    <3> QED
      BY <1>2, <1>4, <2>2, <3>1, LeastExists
  <2>4. cursor' = {c}
    <3>1. c \in cursor'
      BY <2>1, <2>3
    <3> QED
      BY <3>1, GoesToOne
  <2>5. \A k : Ahead(k)' <=> InWalks(Tail(walks), k) \/ (Passes(Head(walks), k) /\ c <= k)
    BY <2>1, <2>4 DEF Ahead
  <2>6. \A k \in DOMAIN before : Ahead(k) <=> InWalks(Tail(walks), k) \/ (Passes(Head(walks), k) /\ c <= k)
    <3>1. TAKE k \in DOMAIN before
    <3>2. k \in Int /\ c \in Int
      BY <1>2, PendingLive
    <3>3. Ahead(k) /\ Passes(Head(walks), k) => c <= k
      BY <2>3 DEF Pending
    <3>4. CASE pc = "locate"
      <4>1. InWalks(walks, k) <=> Passes(Head(walks), k) \/ InWalks(Tail(walks), k)
        BY <1>1, WalksSplit DEF WalkInv
      <4> QED
        BY <3>3, <3>4, <4>1 DEF Ahead
    <3>5. CASE pc = "next"
      <4>1. \A d \in cursor : d < c /\ d \in Int
        <5>1. \A d \in cursor : d \in Int
          BY CursorKeys DEF SInv
        <5> QED
          BY <3>5, <5>1
      <4>2. Ahead(k) <=> InWalks(Tail(walks), k) \/ (Passes(Head(walks), k) /\ \A d \in cursor : d < k)
        BY <3>5 DEF Ahead
      <4>3. c <= k => \A d \in cursor : d < k
        BY <3>2, <4>1
      <4> QED
        BY <3>3, <4>2, <4>3
    <3> QED
      BY <3>4, <3>5
  <2>7. Pending' = Pending
    BY <2>1, <2>5, <2>6 DEF Pending
  <2>8. /\ cursor' \subseteq DOMAIN before /\ \A d \in cursor', n \in Head(walks).from : d >= n
    BY <1>2, <2>3, <2>4
  <2>9. Head(walks).once => Head(walks).from = {c}
    <3>1. ASSUME Head(walks).once PROVE Head(walks).from = {c}
      <4>1. PICK a \in DOMAIN before : Head(walks).from = {a}
        BY <1>1, <3>1, TailIs DEF WalkInv, OneRowWalk
      <4>2. a \in S /\ c >= a /\ c <= a /\ a \in Int /\ c \in Int
        BY <1>2, <2>3, <3>1, <4>1
      <4> QED
        BY <4>1, <4>2
    <3> QED
      BY <3>1
  <2>10. WalkInv'
    BY <1>1, <2>1, <2>4, <2>8, <2>9 DEF WalkInv
  <2> QED
    BY <2>7, <2>10
<1> QED
  BY <1>3, <1>4

LEMMA LocateStep == ASSUME SInv, Locate PROVE StatementInv'
<1> DEFINE S == {k \in Live : \A n \in Head(walks).from : k >= n}
<1>1. /\ pc = "locate" /\ walks # << >> /\ GoTo(S) /\ S \in SUBSET Live
      /\ UNCHANGED <<vars, stmt, before, want, out, excused>>
  BY DEF Locate, Unchanged
<1>2. call = Idle /\ Gone = {}
  BY <1>1 DEF SInv, StatementInv, Gone
<1>3. ASSUME ~ excused PROVE Pending' = Pending /\ WalkInv'
  <2>1. WalkInv /\ walks \in Seq(WalkType)
    BY <1>1, <1>3 DEF SInv, StatementInv, WalkInv, GoodWalks
  <2>2. Pending \subseteq Live /\ Live \subseteq Int
    BY <1>1, <1>2, <1>3, PendingLive
  <2>3. ASSUME NEW k \in Pending, Passes(Head(walks), k) PROVE k \in S
    BY <2>2, <2>3 DEF Passes
  <2>4. ASSUME Head(walks).once PROVE Head(walks).from \subseteq S
    <3>1. PICK a \in DOMAIN before : Head(walks).from = {a}
      BY <2>1, <2>4, <1>1, TailIs DEF WalkInv, OneRowWalk
    <3>2. Passes(Head(walks), a)
      BY <2>4, <3>1 DEF Passes
    <3>3. a \in Pending
      BY <1>1, <2>1, <3>2, WalksSplit DEF Pending, Ahead, WalkInv
    <3> QED
      BY <2>3, <3>1, <3>2, <3>3
  <2>5. \A k \in S, n \in Head(walks).from : k >= n
    OBVIOUS
  <2> HIDE DEF S
  <2> QED
    BY <1>1, <1>2, <1>3, <2>3, <2>4, <2>5, WalkGoes
<1>4. (\A c, d \in cursor' : c = d) /\ pc' \in {"locate", "turn"}
  <2> HIDE DEF S
  <2> QED
    BY <1>1, GoesToOne
<1> QED
  BY <1>1, <1>2, <1>3, <1>4, BetweenRows

LEMMA LeaveStep == ASSUME SInv, Leave PROVE StatementInv'
<1>1. /\ pc = "turn" /\ EndWalk /\ UNCHANGED <<vars, stmt, before, want, out, excused>>
  BY DEF Leave, Unchanged
<1>2. PICK c \in cursor, n \in Head(walks).to : c > n
  BY DEF Leave
<1>3. call = Idle /\ Gone = {} /\ walks # << >> /\ pc' = "locate"
      /\ cursor' = {}
  BY <1>1 DEF SInv, StatementInv, Gone, ClientInv, ClientTypeOK, EndWalk
<1>4. ASSUME ~ excused PROVE Pending' = Pending /\ WalkInv'
  <2>1. WalkInv /\ walks \in Seq(WalkType)
    BY <1>1, <1>4 DEF SInv, StatementInv, WalkInv, GoodWalks
  <2>2. Head(walks) \in WalkType /\ ~ Head(walks).once /\ n \in Int
    <3>1. Head(walks) \in WalkType /\ Head(walks) = walks[1] /\ 1 \in 1 .. Len(walks)
      BY <1>3, <2>1, TailIs
    <3>2. Head(walks).once => Head(walks).to = {}
      BY <2>1, <3>1 DEF WalkInv, OneRowWalk
    <3> QED
      BY <1>2, <3>1, <3>2 DEF WalkType
  <2>3. Pending \subseteq Live /\ DOMAIN before \subseteq Int
    BY <1>1, <1>3, <1>4, PendingLive
  <2>4. c \in Int
    BY CursorKeys DEF SInv
  <2>5. ASSUME NEW k \in Pending PROVE ~ Passes(Head(walks), k)
    <3>1. SUFFICES ASSUME Passes(Head(walks), k) PROVE FALSE
      OBVIOUS
    <3>2. k <= n /\ k \in Int
      BY <2>2, <2>3, <3>1 DEF Passes, Pending
    <3>3. ~ (c <= k)
      BY <1>2, <2>2, <2>4, <3>2
    <3>4. InWalks(Tail(walks), k)
      BY <1>1, <3>3 DEF Pending, Ahead
    <3> QED
      BY <1>3, <2>1, <3>1, <3>2, <3>4, WalksSplit DEF WalkInv
  <2> QED
    BY <1>1, <1>3, <1>4, <2>5, WalkEnds
<1> QED
  BY <1>1, <1>3, <1>4, BetweenRows

LEMMA NextStep == ASSUME SInv, NEW k \in cursor, NextRow(k) PROVE StatementInv'
<1>1. /\ pc = "next" /\ call = Idle /\ UNCHANGED <<vars, stmt, before, want, out, excused>>
      /\ IF Head(walks).once THEN EndWalk ELSE GoTo(Behind(k))
  BY DEF NextRow, Unchanged
<1>2. Gone = {} /\ walks # << >> /\ cursor = {k} /\ k \in Int
  BY <1>1, OneCursor DEF SInv, StatementInv, Gone, ClientInv, ClientTypeOK
<1>3. (\A c, d \in cursor' : c = d) /\ pc' \in {"locate", "turn"}
  <2>1. Behind(k) \in SUBSET Live /\ (EndWalk \/ GoTo(Behind(k)))
    BY <1>1 DEF Behind
  <2> QED
    BY <2>1, GoesToOne
<1>4. ASSUME ~ excused PROVE Pending' = Pending /\ WalkInv'
  <2>1. WalkInv /\ walks \in Seq(WalkType)
    BY <1>1, <1>4 DEF SInv, StatementInv, WalkInv, GoodWalks
  <2>2. Pending \subseteq Live /\ DOMAIN before \subseteq Int /\ Live \subseteq DOMAIN before
    BY <1>1, <1>2, <1>4, PendingLive
  <2>3. ASSUME NEW l \in Pending, Passes(Head(walks), l) PROVE k < l
    <3>1. l \in Int
      BY <2>2
    <3>2. ~ InWalks(Tail(walks), l)
      <4>1. InWalks(Tail(walks), l) => l < l
        BY <1>2, <2>1, <2>3, <3>1, WalksSplit DEF WalkInv
      <4> QED
        BY <3>1, <4>1
    <3> QED
      BY <1>1, <1>2, <3>2 DEF Pending, Ahead
  <2>4. CASE Head(walks).once
    <3>1. Head(walks).from = {k}
      BY <1>1, <1>2, <2>1, <2>4 DEF WalkInv
    <3>2. ASSUME NEW l \in Pending, Passes(Head(walks), l) PROVE FALSE
      <4>1. k < l
        BY <2>3, <3>2
      <4>2. l = k
        BY <2>4, <3>1, <3>2 DEF Passes
      <4> QED
        BY <1>2, <4>1, <4>2
    <3> QED
      BY <1>1, <1>2, <1>4, <2>4, <3>2, WalkEnds
  <2>5. CASE ~ Head(walks).once
    <3> DEFINE S == Behind(k)
    <3>1. S \in SUBSET Live /\ GoTo(S)
      BY <1>1, <2>5 DEF Behind
    <3>2. ASSUME NEW l \in Pending, Passes(Head(walks), l) PROVE l \in S
      BY <2>2, <2>3, <3>2 DEF Behind
    <3>3. ASSUME NEW l \in S, NEW n \in Head(walks).from PROVE l >= n
      <4>1. l > k /\ l \in Int
        BY <2>2 DEF Behind
      <4>2. k >= n
        BY <1>1, <1>2, <2>1 DEF WalkInv
      <4>3. n \in Int
        <5>1. Head(walks) \in WalkType
          BY <1>2, <2>1, TailIs
        <5> QED
          BY <5>1 DEF WalkType
      <4> QED
        BY <1>2, <4>1, <4>2, <4>3
    <3>4. \A c \in cursor, l \in S : c < l
      BY <1>2, <2>2 DEF Behind
    <3> HIDE DEF S
    <3> QED
      BY <1>1, <1>2, <1>4, <2>5, <3>1, <3>2, <3>3, <3>4, WalkGoes
  <2> QED
    BY <2>4, <2>5
<1> QED
  BY <1>1, <1>2, <1>3, <1>4, BetweenRows

\* The row that a turn of a loop handles is the first one that is left.
LEMMA TurnPasses ==
  ASSUME SInv, ~ excused, pc = "turn", NEW c \in cursor, \A n \in Head(walks).to : c <= n
  PROVE  Passes(Head(walks), c)
<1>1. WalkInv /\ cursor = {c}
  BY OneCursor DEF SInv, StatementInv
<1> QED
  BY <1>1 DEF WalkInv, Passes

LEMMA FirstLeft ==
  ASSUME SInv, ~ excused, pc \in {"turn", "put"}, NEW c \in cursor, Passes(Head(walks), c)
  PROVE  c \in Pending /\ \A k \in Pending : c <= k
<1>1. /\ WalkInv /\ GoodWalks(walks) /\ walks # << >> /\ cursor = {c} /\ c \in DOMAIN before
      /\ c \in Int /\ DOMAIN before \subseteq Int
  <2>1. WalkInv /\ walks # << >> /\ DOMAIN before \subseteq Int
    BY DEF SInv, StatementInv, ClientInv, ClientTypeOK
  <2> QED
    BY <2>1, OneCursor DEF WalkInv
<1>2. c \in Pending
  BY <1>1 DEF Pending, Ahead
<1>3. ASSUME NEW k \in Pending PROVE c <= k
  <2>1. k \in Int
    BY <1>1 DEF Pending
  <2>2. InWalks(Tail(walks), k) \/ c <= k
    BY <1>1 DEF Pending, Ahead
  <2>3. InWalks(Tail(walks), k) => c < k
    BY <1>1, <2>1, WalksSplit
  <2> QED
    BY <1>1, <2>1, <2>2, <2>3
<1> QED
  BY <1>2, <1>3

\* The step that ends with this row
LEMMA RowDone ==
  ASSUME SInv, ~ excused, pc \in {"turn", "put"}, NEW c \in cursor, Passes(Head(walks), c),
         pc' = "next", UNCHANGED <<walks, cursor, before, want>>
  PROVE  /\ Handled' = Handled \cup {c} /\ c \in want /\ \A k \in Handled : k < c
         /\ OrderInv' /\ WalkInv'
<1>1. /\ OrderInv /\ WalkInv /\ walks # << >> /\ cursor = {c} /\ c \in DOMAIN before
      /\ c \in Int /\ DOMAIN before \subseteq Int
  <2>1. OrderInv /\ WalkInv /\ walks # << >> /\ DOMAIN before \subseteq Int
    BY DEF SInv, StatementInv, ClientInv, ClientTypeOK
  <2> QED
    BY <2>1, OneCursor DEF WalkInv
<1>2. c \in Pending /\ \A k \in Pending : c <= k
  BY FirstLeft
<1>3. Pending' = Pending \ {c}
  <2>1. \A k : Ahead(k)' <=> InWalks(Tail(walks), k) \/ (Passes(Head(walks), k) /\ c < k)
    BY <1>1 DEF Ahead
  <2>2. \A k : Ahead(k) <=> InWalks(Tail(walks), k) \/ (Passes(Head(walks), k) /\ c <= k)
    BY <1>1 DEF Ahead
  <2>3. ASSUME NEW k \in DOMAIN before PROVE Ahead(k)' <=> Ahead(k) /\ k # c
    <3>1. InWalks(Tail(walks), k) => c < k
      BY <1>1, WalksSplit DEF WalkInv
    <3> QED
      BY <1>1, <2>1, <2>2, <3>1
  <2> QED
    BY <2>3 DEF Pending
<1>4. Handled' = Handled \cup {c} /\ c \in want /\ \A k \in Handled : k < c
  BY <1>1, <1>2, <1>3 DEF Handled, OrderInv
<1>5. OrderInv'
  <2>1. Pending' \subseteq want /\ want \subseteq DOMAIN before
    BY <1>1, <1>3 DEF OrderInv
  <2>2. ASSUME NEW k \in Handled', NEW l \in Pending' PROVE k < l
    <3>1. l \in Pending /\ l # c /\ c <= l /\ l \in Int
      BY <1>1, <1>2, <1>3 DEF Pending
    <3>2. CASE k = c
      BY <1>1, <3>1, <3>2
    <3>3. CASE k \in Handled
      BY <1>1, <3>1, <3>3 DEF OrderInv
    <3> QED
      BY <1>4, <3>2, <3>3
  <2> QED
    BY <2>1, <2>2 DEF OrderInv
<1>6. WalkInv'
  BY <1>1, <1>4 DEF WalkInv
<1> QED
  BY <1>4, <1>5, <1>6

LEMMA AppendIs ==
  ASSUME NEW T, NEW s \in Seq(T), NEW e \in T
  PROVE  /\ Append(s, e) \in Seq(T) /\ ToSet(Append(s, e)) = ToSet(s) \cup {e}
         /\ DOMAIN Append(s, e) = 1 .. Len(s) + 1 /\ Append(s, e)[Len(s) + 1] = e
         /\ Len(s) \in Nat /\ DOMAIN s = 1 .. Len(s) /\ \A i \in 1 .. Len(s) : Append(s, e)[i] = s[i]
<1>1. /\ Len(s) \in Nat /\ DOMAIN s = 1 .. Len(s) /\ DOMAIN Append(s, e) = 1 .. Len(s) + 1
      /\ Append(s, e)[Len(s) + 1] = e /\ \A i \in 1 .. Len(s) : Append(s, e)[i] = s[i]
      /\ Append(s, e) \in Seq(T)
  OBVIOUS
<1>2. ToSet(s) = {s[i] : i \in 1 .. Len(s)} /\ ToSet(Append(s, e)) = {Append(s, e)[i] : i \in 1 .. Len(s) + 1}
  BY <1>1 DEF ToSet
<1>3. \A i : i \in 1 .. Len(s) + 1 <=> i \in 1 .. Len(s) \/ i = Len(s) + 1
  BY <1>1
<1>4. ToSet(Append(s, e)) = ToSet(s) \cup {e}
  BY <1>1, <1>2, <1>3
<1> QED
  BY <1>1, <1>4

LEMMA QueryStep == ASSUME SInv, NEW c \in cursor, QueryRow(c) PROVE StatementInv'
<1>1. /\ pc = "turn" /\ stmt.kind = "query" /\ \A n \in Head(walks).to : c <= n
      /\ out' = Append(out, <<c, GetValue(item[c].loc)>>) /\ pc' = "next"
      /\ UNCHANGED <<vars, walks, cursor, excused, stmt, before, want>>
  BY DEF QueryRow, Turn, Unchanged
<1>2. /\ UNCHANGED <<item, call>> /\ Live' = Live /\ call = Idle /\ Gone = {} /\ Gone' = {}
  BY <1>1 DEF vars, Live, SInv, StatementInv, Gone
<1>3. ASSUME ~ excused PROVE OrderInv' /\ WalkInv' /\ TableInv' /\ OutInv'
  <2>1. OrderInv /\ TableInv /\ OutInv
    BY <1>1, <1>3 DEF SInv, StatementInv
  <2>2. Passes(Head(walks), c)
    BY <1>1, <1>3, TurnPasses
  <2>3. /\ Handled' = Handled \cup {c} /\ c \in want /\ \A k \in Handled : k < c
        /\ OrderInv' /\ WalkInv'
    BY <1>1, <1>3, <2>2, RowDone
  <2>4. TableInv'
    BY <1>1, <1>2, <2>1, <2>3 DEF TableInv
  <2>5. c \in Live /\ c \in Key /\ c \in DOMAIN before
    BY <1>1, <1>2, <2>1, <2>3, OneCursor DEF OrderInv, TableInv
  <2>6. GetValue(item[c].loc) = before[c] /\ before[c] \in Val
    <3>1. c \in DOMAIN item /\ GetValue(item[c].loc) = item[c].val /\ item[c].val \in Val
      BY <2>5, ValueIs DEF SInv, ClientInv, Inv, TypeOK, Item, Live
    <3>2. item[c].val = before[c]
      BY <1>1, <2>1, <2>5 DEF TableInv
    <3> QED
      BY <3>1, <3>2
  <2> DEFINE row == <<c, before[c]>>
  <2>7. out \in Seq(Key \X Val) /\ row \in Key \X Val /\ out' = Append(out, row)
    BY <1>1, <2>1, <2>5, <2>6 DEF OutInv
  <2>8. ToSet(out') = RowsOf(before, Handled) \cup {row}
    <3>1. ToSet(out) = RowsOf(before, Handled)
      BY <1>1, <2>1 DEF OutInv
    <3> HIDE DEF row
    <3> QED
      BY <2>7, <3>1, AppendIs
  <2>9. ToSet(out') = RowsOf(before', Handled')
    BY <1>1, <2>3, <2>8 DEF RowsOf
  <2>10. InOrder(out')
    <3>1. ASSUME NEW i \in 1 .. Len(out) PROVE out[i][1] < c
      <4>1. out[i] \in RowsOf(before, Handled)
        BY <1>1, <2>1, <2>7, <3>1 DEF OutInv, ToSet
      <4>2. out[i][1] \in Handled
        BY <4>1 DEF RowsOf
      <4> QED
        BY <2>3, <4>2
    <3>2. /\ DOMAIN out' = 1 .. Len(out) + 1 /\ out'[Len(out) + 1] = row /\ Len(out) \in Nat
          /\ DOMAIN out = 1 .. Len(out) /\ \A i \in 1 .. Len(out) : out'[i] = out[i]
      <4> HIDE DEF row
      <4> QED
        BY <2>7, AppendIs
    <3>3. row[1] = c
      OBVIOUS
    <3>4. InOrder(out)
      BY <2>1 DEF OutInv
    <3>5. SUFFICES ASSUME NEW i \in 1 .. Len(out) + 1, NEW j \in 1 .. Len(out) + 1, i < j
                   PROVE  out'[i][1] < out'[j][1]
      BY <3>2 DEF InOrder
    <3>6. i \in 1 .. Len(out)
      BY <3>2, <3>5
    <3>7. CASE j = Len(out) + 1
      BY <3>1, <3>2, <3>3, <3>6, <3>7
    <3>8. CASE j \in 1 .. Len(out)
      BY <3>2, <3>4, <3>5, <3>6, <3>8 DEF InOrder
    <3> QED
      BY <3>2, <3>5, <3>7, <3>8
  <2>11. out' \in Seq(Key \X Val)
    <3> HIDE DEF row
    <3> QED
      BY <2>7, AppendIs
  <2>12. OutInv'
    BY <2>9, <2>10, <2>11 DEF OutInv
  <2> QED
    BY <2>3, <2>4, <2>12
<1>4. \A d, e \in cursor' : d = e
  BY <1>1 DEF SInv, StatementInv
<1> QED
  BY <1>1, <1>2, <1>3, <1>4 DEF SInv, StatementInv

LEMMA RemovesRow ==
  ASSUME ClientInv, NEW k, RemoveItem(k)
  PROVE  k \in Live /\ Live' = Live \ {k} /\ (\A l \in Live' : item'[l].val = item[l].val) /\ call' = call /\ call = Idle
<1>1. /\ k \in DOMAIN item /\ k \in Live /\ item' = [item EXCEPT ![k].live = FALSE] /\ call' = call /\ call = Idle
  BY DEF RemoveItem, Live
<1>2. item \in [DOMAIN item -> Item]
  BY DEF ClientInv, Inv, TypeOK
<1>3. DOMAIN item' = DOMAIN item /\ \A l \in DOMAIN item : l # k => item'[l] = item[l]
  BY <1>1, <1>2
<1>4. item'[k].live = FALSE
  BY <1>1, <1>2 DEF Item
<1>5. Live' = Live \ {k}
  BY <1>3, <1>4 DEF Live
<1> QED
  BY <1>1, <1>3, <1>5 DEF Live

LEMMA DeleteStep == ASSUME SInv, NEW c \in cursor, DeleteRow(c) PROVE StatementInv'
<1>1. /\ pc = "turn" /\ stmt.kind = "delete" /\ \A n \in Head(walks).to : c <= n
      /\ RemoveItem(c) /\ pc' = "next"
      /\ UNCHANGED <<walks, cursor, excused, stmt, before, want, out>>
  BY DEF DeleteRow, Turn, Unchanged
<1>2. /\ c \in Live /\ Live' = Live \ {c} /\ (\A l \in Live' : item'[l].val = item[l].val)
      /\ call = Idle /\ call' = Idle
  BY <1>1, RemovesRow DEF SInv
<1>3. Gone = {} /\ Gone' = {}
  BY <1>1, <1>2 DEF Gone
<1>4. ASSUME ~ excused PROVE OrderInv' /\ WalkInv' /\ TableInv' /\ OutInv'
  <2>1. TableInv /\ OutInv
    BY <1>1, <1>4 DEF SInv, StatementInv
  <2>2. Passes(Head(walks), c)
    BY <1>1, <1>4, TurnPasses
  <2>3. Handled' = Handled \cup {c} /\ OrderInv' /\ WalkInv'
    BY <1>1, <1>4, <2>2, RowDone
  <2>4. TableInv'
    BY <1>1, <1>2, <1>3, <2>1, <2>3 DEF TableInv
  <2>5. OutInv'
    BY <1>1, <2>1 DEF OutInv
  <2> QED
    BY <2>3, <2>4, <2>5
<1>5. \A d, e \in cursor' : d = e
  BY <1>1 DEF SInv, StatementInv
<1> QED
  BY <1>1, <1>2, <1>4, <1>5 DEF SInv, StatementInv

\* update() takes the row out, and is not through with it.
LEMMA UpdateStep == ASSUME SInv, NEW c \in cursor, UpdateRow(c) PROVE StatementInv'
<1>1. /\ pc = "turn" /\ stmt.kind = "update" /\ \A n \in Head(walks).to : c <= n
      /\ RemoveItem(c) /\ pc' = "put"
      /\ UNCHANGED <<walks, cursor, excused, stmt, before, want, out>>
  BY DEF UpdateRow, Turn, Unchanged
<1>2. /\ c \in Live /\ Live' = Live \ {c} /\ (\A l \in Live' : item'[l].val = item[l].val)
      /\ call = Idle /\ call' = Idle
  BY <1>1, RemovesRow DEF SInv
<1>3. Gone = {} /\ Gone' = {c} /\ cursor = {c}
  BY <1>1, <1>2, OneCursor DEF Gone
<1>4. ASSUME ~ excused PROVE OrderInv' /\ WalkInv' /\ TableInv' /\ OutInv'
  <2>1. OrderInv /\ WalkInv /\ TableInv /\ OutInv
    BY <1>1, <1>4 DEF SInv, StatementInv
  <2>2. Passes(Head(walks), c)
    BY <1>1, <1>4, TurnPasses
  <2>3. Pending' = Pending /\ Handled' = Handled
    <3>1. \A k : Ahead(k)' <=> Ahead(k)
      BY <1>1 DEF Ahead
    <3> QED
      BY <1>1, <3>1 DEF Pending, Handled
  <2>4. OrderInv'
    BY <1>1, <2>1, <2>3 DEF OrderInv
  <2>5. WalkInv'
    BY <1>1, <1>3, <2>1, <2>2 DEF WalkInv
  <2>6. TableInv'
    BY <1>1, <1>2, <1>3, <2>1, <2>3 DEF TableInv
  <2>7. OutInv'
    BY <1>1, <2>1, <2>3 DEF OutInv
  <2> QED
    BY <2>4, <2>5, <2>6, <2>7
<1>5. \A d, e \in cursor' : d = e
  BY <1>1 DEF SInv, StatementInv
<1> QED
  BY <1>1, <1>2, <1>4, <1>5 DEF SInv, StatementInv

\* ... before it has called put() for the row again
LEMMA UpdatePutStep == ASSUME SInv, NEW c \in cursor, UpdatePut(c) PROVE StatementInv'
<1>1. /\ pc = "put" /\ pc' = "next" /\ item' = item
      /\ call' = [key |-> c, val |-> stmt.val, at |-> Hint(c)]
      /\ UNCHANGED <<walks, cursor, excused, stmt, before, want, out>>
  BY DEF UpdatePut, PutCall, Unchanged
<1>2. call' # Idle /\ call'.key = c /\ call'.val = stmt.val
  <2>1. "key" \in DOMAIN call' /\ "key" \notin DOMAIN Idle
    BY <1>1 DEF Idle
  <2> QED
    BY <1>1, <2>1
<1>3. Gone = {c} /\ Gone' = {c} /\ cursor = {c} /\ Live' = Live /\ stmt.kind = "update"
  BY <1>1, <1>2, OneCursor DEF Gone, Live, SInv, ClientInv, Running
<1>4. ASSUME ~ excused PROVE OrderInv' /\ WalkInv' /\ TableInv' /\ OutInv'
  <2>1. WalkInv /\ TableInv /\ OutInv
    BY <1>1, <1>4 DEF SInv, StatementInv
  <2>2. Passes(Head(walks), c)
    BY <1>1, <2>1 DEF WalkInv
  <2>3. Handled' = Handled \cup {c} /\ OrderInv' /\ WalkInv'
    BY <1>1, <1>4, <2>2, RowDone
  <2>4. TableInv'
    BY <1>1, <1>3, <2>1, <2>3 DEF TableInv
  <2>5. OutInv'
    BY <1>1, <1>3, <2>1 DEF OutInv
  <2> QED
    BY <2>3, <2>4, <2>5
<1>5. \A d, e \in cursor' : d = e
  BY <1>1 DEF SInv, StatementInv
<1> QED
  BY <1>1, <1>2, <1>3, <1>4, <1>5 DEF SInv, StatementInv

LEMMA TryStep == ASSUME SInv, TryNext, UNCHANGED clientVars PROVE StatementInv'
<1>1. /\ call # Idle /\ item' = item
      /\ call' = [call EXCEPT !.at = IF Tried.next # 0 THEN Tried.next ELSE Counted]
      /\ UNCHANGED <<pc, stmt, walks, cursor, out, before, want, excused>>
  BY DEF TryNext, clientVars
<1>2. call \in [key : Key, val : Val, at : 2 .. countOfBlock]
  BY <1>1 DEF SInv, ClientInv, Inv, TypeOK
<1>3. call'.key = call.key /\ call'.val = call.val /\ "key" \in DOMAIN call' /\ "key" \notin DOMAIN Idle
  BY <1>1, <1>2 DEF Idle
<1>4. call' # Idle
  BY <1>3
<1>5. Gone' = Gone /\ Live' = Live /\ Pending' = Pending /\ Handled' = Handled
  <2>1. \A k : Ahead(k)' <=> Ahead(k)
    BY <1>1 DEF Ahead
  <2>2. Pending' = Pending
    BY <1>1, <2>1 DEF Pending
  <2> QED
    BY <1>1, <1>4, <2>2 DEF Gone, Live, Handled
<1>6. OrderInv /\ WalkInv /\ TableInv /\ OutInv => OrderInv' /\ WalkInv' /\ TableInv' /\ OutInv'
  BY <1>1, <1>5 DEF OrderInv, WalkInv, TableInv, OutInv
<1> QED
  BY <1>1, <1>3, <1>4, <1>6 DEF SInv, StatementInv

\* The row is back in the table with its new value.
LEMMA StoreStep == ASSUME SInv, NEW nodes, StoreValue(nodes), UNCHANGED clientVars PROVE StatementInv'
<1> DEFINE c == call.key
<1>1. /\ call # Idle /\ call' = Idle
      /\ DOMAIN item' = DOMAIN item \cup {c}
      /\ \A k \in DOMAIN item : k # c => item'[k] = item[k]
      /\ item'[c].live = TRUE /\ item'[c].val = call.val
      /\ UNCHANGED <<pc, stmt, walks, cursor, out, before, want, excused>>
  BY DEF StoreValue, clientVars
<1>2. Live' = Live \cup {c}
  BY <1>1 DEF Live
<1>3. Pending' = Pending /\ Handled' = Handled
  <2>1. \A k : Ahead(k)' <=> Ahead(k)
    BY <1>1 DEF Ahead
  <2> QED
    BY <1>1, <2>1 DEF Pending, Handled
<1>4. ASSUME pc # "idle", ~ excused PROVE OrderInv' /\ WalkInv' /\ TableInv' /\ OutInv'
  <2>1. /\ OrderInv /\ WalkInv /\ TableInv /\ OutInv
        /\ pc = "next" /\ stmt.kind = "update" /\ c \in cursor /\ call.val = stmt.val
    BY <1>1, <1>4 DEF SInv, StatementInv
  <2>2. cursor = {c}
    BY <2>1, OneCursor
  <2>3. Gone = {c} /\ Gone' = {} /\ c \in DOMAIN before /\ c \in Handled
    BY <1>1, <2>1, <2>2 DEF Gone, WalkInv
  <2>4. OrderInv' /\ WalkInv' /\ OutInv'
    BY <1>1, <1>3, <2>1 DEF OrderInv, WalkInv, OutInv
  <2>5. Live' = DOMAIN before
    BY <1>2, <2>1, <2>3 DEF TableInv
  <2>6. ASSUME NEW k \in Live' PROVE item'[k].val = IF k \in Handled THEN stmt.val ELSE before[k]
    <3>1. CASE k = c
      BY <1>1, <2>1, <2>3, <3>1
    <3>2. CASE k # c
      <4>1. k \in Live /\ item'[k] = item[k]
        BY <1>1, <1>2, <2>6, <3>2 DEF Live
      <4> QED
        BY <2>1, <4>1 DEF TableInv
    <3> QED
      BY <3>1, <3>2
  <2>7. TableInv'
    BY <1>1, <1>3, <2>1, <2>3, <2>5, <2>6 DEF TableInv
  <2> QED
    BY <2>4, <2>7
<1> QED
  BY <1>1, <1>4 DEF SInv, StatementInv

LEMMA PutSteps == ASSUME SInv, RunPut \/ FailPut PROVE StatementInv'
<1>1. CASE RunPut
  BY <1>1, TryStep, StoreStep DEF RunPut
<1>2. CASE FailPut
  <2>1. /\ call # Idle /\ call' = Idle /\ excused' = (excused \/ pc # "idle")
        /\ UNCHANGED <<pc, stmt, walks, cursor, out, before, want>>
    BY <1>2 DEF FailPut, PutError, Unchanged
  <2> QED
    BY <2>1 DEF SInv, StatementInv
<1> QED
  BY <1>1, <1>2

LEMMA InsertStep == ASSUME SInv, NEW k, NEW v, InsertRow(k, v) PROVE StatementInv'
BY DEF InsertRow, clientVars, SInv, StatementInv

\* The rows that a statement is called for are those that its walks pass.
LEMMA ExecuteStep ==
  ASSUME SInv, NEW kind \in {"query", "delete", "update"}, NEW v, NEW cond \in Condition,
         Execute(kind, v, cond)
  PROVE  StatementInv'
<1> DEFINE r == conditionParse(cond)
<1>1. /\ pc = "idle" /\ call = Idle /\ pc' = "locate" /\ stmt' = [kind |-> kind, val |-> v]
      /\ walks' = Walks(r) /\ excused' = Slip(cond, r) /\ want' = {k \in Live : Selects(cond, k)}
      /\ before' = Table /\ UNCHANGED <<vars, cursor, out>>
  BY DEF Execute
<1>2. /\ UNCHANGED <<item, call>> /\ Live' = Live /\ Gone' = {} /\ out' = << >>
      /\ stmt'.kind = kind
  BY <1>1 DEF vars, Live, Gone, SInv, StatementInv
<1>3. before' = [k \in Live |-> item[k].val] /\ DOMAIN before' = Live /\ Live \subseteq Key
  BY <1>1, TableIs, CursorKeys DEF SInv
<1>4. ASSUME ~ excused' PROVE OrderInv' /\ WalkInv' /\ TableInv' /\ OutInv'
  <2>1. /\ GoodRange(r) /\ r.flag \notin {"EQ_BOTH", "EQ_LO", "EQ_HI", "ALL"}
        /\ ~ BoundForId(cond, r) /\ (r.flag = "EQ_FIRST" => r.a \in Live)
    BY <1>1, <1>4, ParseType DEF Slip
  <2>2. \A k \in Live : InRange(k, r) <=> Selects(cond, k)
    BY <1>3, <2>1, ParseMeans
  <2> HIDE DEF r
  <2>3. /\ GoodWalks(Walks(r))
        /\ \A k \in Int : InWalks(Walks(r), k) <=> InRange(k, r)
        /\ \A i \in 1 .. Len(Walks(r)) :
             Walks(r)[i].once => r.flag = "EQ_FIRST" /\ Walks(r)[i].to = {} /\ Walks(r)[i].from = {r.a}
    BY <2>1, WalksOfRange
  <2>4. Pending' = want' /\ Handled' = {}
    <3>1. \A k : Ahead(k)' <=> InWalks(Walks(r), k)
      BY <1>1 DEF Ahead
    <3>2. Live \subseteq Int
      BY <1>3
    <3>3. Pending' = want'
      BY <1>1, <1>3, <2>2, <2>3, <3>1, <3>2 DEF Pending
    <3> QED
      BY <3>3 DEF Handled
  <2>5. OrderInv'
    BY <1>1, <1>3, <2>4 DEF OrderInv
  <2>6. WalkInv'
    BY <1>1, <1>3, <2>1, <2>3 DEF WalkInv, OneRowWalk
  <2>7. TableInv'
    BY <1>2, <1>3, <2>4 DEF TableInv
  <2>8. OutInv'
    <3>1. out' \in Seq(Key \X Val) /\ DOMAIN out' = {}
      BY <1>2
    <3> QED
      BY <2>4, <3>1 DEF OutInv, InOrder, ToSet, RowsOf
  <2> QED
    BY <2>5, <2>6, <2>7, <2>8
<1>5. \A d, e \in cursor' : d = e
  BY <1>1 DEF SInv, StatementInv
<1>6. DOMAIN before' \subseteq Key /\ before' = [k \in DOMAIN before' |-> before'[k]]
  BY <1>3
<1> QED
  BY <1>1, <1>2, <1>4, <1>5, <1>6 DEF SInv, StatementInv

LEMMA FinishStep == ASSUME SInv, Finish PROVE StatementInv'
<1>1. /\ pc = "locate" /\ walks = << >> /\ pc' = "done"
      /\ UNCHANGED <<vars, stmt, before, want, out, excused, walks, cursor>>
  BY DEF Finish, Unchanged
<1>2. call = Idle /\ Gone = {} /\ \A d, e \in cursor' : d = e
  BY <1>1 DEF SInv, StatementInv, Gone
<1>3. ASSUME ~ excused PROVE Pending' = Pending /\ WalkInv'
  <2>1. \A k : ~ Ahead(k) /\ ~ Ahead(k)'
    BY <1>1 DEF Ahead, InWalks
  <2>2. Pending' = {} /\ Pending = {}
    BY <2>1 DEF Pending
  <2>3. WalkInv
    BY <1>1, <1>3 DEF SInv, StatementInv
  <2> QED
    BY <1>1, <2>2, <2>3 DEF WalkInv
<1> QED
  BY <1>1, <1>2, <1>3, BetweenRows

LEMMA ReturnStep == ASSUME SInv, Return PROVE StatementInv'
BY DEF Return, vars, SInv, StatementInv

LEMMA StayStep == ASSUME SInv, UNCHANGED allVars PROVE StatementInv'
<1>1. UNCHANGED <<item, call, pc, stmt, walks, cursor, out, before, want, excused>>
  BY DEF allVars, vars, clientVars
<1>2. Gone' = Gone /\ Live' = Live /\ Pending' = Pending /\ Handled' = Handled
  <2>1. \A k : Ahead(k)' <=> Ahead(k)
    BY <1>1 DEF Ahead
  <2> QED
    BY <1>1, <2>1 DEF Gone, Live, Pending, Handled
<1>3. OrderInv /\ WalkInv /\ TableInv /\ OutInv => OrderInv' /\ WalkInv' /\ TableInv' /\ OutInv'
  BY <1>1, <1>2 DEF OrderInv, WalkInv, TableInv, OutInv
<1> QED
  BY <1>1, <1>3 DEF SInv, StatementInv

LEMMA StatementNext == SInv /\ [ClientNext]_allVars => SInv'
<1> SUFFICES ASSUME SInv, [ClientNext]_allVars PROVE SInv'
  OBVIOUS
<1>1. ClientInv'
  BY ClientNextInv DEF SInv
<1>2. ASSUME NEW k \in Key, NEW v \in Val, InsertRow(k, v) PROVE StatementInv'
  BY <1>2, InsertStep
<1>3. ASSUME NEW cond \in Condition, NEW v, NEW kind \in {"query", "delete", "update"}, Execute(kind, v, cond)
      PROVE  StatementInv'
  BY <1>3, ExecuteStep
<1>4. ASSUME NEW cond \in Condition, \E kind \in {"query", "delete"} : Execute(kind, {}, cond) PROVE StatementInv'
  BY <1>3, <1>4
<1>5. ASSUME NEW cond \in Condition, \E v \in Val : Execute("update", v, cond) PROVE StatementInv'
  BY <1>3, <1>5
<1>6. ASSUME Locate \/ Leave \/ RunPut \/ FailPut \/ Finish \/ Return PROVE StatementInv'
  BY <1>6, LocateStep, LeaveStep, PutSteps, FinishStep, ReturnStep
<1>7. ASSUME NEW c \in cursor, QueryRow(c) \/ DeleteRow(c) \/ UpdateRow(c) \/ UpdatePut(c) \/ NextRow(c)
      PROVE  StatementInv'
  BY <1>7, QueryStep, DeleteStep, UpdateStep, UpdatePutStep, NextStep
<1>8. ASSUME UNCHANGED allVars PROVE StatementInv'
  BY <1>8, StayStep
<1>9. StatementInv'
  BY <1>2, <1>4, <1>5, <1>6, <1>7, <1>8 DEF ClientNext, Progress
<1> QED
  BY <1>1, <1>9 DEF SInv

LEMMA StatementInit == ClientInit => SInv
<1> SUFFICES ASSUME ClientInit PROVE SInv
  OBVIOUS
<1>1. StatementInv
  BY DEF ClientInit, Init, StatementInv
<1> QED
  BY <1>1, ClientInitInv DEF SInv

\* When it has made all its walks, no row is left to it and none is out.
LEMMA StatementRight == SInv => StatementIsRight
<1> SUFFICES ASSUME SInv, pc = "done", ~ excused
             PROVE  CASE stmt.kind = "query"  -> InOrder(out) /\ ToSet(out) = RowsOf(before, want) /\ Table = before
                      [] stmt.kind = "delete" -> Table = Restrict(before, DOMAIN before \ want)
                      [] stmt.kind = "update" ->
                           Table = [k \in DOMAIN before |-> IF k \in want THEN stmt.val ELSE before[k]]
  BY DEF StatementIsRight
<1>1. Handled = want /\ Gone = {}
  <2>1. \A k : ~ Ahead(k)
    BY DEF Ahead
  <2> QED
    BY <2>1 DEF Pending, Handled, Gone
<1>2. TableInv /\ OutInv /\ before = [k \in DOMAIN before |-> before[k]] /\ stmt.kind \in {"query", "delete", "update"}
  BY DEF SInv, StatementInv
<1>3. Table = [k \in Live |-> item[k].val]
  BY TableIs DEF SInv
<1>4. CASE stmt.kind = "query"
  <2>1. Live = DOMAIN before /\ \A k \in Live : item[k].val = before[k]
    BY <1>1, <1>2, <1>4 DEF TableInv
  <2>2. Table = before
    BY <1>2, <1>3, <2>1
  <2> QED
    BY <1>1, <1>2, <1>4, <2>2 DEF OutInv
<1>5. CASE stmt.kind = "delete"
  <2>1. Live = DOMAIN before \ want /\ \A k \in Live : item[k].val = before[k]
    BY <1>1, <1>2, <1>5 DEF TableInv
  <2>2. Restrict(before, DOMAIN before \ want) = [k \in DOMAIN before \ want |-> before[k]]
    BY DEF Restrict
  <2>3. Table = Restrict(before, DOMAIN before \ want)
    BY <1>3, <2>1, <2>2
  <2> QED
    BY <1>5, <2>3
<1>6. CASE stmt.kind = "update"
  <2>1. Live = DOMAIN before /\ \A k \in Live : item[k].val = IF k \in want THEN stmt.val ELSE before[k]
    BY <1>1, <1>2, <1>6 DEF TableInv
  <2>2. Table = [k \in DOMAIN before |-> IF k \in want THEN stmt.val ELSE before[k]]
    BY <1>3, <2>1
  <2> QED
    BY <1>6, <2>2
<1> QED
  BY <1>2, <1>4, <1>5, <1>6

-----------------------------------------------------------------------------
(* The theorems                                                            *)

LEMMA ClientInvHolds == ClientSpec => []ClientInv
BY ClientInitInv, ClientNextInv, PTL DEF ClientSpec

\* While a loop runs its iterator stands on an item, though update() removes
\* the row below it, puts it again and that put() may fail.
THEOREM ClientTypeCorrect == ClientSpec => []ClientTypeOK
<1>1. ClientInv => ClientTypeOK
  BY DEF ClientInv
<1> QED
  BY <1>1, ClientInvHolds, PTL

\* The client implements the specification of the tree with data blocks: it
\* calls put() and remove() only as ValueStore allows.
THEOREM ClientUsesStore == ClientSpec => Spec
<1>1. ClientInit => Init
  BY DEF ClientInit
<1>2. ClientInv /\ [ClientNext]_allVars => [Next]_vars
  BY StepOfStore
<1> QED
  BY <1>1, <1>2, ClientInvHolds, PTL DEF ClientSpec, Spec

\* So every value of its rows stays intact.
THEOREM ClientValuesTheorem == ClientSpec => []ValuesIntact
BY ClientUsesStore, ValuesTheorem

\* For every set of numbers and ids, the range of a statement has the ids that
\* its condition selects, but for one branch of conditionParse().
THEOREM RangeTheorem == ClientSpec => []RangeIsRight
<1>1. RangeIsRight
  <2>1. Key \subseteq Int
    BY KeyAssumption
  <2> QED
    BY <2>1, ParseMeans DEF RangeIsRight
<1> QED
  BY <1>1, PTL

\* Whatever the keys, the values and the layout of the blocks: when a statement
\* ends, query() has returned the rows that its condition selects, in order and
\* with the values that were put, del() has removed them, update() has replaced
\* them, and no other row has changed; but for the statements of which a wrong
\* result is known (Slip).
THEOREM StatementTheorem == ClientSpec => []StatementIsRight
BY StatementInit, StatementNext, StatementRight, PTL DEF ClientSpec
=============================================================================
