----------------------------- MODULE Conditions ------------------------------
(***************************************************************************)
(* The conditions of the client's statements, lib/matu.h: one or two       *)
(* comparisons of the id, of which conditionParse() makes a range of ids.  *)
(***************************************************************************)
EXTENDS Integers

CONSTANTS Number          \* the numbers that statements compare the id with

ASSUME NumberAssumption == Number \subseteq Int

-----------------------------------------------------------------------------
(* conditionParse().  A comparison is of a kind OP_EQ, OP_GE or OP_LE:     *)
(* `>' and `<' are made OP_GE and OP_LE by changing the number.            *)

Comparison == [sign : {">", ">=", "=", "<", "<="}, number : Number]

\* Mutant: the number goes the wrong way.
OpOfSame(c) == [op |-> CASE c.sign \in {">", ">="} -> "GE" [] c.sign = "=" -> "EQ" [] OTHER -> "LE",
                num |-> c.number + (IF c.sign \in {">", "<"} THEN 1 ELSE 0)]
OpOf(c) == [op |-> CASE c.sign \in {">", ">="} -> "GE" [] c.sign = "=" -> "EQ" [] OTHER -> "LE",
            num |-> c.number + (CASE c.sign = ">" -> 1 [] c.sign = "<" -> -1 [] OTHER -> 0)]

\* The results, with ResFlag; a and b are meant as the comments of ResFlag say
Range2(flag, a, b) == [flag |-> flag, a |-> a, b |-> b]
Range1(flag, a) == Range2(flag, a, 0)
Bad == Range1("BAD", 0)
All == Range1("ALL", 0)

One(c) == Range1(CASE c.op = "GE" -> "LO" [] c.op = "EQ" -> "EQ_FIRST" [] c.op = "LE" -> "HI", c.num)

Smaller(x, y) == IF x < y THEN x ELSE y
Greater(x, y) == IF x < y THEN y ELSE x

Both(c, d) ==                               \* c AND d
  CASE c.op = "GE" /\ d.op = "GE" -> Range1("LO", Greater(c.num, d.num))
    [] c.op = "LE" /\ d.op = "LE" -> Range1("HI", Smaller(c.num, d.num))
    [] c.op = "EQ" /\ d.op = "EQ" -> IF d.num = c.num THEN Range1("EQ_FIRST", d.num) ELSE Bad
    [] c.op = "EQ" /\ d.op = "GE" -> IF c.num < d.num THEN Bad ELSE Range1("EQ_FIRST", c.num)
    [] c.op = "EQ" /\ d.op = "LE" -> IF c.num > d.num THEN Bad ELSE Range1("EQ_FIRST", c.num)
    [] c.op = "GE" /\ d.op = "EQ" -> IF c.num > d.num THEN Bad ELSE Range1("EQ_FIRST", d.num)
    [] c.op = "LE" /\ d.op = "EQ" -> IF d.num > c.num THEN Bad ELSE Range1("EQ_FIRST", c.num)
    [] OTHER ->
         LET low  == IF c.op = "GE" THEN c.num ELSE d.num
             high == IF c.op = "GE" THEN d.num ELSE c.num
         IN  IF high < low THEN Bad
             ELSE IF high = low THEN Range1("EQ_FIRST", low) ELSE Range2("AND", low, high)

Either(c, d) ==                             \* c OR d
  CASE c.op = "GE" /\ d.op = "GE" -> Range1("LO", Smaller(c.num, d.num))
    [] c.op = "LE" /\ d.op = "LE" -> Range1("HI", Greater(c.num, d.num))
    [] c.op = "EQ" /\ d.op = "EQ" ->
         IF d.num = c.num THEN Range1("EQ_FIRST", d.num) ELSE Range2("EQ_BOTH", d.num, c.num)
    [] c.op = "EQ" /\ d.op = "GE" ->
         IF c.num >= d.num THEN Range1("LO", d.num) ELSE Range2("EQ_LO", c.num, d.num)
    [] c.op = "EQ" /\ d.op = "LE" ->
         IF c.num > d.num THEN Range2("EQ_HI", c.num, d.num) ELSE Range1("HI", d.num)
    [] c.op = "GE" /\ d.op = "EQ" ->
         IF d.num >= c.num THEN Range1("LO", c.num) ELSE Range2("EQ_LO", d.num, c.num)
    [] c.op = "LE" /\ d.op = "EQ" ->
         IF d.num > c.num THEN Range2("EQ_HI", d.num, c.num) ELSE Range1("HI", c.num)
    [] OTHER ->
         LET low  == IF c.op = "GE" THEN c.num ELSE d.num
             high == IF c.op = "GE" THEN d.num ELSE c.num
         IN  IF low <= high + 1 THEN All ELSE Range2("OR", high, low)

\* A condition is one comparison, or two with a connective between them.
Condition == [first : Comparison, conn : {"none"}]
             \cup [first : Comparison, conn : {"and", "or"}, second : Comparison]

conditionParse(cond) ==
  CASE cond.conn = "none" -> One(OpOf(cond.first))
    [] cond.conn = "and"  -> Both(OpOf(cond.first), OpOf(cond.second))
    [] cond.conn = "or"   -> Either(OpOf(cond.first), OpOf(cond.second))

-----------------------------------------------------------------------------
(* What a condition says                                                   *)

Satisfies(k, c) ==
  CASE c.sign = ">"  -> k > c.number
    [] c.sign = ">=" -> k >= c.number
    [] c.sign = "="  -> k = c.number
    [] c.sign = "<"  -> k < c.number
    [] c.sign = "<=" -> k <= c.number

Selects(cond, k) ==
  CASE cond.conn = "none" -> Satisfies(k, cond.first)
    [] cond.conn = "and"  -> Satisfies(k, cond.first) /\ Satisfies(k, cond.second)
    [] cond.conn = "or"   -> Satisfies(k, cond.first) \/ Satisfies(k, cond.second)

\* The ids of a result, as the comments of ResFlag have it
InRange(k, r) ==
  CASE r.flag = "BAD" -> FALSE
    [] r.flag = "ALL" -> TRUE
    [] r.flag = "EQ_FIRST" -> k = r.a
    [] r.flag = "HI"  -> k <= r.a
    [] r.flag = "LO"  -> k >= r.a
    [] r.flag = "EQ_BOTH" -> k = r.a \/ k = r.b
    [] r.flag = "AND" -> r.a <= k /\ k <= r.b
    [] r.flag = "OR"  -> k <= r.a \/ k >= r.b
    [] r.flag = "EQ_LO" -> k = r.a \/ k >= r.b
    [] r.flag = "EQ_HI" -> k = r.a \/ k <= r.b

\* An upper bound AND a smaller id: line 270 of matu.h returns the bound.
BoundForId(cond, r) ==
  /\ cond.conn = "and" /\ cond.first.sign \in {"<", "<="} /\ cond.second.sign = "="
  /\ r.flag = "EQ_FIRST" /\ r.a # cond.second.number
=============================================================================
