------------------------------ MODULE RowClient -------------------------------
(***************************************************************************)
(* The client of lib/matu.h: a table of rows with an integer id over one   *)
(* tree.  A statement selects rows by a condition on the id, of which      *)
(* conditionParse() makes a range (Conditions.tla), and query(), del() and *)
(* update() walk the range with an iterator.                               *)
(*                                                                         *)
(* The tree is that of ValueStore.tla.  The iterator is the key it stands  *)
(* on (MapCursor.tla): the client removes, and puts again, only the row it *)
(* stands on, which moves no item.  A row is its id and the value of its   *)
(* other columns.                                                          *)
(***************************************************************************)
EXTENDS ValueStore, Conditions, SequencesExt

CONSTANTS MaxNodes,       \* bound on the nodes that one put() adds to the tree
          MaxBlock        \* bound on the blocks when a row is put

ASSUME BoundAssumption == MaxNodes \in Nat /\ MaxBlock \in Nat
\* encode() writes 16 bytes besides the strings of a row.
ASSUME RowAssumption == \A v \in Val : size[v] > 0

VARIABLES
  pc,         \* "idle", or where the statement is: "locate", "turn", "put", "next", "done"
  stmt,       \* its kind and, of an update, the new value
  walks,      \* the walks over the tree that it has still to make
  cursor,     \* the row that its iterator stands on
  out,        \* the rows that query() has collected
  before,     \* auxiliary: the table when it began
  want,       \* auxiliary: the rows whose ids its comparisons select
  excused     \* auxiliary: the code is known not to do what it says (see Slip)

clientVars == <<pc, stmt, walks, cursor, out, before, want, excused>>
allVars == <<vars, clientVars>>

-----------------------------------------------------------------------------
(* The switches of query(), del() and update().  Each of their cases walks *)
(* the tree once or twice, from its first row or from the first one at or  *)
(* behind an id, up to an id or to the end.                                *)

\* A bound is {id}, or {} for none.
Walk(from, to) == << [from |-> from, to |-> to, once |-> FALSE] >>
OneRow(id) == << [from |-> {id}, to |-> {}, once |-> TRUE] >>

\* Mutant: the second walk of RES_OR begins where the first one ended.
WalksFromEnd(r) ==
  CASE r.flag = "AND" -> Walk({r.a}, {r.b})
    [] r.flag = "OR"  -> Walk({}, {r.a}) \o Walk({r.a}, {})
    [] r.flag = "EQ_FIRST" -> OneRow(r.a)
    [] r.flag = "HI"  -> Walk({}, {r.a})
    [] r.flag = "LO"  -> Walk({r.a}, {})
    [] OTHER -> << >>

Walks(r) ==
  CASE r.flag = "AND" -> Walk({r.a}, {r.b})
    [] r.flag = "OR"  -> Walk({}, {r.a}) \o Walk({r.b}, {})
    [] r.flag = "EQ_FIRST" -> OneRow(r.a)
    [] r.flag = "HI"  -> Walk({}, {r.a})
    [] r.flag = "LO"  -> Walk({r.a}, {})
    [] OTHER -> << >>          \* prints an error

\* The statements that the code is known to get wrong: those whose range is
\* wrong; results that no switch has a case for; and one id that no row has,
\* for which KEY_OR_NEXT finds the next row.
Slip(cond, r) ==
  \/ BoundForId(cond, r)
  \/ r.flag \in {"EQ_BOTH", "EQ_LO", "EQ_HI", "ALL"}
  \/ r.flag = "EQ_FIRST" /\ r.a \notin Live

-----------------------------------------------------------------------------
(* The statements                                                          *)

Table == [k \in Live |-> GetValue(item[k].loc)]

\* insert() of a row
InsertRow(k, v) ==
  /\ pc = "idle" /\ countOfBlock <= MaxBlock
  /\ PutCall(k, v) \/ PutDuplicate(k)
  /\ UNCHANGED clientVars

\* query(), del() or update() is called.
Execute(kind, v, cond) ==
  /\ pc = "idle" /\ call = Idle
  /\ kind = "update" => countOfBlock <= MaxBlock
  /\ LET r == conditionParse(cond)
     IN  walks' = Walks(r) /\ excused' = Slip(cond, r)
  /\ want' = {k \in Live : Selects(cond, k)}
  /\ pc' = "locate" /\ stmt' = [kind |-> kind, val |-> v] /\ before' = Table
  /\ UNCHANGED <<vars, cursor, out>>

EndWalk == pc' = "locate" /\ walks' = Tail(walks) /\ cursor' = {}

\* locate(), first() or next() goes to the first of S, or returns 0.
GoTo(S) ==
  IF S = {} THEN EndWalk
  ELSE /\ pc' = "turn" /\ UNCHANGED walks
       /\ cursor' = {k \in S : \A l \in S : k <= l}

Unchanged == UNCHANGED <<stmt, before, want>>

Locate ==
  /\ pc = "locate" /\ walks # << >>
  /\ GoTo({k \in Live : \A n \in Head(walks).from : k >= n})
  /\ Unchanged /\ UNCHANGED <<vars, out, excused>>

\* A turn of a loop with the row k
Turn(kind, k) == pc = "turn" /\ stmt.kind = kind /\ k \in cursor /\ \A n \in Head(walks).to : k <= n

\* ... that is behind the range
Leave ==
  /\ pc = "turn" /\ \E k \in cursor, n \in Head(walks).to : k > n
  /\ EndWalk
  /\ Unchanged /\ UNCHANGED <<vars, out, excused>>

QueryRow(k) ==
  /\ Turn("query", k)
  /\ out' = Append(out, <<k, GetValue(item[k].loc)>>)
  /\ pc' = "next"
  /\ Unchanged /\ UNCHANGED <<vars, walks, cursor, excused>>

DeleteRow(k) ==
  /\ Turn("delete", k)
  /\ RemoveItem(k)
  /\ pc' = "next"
  /\ Unchanged /\ UNCHANGED <<walks, cursor, out, excused>>

\* update() removes the row and puts it again with its new columns.
UpdateRow(k) ==
  /\ Turn("update", k)
  /\ RemoveItem(k)
  /\ pc' = "put"
  /\ Unchanged /\ UNCHANGED <<walks, cursor, out, excused>>

UpdatePut(k) ==
  /\ pc = "put" /\ k \in cursor
  /\ PutCall(k, stmt.val)
  /\ pc' = "next"
  /\ Unchanged /\ UNCHANGED <<walks, cursor, out, excused>>

\* The steps of put().  When it fails for memory, update() goes on without the
\* row: it does not look at the result.
RunPut ==
  /\ TryNext \/ \E nodes \in 0 .. MaxNodes : StoreValue(nodes)
  /\ UNCHANGED clientVars
FailPut ==
  /\ PutError
  /\ excused' = (excused \/ pc # "idle")
  /\ Unchanged /\ UNCHANGED <<pc, walks, cursor, out>>

Behind(k) == {l \in Live : l > k}

NextRow(k) ==
  /\ pc = "next" /\ call = Idle /\ k \in cursor
  /\ IF Head(walks).once THEN EndWalk ELSE GoTo(Behind(k))
  /\ Unchanged /\ UNCHANGED <<vars, out, excused>>

FinishEarly ==                                    \* mutant
  /\ pc = "locate" /\ pc' = "done"
  /\ Unchanged /\ UNCHANGED <<vars, walks, cursor, out, excused>>
Finish ==
  /\ pc = "locate" /\ walks = << >>
  /\ pc' = "done"
  /\ Unchanged /\ UNCHANGED <<vars, walks, cursor, out, excused>>

Return ==
  /\ pc = "done"
  /\ pc' = "idle" /\ stmt' = << >> /\ out' = << >>
  /\ before' = << >> /\ want' = {} /\ excused' = FALSE
  /\ UNCHANGED <<vars, walks, cursor>>

ClientInit ==
  /\ Init
  /\ pc = "idle" /\ stmt = << >> /\ walks = << >> /\ cursor = {} /\ out = << >>
  /\ before = << >> /\ want = {} /\ excused = FALSE

Progress ==
  \/ Locate \/ Leave \/ RunPut \/ Finish \/ Return
  \/ \E k \in cursor : QueryRow(k) \/ DeleteRow(k) \/ UpdateRow(k) \/ UpdatePut(k) \/ NextRow(k)

ClientNext ==
  \/ \E k \in Key, v \in Val : InsertRow(k, v)
  \/ \E cond \in Condition :
       \/ \E kind \in {"query", "delete"} : Execute(kind, {}, cond)
       \/ \E v \in Val : Execute("update", v, cond)
  \/ Progress \/ FailPut

\* A statement that was called runs: it has the only thread.  Memory need not
\* ever run out.
ClientSpec == ClientInit /\ [][ClientNext]_allVars /\ WF_allVars(Progress)

-----------------------------------------------------------------------------
(* Properties                                                              *)

\* The variables of the client have their types, and its iterator stands on an
\* item while a walk goes on.
ClientTypeOK ==
  /\ pc \in {"idle", "locate", "turn", "put", "next", "done"}
  /\ cursor \subseteq DOMAIN item /\ Cardinality(cursor) <= 1
  /\ pc \in {"turn", "put", "next"} => cursor # {} /\ walks # << >>
  /\ want \subseteq Key /\ excused \in BOOLEAN
  /\ pc = "idle" => walks = << >>

\* The rows of a table whose keys are in S, and how query() returns rows
RowsOf(rows, S) == {<<k, rows[k]>> : k \in S}
InOrder(rows) == \A i, j \in DOMAIN rows : i < j => rows[i][1] < rows[j][1]

\* A range has the ids that the condition it was made of selects, strict
\* comparisons, bounds that cross and the results that no switch has a case for
\* among them: what a statement that is called now would walk.
RangeIsRight ==
  pc = "idle" =>
    \A cond \in Condition, k \in Key :
      LET r == conditionParse(cond)
      IN  BoundForId(cond, r) \/ (InRange(k, r) <=> Selects(cond, k))

\* When a statement ends, query() has collected the rows that the condition
\* selects, each once, in order and with the values that were put; del() has
\* removed these rows and update() has given them the new value; and no other
\* row has changed.  (But for what Slip says.)
StatementIsRight ==
  pc = "done" /\ ~ excused =>
    CASE stmt.kind = "query"  -> InOrder(out) /\ ToSet(out) = RowsOf(before, want) /\ Table = before
      [] stmt.kind = "delete" -> Table = Restrict(before, DOMAIN before \ want)
      [] stmt.kind = "update" ->
           Table = [k \in DOMAIN before |-> IF k \in want THEN stmt.val ELSE before[k]]

\* A statement ends: insertValue() finds a block with room, and the loops come
\* to the end of the tree though update() puts rows back into it.
StatementEnds == pc # "idle" ~> pc = "idle"
=============================================================================
