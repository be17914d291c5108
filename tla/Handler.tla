------------------------------ MODULE Handler -------------------------------
(***************************************************************************)
(* ha_example of ha_example.cc: one table, its rows in p_btree and the     *)
(* entries of all its secondary indexes in s_btree, as the server calls it *)
(* under the lock of the table.                                            *)
(*                                                                         *)
(* Both trees are the sets of their live keys, and an iterator is the key  *)
(* it stands on (MapCursor.tla, which BTreeIterator.tla implements).  A    *)
(* key is a triple: <<0, 0, pk>> in p_btree and <<index, value, pk>> in    *)
(* s_btree, the order of second_key_compare().  What pack_key() puts in    *)
(* front of or behind all entries of a value (the bits 0x80 and 0x40) is a *)
(* primary key below or above all others.                                  *)
(***************************************************************************)
EXTENDS Integers, FiniteSets, Functions

CONSTANTS Key,               \* primary keys
          Value,             \* values of the other columns
          MaxIndex,          \* bound on the secondary indexes, one of each column
          DuplicateUpdates   \* UPDATE may give a row the primary key of another

ASSUME KeyAssumption == Key \subseteq Nat \ {0} /\ IsFiniteSet(Key)
ASSUME ValueAssumption == Value \subseteq Nat
ASSUME IndexAssumption == MaxIndex \in Nat
ASSUME UpdatesAssumption == DuplicateUpdates \in BOOLEAN

VARIABLES
  keys,          \* table->s->keys: the primary key and the secondary indexes
  rows,          \* p_btree: the columns of the row of each primary key
  entries,       \* s_btree
  primary_it, sec_it,         \* the keys the iterators stand on in a scan, or None
  active_index, first_row,
  call, rc,      \* the last call and what it returned
  out,           \* primary key of the row in the server's buffer, 0 if none
  asked,         \* the value index_read() looked for
  scan,          \* "none", "table", "forward", "backward", "range"; "over" when one
                 \* came to its end, "failed" when a call failed
  left,          \* auxiliary: the rows that the scan has still to return
  again,         \* auxiliary: it returned a row that it should not have
  old,           \* auxiliary: the rows before a call that failed
  fault          \* auxiliary: a put() has failed

data == <<rows, entries, fault>>
its == <<primary_it, sec_it>>
aux == <<left, again, old>>
vars == <<keys, data, its, active_index, first_row, call, rc, out, asked, scan, aux>>

None == << >>
Indexes == 1 .. keys - 1
Row == [Indexes -> Value]
Top == 1 + CHOOSE k \in Key : \A l \in Key : l <= k

-----------------------------------------------------------------------------
(* Keys and their order                                                    *)

EntryPrimaryFirst(i, r, k) == <<i, k, r[i]>>    \* mutant
Entry(i, r, k) == <<i, r[i], k>>                \* pack_key()
PrimaryKey(k) == <<0, 0, k>>

Before(a, b) ==                                 \* second_key_compare() < 0
  \/ a[1] < b[1]
  \/ a[1] = b[1] /\ a[2] < b[2]
  \/ a[1] = b[1] /\ a[2] = b[2] /\ a[3] < b[3]

Least(S) == CHOOSE e \in S : \A f \in S : ~ Before(f, e)
Greatest(S) == CHOOSE e \in S : \A f \in S : ~ Before(e, f)

Tree(i) == IF i = 0 THEN {PrimaryKey(k) : k \in DOMAIN rows} ELSE entries
It == IF active_index = 0 THEN primary_it ELSE sec_it
AllAfter(e) == {f \in Tree(e[1]) : Before(e, f)}
AllBefore(e) == {f \in Tree(e[1]) : Before(f, e)}

-----------------------------------------------------------------------------
(* write_row(), delete_row(), update_row() on a table t = [rows, entries]  *)

Table == [rows |-> rows, entries |-> entries]
Outcome(t, code) == [t |-> t, rc |-> code]

\* The entries of the row that are in s_btree when the loop of write_row()
\* ends after n of the indexes
AddedButLast(t, k, r, n) == t.entries \cup {Entry(i, r, k) : i \in 1 .. n - 1}   \* mutant
Added(t, k, r, n) == t.entries \cup {Entry(i, r, k) : i \in 1 .. n}

\* put() in s_btree does not return 1 when the key is there, or fails; n is -1
\* when it already fails in p_btree.  Before any put(), n = -2, pack_row() may
\* find no memory for the row; this stands for an error of
\* update_auto_increment() too, whatever its code.
Write(t, k, r, n) ==
  IF n = -2 THEN Outcome(t, "HA_ERR_OUT_OF_MEM")
  ELSE IF k \in DOMAIN t.rows THEN Outcome(t, "HA_ERR_FOUND_DUPP_KEY")
  ELSE IF n = -1 THEN Outcome(t, "HA_ERR_INTERNAL_ERROR")
  ELSE Outcome([rows |-> [l \in DOMAIN t.rows \cup {k} |-> IF l = k THEN r ELSE t.rows[l]],
                entries |-> Added(t, k, r, n)],
               IF n = keys - 1 THEN "ok" ELSE "HA_ERR_INTERNAL_ERROR")

\* How many indexes that loop may come through
Puts(t, k, r) ==
  {n \in -2 .. keys - 1 : \A i \in 1 .. n : Entry(i, r, k) \notin t.entries}
PutFails(t, k, r, n) ==
  n = -1 \/ (n \in 0 .. keys - 2 /\ Entry(n + 1, r, k) \notin t.entries)

\* The loop of delete_row() stops at the first index without its entry.
PresentFirst(t, k, r) == {i \in Indexes : i = 1 /\ Entry(i, r, k) \in t.entries}  \* mutant
Present(t, k, r) == {i \in Indexes : \A j \in 1 .. i : Entry(j, r, k) \in t.entries}

Delete(t, k, r) ==
  IF k \notin DOMAIN t.rows THEN Outcome(t, "HA_ERR_KEY_NOT_FOUND")
  ELSE Outcome([rows |-> Restrict(t.rows, DOMAIN t.rows \ {k}),
                entries |-> t.entries \ {Entry(i, r, k) : i \in Present(t, k, r)}],
               IF Present(t, k, r) = Indexes THEN "ok" ELSE "HA_ERR_KEY_NOT_FOUND")

Changes(o, failed) ==
  /\ rows' = o.t.rows /\ entries' = o.t.entries /\ rc' = o.rc
  /\ fault' = (fault \/ failed)
  /\ old' = IF o.rc \in {"HA_ERR_FOUND_DUPP_KEY", "HA_ERR_KEY_NOT_FOUND"} THEN rows ELSE None
  /\ call' = "write"
  /\ asked' = {} /\ UNCHANGED keys

\* Outside of a scan the iterators and active_index are not used: the server
\* places and sets them first.
NoScan == scan = "none"
StillNoScan == NoScan /\ UNCHANGED <<its, active_index, first_row, scan, left, again>>

\* A call that fails ends the statement, and with it the scan.
KeepScan(o, due) ==
  /\ scan' = IF o.rc = "ok" \/ NoScan THEN scan ELSE "failed"
  /\ left' = due /\ UNCHANGED again

\* INSERT
WriteRow(k, r) ==
  /\ StillNoScan
  /\ \E n \in Puts(Table, k, r) :
       Changes(Write(Table, k, r, n), k \notin DOMAIN rows /\ PutFails(Table, k, r, n))
  /\ out' = 0

\* DELETE of the row that was read last, through an iterator of its own
HasRow == out # 0 /\ scan \notin {"over", "failed"}
DeleteRow ==
  /\ HasRow
  /\ LET o == Delete(Table, out, rows[out])
     IN  Changes(o, FALSE) /\ KeepScan(o, left \ {out})
  /\ out' = 0
  /\ UNCHANGED <<its, active_index, first_row>>

Update(k, r, n) ==
  LET d == Delete(Table, out, rows[out]) IN IF d.rc = "ok" THEN Write(d.t, k, r, n) ELSE d

\* UPDATE of the row that was read last.  The server does not let a scan change
\* the key it goes along: it first scans, then comes back with rnd_pos().
\* put() of a key that is new to a tree moves the items under its iterators,
\* which then stand on any of them; this happens to a scan of one secondary
\* index when the row changes in another.
UpdateRow(k, r) ==
  /\ HasRow
  /\ ~ NoScan => k = out /\ (active_index # 0 => r[active_index] = rows[out][active_index])
  /\ DuplicateUpdates \/ k = out \/ k \notin DOMAIN rows
  /\ LET d == Delete(Table, out, rows[out])
     IN \E n \in Puts(d.t, k, r) :
          /\ Changes(Update(k, r, n), d.rc = "ok" /\ k \notin DOMAIN d.t.rows /\ PutFails(d.t, k, r, n))
          /\ KeepScan(Update(k, r, n), left)
          /\ out' = IF rc' = "ok" THEN k ELSE 0
  /\ IF entries' \subseteq entries \/ sec_it = None THEN UNCHANGED sec_it ELSE sec_it' \in entries'
  /\ UNCHANGED <<primary_it, active_index, first_row>>

-----------------------------------------------------------------------------
(* Reading                                                                 *)

\* The iterator of index i goes to e, which is of S, or nowhere when S is
\* empty.  get_cur_row() takes the row from p_btree: with rnd_pos(), which
\* moves primary_it, when i is a secondary index.
Fetch(i, S, e, code) ==
  IF S = {} THEN rc' = code /\ out' = 0 /\ UNCHANGED its
  ELSE /\ primary_it' = PrimaryKey(e[3])
       /\ sec_it' = IF i = 0 THEN sec_it ELSE e
       /\ IF e[3] \in DOMAIN rows THEN rc' = "ok" /\ out' = e[3]
          ELSE rc' = "HA_ERR_KEY_NOT_FOUND" /\ out' = 0

Reads(c) == call' = c /\ asked' = {} /\ old' = None /\ UNCHANGED <<keys, data>>

\* The scan goes on, as s, with `due' still to return, or is over.
GoesOn(s, due, wrong) ==
  /\ scan' = IF rc' = "ok" THEN s ELSE "over"
  /\ left' = due \ {out'}
  /\ again' = (wrong \/ (rc' = "ok" /\ s # "range" /\ out' \notin due))

IndexFirst(i) ==
  /\ NoScan
  /\ Fetch(i, Tree(i), Least(Tree(i)), "HA_ERR_KEY_NOT_FOUND")
  /\ Reads("index_first") /\ GoesOn("forward", DOMAIN rows, FALSE)
  /\ active_index' = i /\ UNCHANGED first_row

IndexLast(i) ==
  /\ NoScan
  /\ Fetch(i, Tree(i), Greatest(Tree(i)), "HA_ERR_KEY_NOT_FOUND")
  /\ Reads("index_last") /\ GoesOn("backward", DOMAIN rows, FALSE)
  /\ active_index' = i /\ UNCHANGED first_row

\* Mutant: next() goes on from the key that the iterator of the rows stands on.
NextOfRow == {f \in Tree(active_index) : f[3] > primary_it[3]}
NextKeys == AllAfter(It)

Advance(c) ==
  /\ Fetch(active_index, NextKeys, Least(NextKeys), "HA_ERR_END_OF_FILE")
  /\ Reads(c) /\ GoesOn(scan, left, again)
  /\ UNCHANGED <<active_index, first_row>>

IndexNext == scan \in {"forward", "range"} /\ Advance("index_next")

IndexPrev ==
  /\ scan \in {"backward", "range"}
  /\ Fetch(active_index, AllBefore(It), Greatest(AllBefore(It)), "HA_ERR_END_OF_FILE")
  /\ Reads("index_prev") /\ GoesOn(scan, left, again)
  /\ UNCHANGED <<active_index, first_row>>

\* rnd_init(), and rnd_next() with the first row and with those that follow
RndInit ==
  /\ NoScan
  /\ active_index' = 0 /\ first_row' = TRUE
  /\ scan' = "table" /\ left' = DOMAIN rows /\ again' = FALSE
  /\ rc' = "ok" /\ out' = 0
  /\ Reads("rnd_init") /\ UNCHANGED its

RndFirst ==
  /\ scan = "table" /\ first_row
  /\ first_row' = FALSE
  /\ Fetch(0, Tree(0), Least(Tree(0)), "HA_ERR_KEY_NOT_FOUND")
  /\ Reads("rnd_next") /\ GoesOn(scan, left, again)
  /\ UNCHANGED active_index

RndNext == scan = "table" /\ ~ first_row /\ Advance("rnd_next")

\* rnd_end() or index_end(), at the end of a scan or before it
EndScan ==
  /\ ~ NoScan /\ scan' = "none"
  /\ rc' = "ok" /\ out' = 0 /\ first_row' = FALSE
  /\ active_index' = 0 /\ primary_it' = None /\ sec_it' = None
  /\ left' = {} /\ again' = FALSE
  /\ Reads("end")

\* rnd_pos() with a position() that the server kept
RndPos(k) ==
  /\ StillNoScan
  /\ IF k \in DOMAIN rows THEN rc' = "ok" /\ out' = k
     ELSE rc' = "HA_ERR_KEY_NOT_FOUND" /\ out' = 0
  /\ Reads("rnd_pos")

-----------------------------------------------------------------------------
(* index_read()                                                            *)

Flags == {"HA_READ_KEY_EXACT", "HA_READ_KEY_OR_NEXT", "HA_READ_KEY_OR_PREV",
          "HA_READ_AFTER_KEY", "HA_READ_BEFORE_KEY", "HA_READ_PREFIX_LAST_OR_PREV"}

\* The keys at or after e, and at or before e, in its tree
From(e) == {f \in Tree(e[1]) : ~ Before(f, e)}
UpTo(e) == {f \in Tree(e[1]) : ~ Before(e, f)}

AllPrefixes(S, i, v) == S                                                         \* mutant
\* second_key_compare_prefix(), and the exact comparison of locate()
OfPrefix(S, i, v) == {e \in S : IF i = 0 THEN e = PrimaryKey(v) ELSE e[1] = i /\ e[2] = v}

\* The candidates of a read of value v; in a secondary index, first is in
\* front of the entries of v and last is behind them.
Candidates(i, v, flag) ==
  LET first == IF i = 0 THEN PrimaryKey(v) ELSE <<i, v, 0>>
      last == IF i = 0 THEN PrimaryKey(v) ELSE <<i, v, Top>>
  IN CASE flag = "HA_READ_KEY_EXACT"   -> {e \in From(first) : e = Least(From(first))}
       [] flag = "HA_READ_KEY_OR_NEXT" -> From(first)
       [] flag = "HA_READ_AFTER_KEY"   -> AllAfter(first)
       [] flag = "HA_READ_KEY_OR_PREV" -> UpTo(first)
       [] flag = "HA_READ_BEFORE_KEY"  -> AllBefore(first)
       [] flag = "HA_READ_PREFIX_LAST_OR_PREV" -> UpTo(last)

IndexRead(i, v, flag) ==
  LET exact == flag = "HA_READ_KEY_EXACT"
      S == IF exact THEN OfPrefix(Candidates(i, v, flag), i, v) ELSE Candidates(i, v, flag)
      forward == flag \in {"HA_READ_KEY_EXACT", "HA_READ_KEY_OR_NEXT", "HA_READ_AFTER_KEY"}
  IN /\ NoScan
     /\ Fetch(i, S, IF forward THEN Least(S) ELSE Greatest(S), "HA_ERR_KEY_NOT_FOUND")
     /\ asked' = (IF exact THEN {v} ELSE {})
     /\ call' = "index_read" /\ old' = None
     /\ GoesOn("range", {}, FALSE)
     /\ active_index' = i
     /\ UNCHANGED <<keys, data, first_row>>

-----------------------------------------------------------------------------

Init ==
  /\ keys \in 1 .. MaxIndex + 1
  /\ rows = None /\ entries = {} /\ fault = FALSE
  /\ primary_it = None /\ sec_it = None /\ active_index = 0 /\ first_row = FALSE
  /\ call = "open" /\ rc = "ok" /\ out = 0 /\ asked = {}
  /\ scan = "none" /\ left = {} /\ again = FALSE /\ old = None

Next ==
  \/ \E k \in Key, r \in Row : WriteRow(k, r) \/ UpdateRow(k, r)
  \/ DeleteRow
  \/ \E i \in Indexes \cup {0} : IndexFirst(i) \/ IndexLast(i)
  \/ IndexNext \/ IndexPrev
  \/ RndInit \/ RndFirst \/ RndNext \/ EndScan
  \/ \E k \in Key : RndPos(k)
  \/ \E flag \in Flags : \/ \E k \in Key : IndexRead(0, k, flag)
                         \/ \E i \in Indexes, v \in Value : IndexRead(i, v, flag)

Spec == Init /\ [][Next]_vars

-----------------------------------------------------------------------------
(* Properties                                                              *)

\* The trees hold keys of their kinds and the iterators stand on such keys.
Entries == Indexes \X Value \X Key
TypeOK ==
  /\ keys \in 1 .. MaxIndex + 1
  /\ DOMAIN rows \subseteq Key /\ \A k \in DOMAIN rows : rows[k] \in Row
  /\ entries \subseteq Entries
  /\ primary_it \in {None} \cup {PrimaryKey(k) : k \in Key} /\ sec_it \in {None} \cup Entries
  /\ active_index \in 0 .. keys - 1 /\ first_row \in BOOLEAN
  /\ rc \in {"ok", "HA_ERR_FOUND_DUPP_KEY", "HA_ERR_KEY_NOT_FOUND",
             "HA_ERR_END_OF_FILE", "HA_ERR_INTERNAL_ERROR", "HA_ERR_OUT_OF_MEM"}
  /\ out \in DOMAIN rows \cup {0}
  /\ scan \in {"none", "table", "forward", "backward", "range", "over", "failed"}

\* Every entry of a secondary index leads to a row that has its value, after
\* calls that failed half way too: get_cur_row() never finds the row gone.
NoDanglingEntry ==
  \A e \in entries : e[3] \in DOMAIN rows /\ rows[e[3]][e[1]] = e[2]

\* Unless a put() failed, every row has its entry in every index, so
\* delete_row() finds them all and a read by an index misses no row.
EveryRowIndexed ==
  ~ fault => \A k \in DOMAIN rows, i \in Indexes : Entry(i, rows[k], k) \in entries

\* A scan of the rows, or of the only secondary index, forward or backward,
\* returns each row once, and none that a delete has taken, while the rows it
\* has returned are deleted and updated.
ScanReturnsEachRowOnce ==
  ~ fault /\ keys <= 2 => ~ again /\ (scan = "over" => left = {})

\* index_read() of an exact value finds a row with that value if there is one,
\* though the entries of the other indexes are in the same tree.
ExactReadIsRight ==
  call = "index_read" /\ asked # {} =>
    LET has(k) == (IF active_index = 0 THEN k ELSE rows[k][active_index]) \in asked
    IN IF rc = "ok" THEN has(out) ELSE fault \/ \A k \in DOMAIN rows : ~ has(k)

\* A write that returns HA_ERR_FOUND_DUPP_KEY, or a delete that finds no row,
\* leaves the rows as they were.
FailedWriteChangesNothing ==
  call = "write" /\ ~ fault /\ rc \in {"HA_ERR_FOUND_DUPP_KEY", "HA_ERR_KEY_NOT_FOUND"} => rows = old

\* "index_first() asks for the first key in the index."
FirstIsOfIndex ==
  call = "index_first" /\ rc = "ok" /\ active_index # 0 /\ ~ fault => sec_it[1] = active_index
=============================================================================
