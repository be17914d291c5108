---------------------------- MODULE HandlerProofs -----------------------------
(***************************************************************************)
(* Proofs about Handler, for any number of indexes and rows: the two trees *)
(* of a table agree whatever put() fails, a scan returns each row once,    *)
(* and a read of an exact value finds a row that has it.                   *)
(***************************************************************************)
EXTENDS Handler, FiniteSetTheorems, TLAPS

(***************************************************************************)
(* The invariant, of a table t = [rows, entries] since update_row() writes *)
(* into the table that its delete leaves.  The entries of a row are those  *)
(* of the first indexes, up to the one whose put() failed: this is why the *)
(* loop of delete_row(), which stops at the first entry that is not there, *)
(* leaves none of them behind.                                             *)
(***************************************************************************)
Typed(t) ==
  /\ DOMAIN t.rows \subseteq Key
  /\ \A k \in DOMAIN t.rows : t.rows[k] \in Row
  /\ t.entries \subseteq Entries

Leads(t) == \A e \in t.entries : e[3] \in DOMAIN t.rows /\ t.rows[e[3]][e[1]] = e[2]

FirstOnes(t) ==
  \A k \in DOMAIN t.rows, i \in Indexes :
    Entry(i, t.rows[k], k) \in t.entries => \A j \in 1 .. i : Entry(j, t.rows[k], k) \in t.entries

Complete(t) == \A k \in DOMAIN t.rows, i \in Indexes : Entry(i, t.rows[k], k) \in t.entries

Agree(t) == Typed(t) /\ Leads(t) /\ FirstOnes(t)

Inv ==
  /\ keys \in 1 .. MaxIndex + 1
  /\ Agree(Table)
  /\ fault \/ Complete(Table)
  /\ out \in DOMAIN rows \cup {0}

USE KeyAssumption, ValueAssumption, IndexAssumption

-----------------------------------------------------------------------------
(* Entries                                                                 *)

LEMMA EntryParts ==
  ASSUME NEW i, NEW r, NEW k
  PROVE  Entry(i, r, k)[1] = i /\ Entry(i, r, k)[2] = r[i] /\ Entry(i, r, k)[3] = k
BY DEF Entry

\* An entry of the row k is the one that pack_key() makes of the row.
LEMMA EntryOfRow ==
  ASSUME NEW t, Typed(t), Leads(t), NEW e \in t.entries
  PROVE  /\ e[1] \in Indexes /\ e[3] \in Key
         /\ e = Entry(e[1], t.rows[e[3]], e[3])
BY DEF Typed, Leads, Entries, Entry

\* A table has no entry of a row that it does not have.
LEMMA NoEntryOfOthers ==
  ASSUME NEW t, Leads(t), NEW k, k \notin DOMAIN t.rows, NEW i, NEW r
  PROVE  Entry(i, r, k) \notin t.entries
BY EntryParts DEF Leads

-----------------------------------------------------------------------------
(* write_row() and delete_row()                                            *)

LEMMA WriteAgrees ==
  ASSUME keys \in Nat \ {0}, NEW t, Agree(t), NEW k \in Key, NEW r \in Row, NEW n \in Puts(t, k, r)
  PROVE  /\ Agree(Write(t, k, r, n).t)
         /\ Complete(t) /\ ~ (k \notin DOMAIN t.rows /\ PutFails(t, k, r, n))
              => Complete(Write(t, k, r, n).t)
         /\ Write(t, k, r, n).rc = "ok" => k \in DOMAIN Write(t, k, r, n).t.rows
<1> DEFINE w == Write(t, k, r, n)
<1>1. CASE k \in DOMAIN t.rows \/ n \in {-2, -1}
  BY <1>1 DEF Write, Outcome, PutFails
<1>2. CASE k \notin DOMAIN t.rows /\ n \notin {-2, -1}
  <2>1. n \in 0 .. keys - 1
    BY <1>2 DEF Puts
  <2>2. /\ w.t.rows = [l \in DOMAIN t.rows \cup {k} |-> IF l = k THEN r ELSE t.rows[l]]
        /\ w.t.entries = t.entries \cup {Entry(i, r, k) : i \in 1 .. n}
    BY <1>2 DEF Write, Outcome, Added
  <2> HIDE DEF w
  <2>3. /\ DOMAIN w.t.rows = DOMAIN t.rows \cup {k}
        /\ w.t.rows[k] = r
        /\ \A l \in DOMAIN t.rows : l # k /\ w.t.rows[l] = t.rows[l]
    BY <1>2, <2>2
  <2>4. Typed(w.t)
    <3>1. \A i \in 1 .. n : Entry(i, r, k) \in Entries
      BY <2>1 DEF Entry, Entries, Row, Indexes
    <3> QED
      BY <2>2, <2>3, <3>1 DEF Agree, Typed
  <2>5. Leads(w.t)
    <3> SUFFICES ASSUME NEW e \in w.t.entries
                 PROVE  e[3] \in DOMAIN w.t.rows /\ w.t.rows[e[3]][e[1]] = e[2]
      BY DEF Leads
    <3>1. CASE e \in t.entries
      BY <3>1, <2>3 DEF Agree, Leads
    <3>2. ASSUME NEW i \in 1 .. n, e = Entry(i, r, k)
          PROVE  e[3] \in DOMAIN w.t.rows /\ w.t.rows[e[3]][e[1]] = e[2]
      BY <3>2, <2>3, EntryParts
    <3> QED
      BY <3>1, <3>2, <2>2
  <2>6. ASSUME NEW l \in DOMAIN t.rows, NEW i
        PROVE  Entry(i, w.t.rows[l], l) \in w.t.entries <=> Entry(i, t.rows[l], l) \in t.entries
    <3>1. \A j \in 1 .. n : Entry(i, t.rows[l], l) # Entry(j, r, k)
      BY <2>3, EntryParts
    <3> QED
      BY <3>1, <2>2, <2>3
  <2>7. ASSUME NEW i \in Indexes
        PROVE  Entry(i, w.t.rows[k], k) \in w.t.entries <=> i \in 1 .. n
    <3>1. Entry(i, r, k) \notin t.entries
      BY <1>2, NoEntryOfOthers DEF Agree
    <3>2. \A j \in 1 .. n : Entry(i, r, k) = Entry(j, r, k) => i = j
      BY EntryParts
    <3> QED
      BY <3>1, <3>2, <2>2, <2>3
  <2>8. FirstOnes(w.t)
    <3> SUFFICES ASSUME NEW l \in DOMAIN w.t.rows, NEW i \in Indexes,
                        Entry(i, w.t.rows[l], l) \in w.t.entries, NEW j \in 1 .. i
                 PROVE  Entry(j, w.t.rows[l], l) \in w.t.entries
      BY DEF FirstOnes
    <3>1. i \in 1 .. keys - 1 /\ j \in Indexes
      BY DEF Indexes
    <3>2. CASE l = k
      <4>1. i \in 1 .. n
        BY <2>7, <3>2
      <4>2. j \in 1 .. n
        BY <2>1, <3>1, <4>1
      <4> QED
        BY <4>2, <2>7, <3>1, <3>2
    <3>3. CASE l \in DOMAIN t.rows
      <4>1. Entry(i, t.rows[l], l) \in t.entries
        BY <2>6, <3>3
      <4>2. Entry(j, t.rows[l], l) \in t.entries
        BY <4>1, <3>3 DEF Agree, FirstOnes
      <4> QED
        BY <4>2, <2>6, <3>3
    <3> QED
      BY <2>3, <3>2, <3>3
  <2>9. ASSUME Complete(t), ~ PutFails(t, k, r, n) PROVE Complete(w.t)
    <3>1. n = keys - 1
      <4>1. Entry(n + 1, r, k) \notin t.entries
        BY <1>2, NoEntryOfOthers DEF Agree
      <4> QED
        BY <2>1, <2>9, <4>1 DEF PutFails
    <3> SUFFICES ASSUME NEW l \in DOMAIN w.t.rows, NEW i \in Indexes
                 PROVE  Entry(i, w.t.rows[l], l) \in w.t.entries
      BY DEF Complete
    <3>2. CASE l = k
      BY <3>1, <3>2, <2>7 DEF Indexes
    <3>3. CASE l \in DOMAIN t.rows
      BY <3>3, <2>6, <2>9 DEF Complete
    <3> QED
      BY <2>3, <3>2, <3>3
  <2> QED
    BY <1>2, <2>3, <2>4, <2>5, <2>8, <2>9 DEF Agree, w
<1> QED
  BY <1>1, <1>2

LEMMA DeleteAgrees ==
  ASSUME keys \in Nat \ {0}, NEW t, Agree(t), NEW k \in DOMAIN t.rows
  PROVE  /\ Agree(Delete(t, k, t.rows[k]).t)
         /\ Complete(t) => Complete(Delete(t, k, t.rows[k]).t)
<1> DEFINE d == Delete(t, k, t.rows[k])
           gone == {Entry(i, t.rows[k], k) : i \in Present(t, k, t.rows[k])}
<1>1. /\ d.t.rows = Restrict(t.rows, DOMAIN t.rows \ {k})
      /\ d.t.entries = t.entries \ gone
  BY DEF Delete, Outcome
<1> HIDE DEF d
<1>2. /\ DOMAIN d.t.rows = DOMAIN t.rows \ {k}
      /\ \A l \in DOMAIN d.t.rows : l # k /\ d.t.rows[l] = t.rows[l]
  BY <1>1 DEF Restrict
\* Every entry of the row is removed.
<1>3. ASSUME NEW e \in t.entries, e[3] = k PROVE e \in gone
  <2>1. e[1] \in Indexes /\ e = Entry(e[1], t.rows[k], k)
    BY <1>3, EntryOfRow DEF Agree
  <2>2. \A j \in 1 .. e[1] : Entry(j, t.rows[k], k) \in t.entries
    BY <2>1 DEF Agree, FirstOnes
  <2>3. e[1] \in Present(t, k, t.rows[k])
    BY <2>1, <2>2 DEF Present
  <2> QED
    BY <2>1, <2>3
<1>4. ASSUME NEW e \in gone PROVE e[3] = k
  BY EntryParts
<1> HIDE DEF gone
<1>5. ASSUME NEW e PROVE e \in d.t.entries <=> e \in t.entries /\ e[3] # k
  BY <1>1, <1>3, <1>4
<1>6. Typed(d.t)
  BY <1>1, <1>2 DEF Agree, Typed
<1>7. Leads(d.t)
  BY <1>2, <1>5 DEF Agree, Leads
<1>8. ASSUME NEW l \in DOMAIN d.t.rows, NEW i
      PROVE  Entry(i, d.t.rows[l], l) \in d.t.entries <=> Entry(i, t.rows[l], l) \in t.entries
  BY <1>2, <1>5, EntryParts
<1>9. FirstOnes(d.t)
  <2> SUFFICES ASSUME NEW l \in DOMAIN d.t.rows, NEW i \in Indexes,
                      Entry(i, d.t.rows[l], l) \in d.t.entries, NEW j \in 1 .. i
               PROVE  Entry(j, d.t.rows[l], l) \in d.t.entries
    BY DEF FirstOnes
  <2>1. Entry(j, t.rows[l], l) \in t.entries
    BY <1>2, <1>8 DEF Agree, FirstOnes
  <2> QED
    BY <2>1, <1>8
<1>10. Complete(t) => Complete(d.t)
  BY <1>2, <1>8 DEF Complete
<1> QED
  BY <1>6, <1>7, <1>9, <1>10 DEF Agree, d
-----------------------------------------------------------------------------
(* The steps                                                               *)

\* A call that reads changes no tree, and returns a row that is there.
LEMMA ReadInv ==
  ASSUME Inv, UNCHANGED <<keys, data>>, out' \in DOMAIN rows \cup {0}
  PROVE  Inv'
<1>1. keys' = keys /\ rows' = rows /\ entries' = entries /\ fault' = fault
  BY DEF data
<1> QED
  BY <1>1 DEF Inv, Agree, Typed, Leads, FirstOnes, Complete, Table, Row, Entries, Indexes

LEMMA FetchOut ==
  ASSUME NEW i, NEW S, NEW e, NEW code, Fetch(i, S, e, code)
  PROVE  out' \in DOMAIN rows \cup {0}
BY DEF Fetch

\* A table that agrees with its indexes still does after a change.
LEMMA ChangeInv ==
  ASSUME Inv, NEW o, NEW failed, Changes(o, failed), Agree(o.t),
         fault \/ failed \/ Complete(o.t), out' \in DOMAIN o.t.rows \cup {0}
  PROVE  Inv'
<1>1. /\ keys' = keys /\ rows' = o.t.rows /\ entries' = o.t.entries
      /\ fault' = (fault \/ failed)
  BY DEF Changes
<1>2. Agree(Table)'
  BY <1>1 DEF Agree, Typed, Leads, FirstOnes, Table, Row, Entries, Indexes
<1>3. fault' \/ Complete(Table)'
  <2>1. CASE fault \/ failed
    BY <2>1, <1>1
  <2>2. CASE Complete(o.t)
    BY <2>2, <1>1 DEF Complete, Table, Indexes
  <2> QED
    BY <2>1, <2>2
<1> QED
  BY <1>1, <1>2, <1>3 DEF Inv

LEMMA Facts == Inv => /\ keys \in Nat \ {0} /\ Agree(Table) /\ (fault \/ Complete(Table))
                      /\ 0 \notin Key /\ Table.rows = rows
BY DEF Inv, Table

LEMMA WriteRowInv == ASSUME Inv, NEW k \in Key, NEW r \in Row, WriteRow(k, r) PROVE Inv'
<1>1. PICK n \in Puts(Table, k, r) :
        Changes(Write(Table, k, r, n), k \notin DOMAIN rows /\ PutFails(Table, k, r, n))
  BY DEF WriteRow
<1> DEFINE o == Write(Table, k, r, n)
           failed == k \notin DOMAIN rows /\ PutFails(Table, k, r, n)
<1>2. Agree(o.t) /\ (fault \/ failed \/ Complete(o.t))
  BY Facts, WriteAgrees
<1>3. out' \in DOMAIN o.t.rows \cup {0}
  BY DEF WriteRow
<1>4. Changes(o, failed)
  BY <1>1
<1> HIDE DEF o, failed
<1> QED
  BY <1>2, <1>3, <1>4, ChangeInv

LEMMA DeleteRowInv == ASSUME Inv, DeleteRow PROVE Inv'
<1> DEFINE o == Delete(Table, out, rows[out])
<1>1. out \in DOMAIN Table.rows
  BY Facts DEF DeleteRow, HasRow, Inv
<1>2. Agree(o.t) /\ (Complete(Table) => Complete(o.t))
  BY <1>1, Facts, DeleteAgrees
<1>3. Changes(o, FALSE) /\ out' \in DOMAIN o.t.rows \cup {0}
  BY DEF DeleteRow
<1> HIDE DEF o
<1> QED
  BY <1>2, <1>3, Facts, ChangeInv

LEMMA UpdateRowInv == ASSUME Inv, NEW k \in Key, NEW r \in Row, UpdateRow(k, r) PROVE Inv'
<1> DEFINE d == Delete(Table, out, rows[out])
<1>1. out \in DOMAIN Table.rows
  BY Facts DEF UpdateRow, HasRow, Inv
<1>2. Agree(d.t) /\ (Complete(Table) => Complete(d.t))
  BY <1>1, Facts, DeleteAgrees
<1>3. PICK n \in Puts(d.t, k, r) :
        /\ Changes(Update(k, r, n), d.rc = "ok" /\ k \notin DOMAIN d.t.rows /\ PutFails(d.t, k, r, n))
        /\ out' = IF rc' = "ok" THEN k ELSE 0
  BY DEF UpdateRow
<1> DEFINE o == Update(k, r, n)
           w == Write(d.t, k, r, n)
           failed == d.rc = "ok" /\ k \notin DOMAIN d.t.rows /\ PutFails(d.t, k, r, n)
<1>4. o = IF d.rc = "ok" THEN w ELSE d
  BY DEF Update
<1>5. rc' = o.rc
  BY <1>3 DEF Changes
<1> HIDE DEF d
<1>6. /\ Agree(w.t)
      /\ Complete(d.t) /\ ~ (k \notin DOMAIN d.t.rows /\ PutFails(d.t, k, r, n)) => Complete(w.t)
      /\ w.rc = "ok" => k \in DOMAIN w.t.rows
  BY <1>2, Facts, WriteAgrees
<1>7. Changes(o, failed)
  BY <1>3
<1> HIDE DEF o, w
<1>8. Agree(o.t) /\ (fault \/ failed \/ Complete(o.t))
  BY <1>2, <1>4, <1>6, Facts
<1>9. out' \in DOMAIN o.t.rows \cup {0}
  BY <1>3, <1>4, <1>5, <1>6
<1> HIDE DEF failed
<1> QED
  BY <1>7, <1>8, <1>9, ChangeInv

LEMMA NextInv == Inv /\ [Next]_vars => Inv'
<1> SUFFICES ASSUME Inv, [Next]_vars PROVE Inv'
  OBVIOUS
<1>1. ASSUME NEW k \in Key, NEW r \in Row, WriteRow(k, r) \/ UpdateRow(k, r) PROVE Inv'
  BY <1>1, WriteRowInv, UpdateRowInv
<1>2. CASE DeleteRow
  BY <1>2, DeleteRowInv
<1>3. ASSUME NEW i, IndexFirst(i) \/ IndexLast(i) PROVE Inv'
  BY <1>3, FetchOut, ReadInv DEF IndexFirst, IndexLast, Reads
<1>4. CASE IndexNext \/ RndNext
  BY <1>4, FetchOut, ReadInv DEF IndexNext, RndNext, Advance, Reads
<1>5. CASE IndexPrev \/ RndFirst
  BY <1>5, FetchOut, ReadInv DEF IndexPrev, RndFirst, Reads
<1>6. CASE RndInit \/ EndScan
  BY <1>6, ReadInv DEF RndInit, EndScan, Reads
<1>7. ASSUME NEW k, RndPos(k) PROVE Inv'
  BY <1>7, ReadInv DEF RndPos, Reads
<1>8. ASSUME NEW i, NEW v, NEW flag, IndexRead(i, v, flag) PROVE Inv'
  <2>1. UNCHANGED <<keys, data>>
    BY <1>8 DEF IndexRead
  <2>2. out' \in DOMAIN rows \cup {0}
    BY <1>8, FetchOut DEF IndexRead
  <2> QED
    BY <2>1, <2>2, ReadInv
<1>9. CASE UNCHANGED vars
  BY <1>9, ReadInv DEF vars, Inv
<1> QED
  BY <1>1, <1>2, <1>3, <1>4, <1>5, <1>6, <1>7, <1>8, <1>9 DEF Next

LEMMA InitInv == Init => Inv
<1> SUFFICES ASSUME Init PROVE Inv
  OBVIOUS
<1>1. rows = << >> /\ DOMAIN rows = {} /\ entries = {} /\ keys \in 1 .. MaxIndex + 1 /\ out = 0
  BY DEF Init, None
<1> QED
  BY <1>1 DEF Inv, Agree, Typed, Leads, FirstOnes, Complete, Table

-----------------------------------------------------------------------------
(* The theorems                                                            *)

LEMMA InvHolds == Spec => []Inv
BY InitInv, NextInv, PTL DEF Spec

\* No entry of an index leads to a row that is gone, or to one with another
\* value, after calls that failed half way too.
THEOREM NoDanglingTheorem == Spec => []NoDanglingEntry
<1>1. Inv => NoDanglingEntry
  BY DEF Inv, Agree, Leads, Table, NoDanglingEntry
<1> QED
  BY <1>1, InvHolds, PTL

\* As long as no put() has failed, every row is in every index.
THEOREM IndexedTheorem == Spec => []EveryRowIndexed
<1>1. Inv => EveryRowIndexed
  BY DEF Inv, Complete, Table, EveryRowIndexed
<1> QED
  BY <1>1, InvHolds, PTL

-----------------------------------------------------------------------------
(* The order of the keys                                                   *)

Triple == Nat \X Nat \X Nat

LEMMA BeforeIsOrder ==
  ASSUME NEW a \in Triple, NEW b \in Triple, NEW c \in Triple
  PROVE  /\ ~ Before(a, a)
         /\ Before(a, b) /\ Before(b, c) => Before(a, c)
         /\ a = b \/ Before(a, b) \/ Before(b, a)
BY DEF Triple, Before

\* A finite set has an element that comes first in an order on it.
LEMMA FirstExists ==
  ASSUME NEW S, IsFiniteSet(S), S # {}, NEW R,
         \A a \in S : <<a, a>> \notin R,
         \A a, b, c \in S : <<a, b>> \in R /\ <<b, c>> \in R => <<a, c>> \in R
  PROVE  \E e \in S : \A f \in S : <<f, e>> \notin R
<1> DEFINE below(e) == {f \in S : <<f, e>> \in R}
           B == {below(e) : e \in S}
<1>1. B # {} /\ B \subseteq FiniteSubsetsOf(S)
  <2>1. FiniteSubsetsOf(S) = SUBSET S
    BY FS_FiniteSubsetsOfFinite
  <2>2. PICK s \in S : TRUE
    OBVIOUS
  <2>3. below(s) \in B
    OBVIOUS
  <2>4. ASSUME NEW t \in B PROVE t \subseteq S
    <3>1. PICK u \in S : t = below(u)
      OBVIOUS
    <3> QED
      BY <3>1
  <2> QED
    BY <2>1, <2>3, <2>4
<1>2. IsWellFoundedOn(StrictSubsetOrdering(S), FiniteSubsetsOf(S))
  BY FS_StrictSubsetOrderingWellFounded
<1> HIDE DEF B
<1>3. PICK b \in B : \A c \in B : ~ (<<c, b>> \in StrictSubsetOrdering(S))
  BY <1>1, <1>2, WFMin
<1>4. PICK e \in S : b = below(e)
  BY DEF B
<1>5. ASSUME NEW f \in S, <<f, e>> \in R PROVE FALSE
  <2>1. below(f) \in B
    BY DEF B
  <2>2. below(f) \subseteq below(e)
    BY <1>5
  <2>3. f \in below(e) /\ f \notin below(f)
    BY <1>5
  <2>4. <<below(f), b>> \in StrictSubsetOrdering(S)
    BY <1>4, <2>2, <2>3 DEF StrictSubsetOrdering
  <2> QED
    BY <1>3, <2>1, <2>4
<1> QED
  BY <1>5

LEMMA LeastOf ==
  ASSUME NEW S, IsFiniteSet(S), S # {}, S \subseteq Triple
  PROVE  Least(S) \in S /\ \A f \in S : ~ Before(f, Least(S))
<1> DEFINE R == {p \in S \X S : Before(p[1], p[2])}
<1>1. \A a, b \in S : <<a, b>> \in R <=> Before(a, b)
  OBVIOUS
<1> HIDE DEF R
<1>2. /\ \A a \in S : <<a, a>> \notin R
      /\ \A a, b, c \in S : <<a, b>> \in R /\ <<b, c>> \in R => <<a, c>> \in R
  BY <1>1, BeforeIsOrder
<1>3. \E e \in S : \A f \in S : <<f, e>> \notin R
  BY ONLY IsFiniteSet(S), S # {}, <1>2, FirstExists
<1> QED
  BY <1>1, <1>3 DEF Least

LEMMA GreatestOf ==
  ASSUME NEW S, IsFiniteSet(S), S # {}, S \subseteq Triple
  PROVE  Greatest(S) \in S /\ \A f \in S : ~ Before(Greatest(S), f)
<1> DEFINE R == {p \in S \X S : Before(p[2], p[1])}
<1>1. \A a, b \in S : <<a, b>> \in R <=> Before(b, a)
  OBVIOUS
<1> HIDE DEF R
<1>2. /\ \A a \in S : <<a, a>> \notin R
      /\ \A a, b, c \in S : <<a, b>> \in R /\ <<b, c>> \in R => <<a, c>> \in R
  BY <1>1, BeforeIsOrder
<1>3. \E e \in S : \A f \in S : <<f, e>> \notin R
  BY ONLY IsFiniteSet(S), S # {}, <1>2, FirstExists
<1> QED
  BY <1>1, <1>3 DEF Greatest

-----------------------------------------------------------------------------
(* The trees                                                               *)

\* The key of row k in index i
KeyOf(i, k) == IF i = 0 THEN PrimaryKey(k) ELSE Entry(i, rows[k], k)

LEMMA TreeTyped == ASSUME Inv, NEW i PROVE Tree(i) \subseteq Triple
<1>1. DOMAIN rows \subseteq Nat /\ entries \subseteq Entries
  BY DEF Inv, Agree, Typed, Table
<1>2. Entries \subseteq Triple
  <2>1. Indexes \subseteq Nat /\ Key \subseteq Nat
    BY DEF Indexes, Inv
  <2> QED
    BY <2>1 DEF Entries, Triple
<1> QED
  BY <1>1, <1>2 DEF Tree, PrimaryKey, Triple

LEMMA TreeFinite == ASSUME Inv, NEW i PROVE IsFiniteSet(Tree(i))
<1>1. IsFiniteSet(DOMAIN rows)
  BY FS_Subset DEF Inv, Agree, Typed, Table
<1>2. IsFiniteSet({PrimaryKey(k) : k \in DOMAIN rows})
  <2> DEFINE T == {PrimaryKey(k) : k \in DOMAIN rows}
             f == [k \in DOMAIN rows |-> PrimaryKey(k)]
  <2>1. f \in Surjection(DOMAIN rows, T)
    BY DEF Surjection
  <2> HIDE DEF f, T
  <2>2. IsFiniteSet(T)
    BY <1>1, <2>1, FS_Surjection
  <2> QED
    BY <2>2 DEF T
<1>3. IsFiniteSet(entries)
  <2> DEFINE T == Indexes \X DOMAIN rows
             f == [e \in entries |-> <<e[1], e[3]>>]
  <2>1. IsFiniteSet(T)
    <3>1. IsFiniteSet(Indexes)
      BY FS_Interval DEF Indexes, Inv
    <3> QED
      BY <1>1, <3>1, FS_Product
  <2>2. Typed(Table) /\ Leads(Table) /\ Table.entries = entries /\ Table.rows = rows
    BY DEF Inv, Agree, Table
  <2>3. \A e \in entries : e[1] \in Indexes /\ e[3] \in DOMAIN rows /\ e = Entry(e[1], rows[e[3]], e[3])
    BY <2>2, EntryOfRow DEF Leads
  <2>4. f \in [entries -> T]
    BY <2>3
  <2>5. IsInjective(f)
    BY <2>3 DEF IsInjective
  <2>6. f \in Injection(entries, T)
    BY <2>4, <2>5 DEF Injection
  <2> HIDE DEF f, T
  <2> QED
    BY <2>1, <2>6, FS_Injection
<1> QED
  BY <1>2, <1>3 DEF Tree

\* Sets of keys to read from: those of a tree, or some of them
LEMMA FirstKey ==
  ASSUME Inv, NEW i, NEW S, S \subseteq Tree(i), S # {}
  PROVE  /\ Least(S) \in S /\ \A f \in S : ~ Before(f, Least(S))
         /\ Greatest(S) \in S /\ \A f \in S : ~ Before(Greatest(S), f)
<1>1. S \subseteq Triple /\ IsFiniteSet(S)
  BY TreeTyped, TreeFinite, FS_Subset
<1> QED
  BY <1>1, LeastOf, GreatestOf

\* As long as no put() has failed, the only secondary index has the keys of
\* the rows, as the tree of the rows has.
Matches(i) ==
  /\ Tree(i) = {KeyOf(i, k) : k \in DOMAIN rows}
  /\ \A k \in DOMAIN rows : KeyOf(i, k)[3] = k

LEMMA TreeMatches ==
  ASSUME Inv, ~ fault, keys <= 2, NEW i \in Indexes \cup {0}
  PROVE  Matches(i)
<1>1. CASE i = 0
  BY <1>1 DEF Matches, Tree, KeyOf, PrimaryKey
<1>2. CASE i # 0
  <2>1. Indexes = {1} /\ i = 1
    BY <1>2 DEF Indexes, Inv
  <2>2. Typed(Table) /\ Leads(Table) /\ Complete(Table) /\ Table.entries = entries /\ Table.rows = rows
    BY DEF Inv, Agree, Table
  <2>3. \A e \in entries : e[3] \in DOMAIN rows /\ e = KeyOf(i, e[3])
    BY <2>1, <2>2, EntryOfRow DEF Leads, KeyOf
  <2>4. \A k \in DOMAIN rows : KeyOf(i, k) \in entries /\ KeyOf(i, k)[3] = k
    BY <2>1, <2>2, EntryParts DEF Complete, KeyOf
  <2> QED
    BY <2>1, <2>3, <2>4 DEF Matches, Tree
<1> QED
  BY <1>1, <1>2

-----------------------------------------------------------------------------
(* Reading a key                                                           *)

\* What Fetch() returns of a set of keys
LEMMA FetchRow ==
  ASSUME Inv, NEW i, NEW S, S \subseteq Tree(i), NEW e, S # {} => e \in S,
         NEW code, Fetch(i, S, e, code), code # "ok"
  PROVE  /\ S = {} => rc' = code /\ out' = 0 /\ UNCHANGED its
         /\ S # {} => /\ rc' = "ok" /\ out' = e[3] /\ e[3] \in DOMAIN rows
                      /\ primary_it' = PrimaryKey(e[3])
                      /\ sec_it' = IF i = 0 THEN sec_it ELSE e
                      /\ i = 0 => e = PrimaryKey(e[3])
<1>1. CASE S = {}
  BY <1>1 DEF Fetch
<1>2. CASE S # {}
  <2>1. e \in Tree(i)
    BY <1>2
  <2>2. e[3] \in DOMAIN rows /\ (i = 0 => e = PrimaryKey(e[3]))
    BY <2>1 DEF Tree, Inv, Agree, Leads, Table, PrimaryKey
  <2> QED
    BY <1>2, <2>2 DEF Fetch
<1> QED
  BY <1>1, <1>2

-----------------------------------------------------------------------------
(* Types and places of the iterators                                       *)

Codes == {"ok", "HA_ERR_FOUND_DUPP_KEY", "HA_ERR_KEY_NOT_FOUND",
          "HA_ERR_END_OF_FILE", "HA_ERR_INTERNAL_ERROR", "HA_ERR_OUT_OF_MEM"}
Scans == {"none", "table", "forward", "backward", "range", "over", "failed"}
PrimaryKeys == {PrimaryKey(k) : k \in Key}

Moving == scan \in {"range", "forward", "backward"} \/ (scan = "table" /\ ~ first_row)

\* The iterator of the active index stands on a key when the scan moves it.
Placed ==
  /\ primary_it \in {None} \cup PrimaryKeys /\ sec_it \in {None} \cup Entries
  /\ active_index \in 0 .. keys - 1 /\ first_row \in BOOLEAN
  /\ rc \in Codes /\ scan \in Scans
  /\ scan = "table" => active_index = 0
  /\ Moving => It # None

LEMMA TypeFromPlaced == Inv /\ Placed => TypeOK
BY DEF Inv, Placed, TypeOK, Agree, Typed, Table, Codes, Scans, PrimaryKeys

LEMMA NotNone ==
  ASSUME NEW a, NEW b, NEW c
  PROVE  <<a, b, c>> # None
BY DEF None

LEMMA KeysAreKeys ==
  ASSUME Inv
  PROVE  /\ \A e \in PrimaryKeys : e # None /\ e[1] = 0 /\ e \in Triple
         /\ \A e \in Entries : e # None /\ e[1] \in Indexes /\ e[1] # 0 /\ e \in Triple
<1>1. Indexes \subseteq Nat \ {0}
  BY DEF Inv, Indexes
<1>2. ASSUME NEW e \in Entries PROVE e # None /\ e[1] \in Indexes /\ e[1] # 0 /\ e \in Triple
  <2>1. e[1] \in Indexes /\ e[2] \in Value /\ e[3] \in Key /\ e = <<e[1], e[2], e[3]>>
    BY DEF Entries
  <2> QED
    BY <1>1, <2>1, NotNone DEF Triple
<1>3. ASSUME NEW e \in PrimaryKeys PROVE e # None /\ e[1] = 0 /\ e \in Triple
  BY NotNone DEF PrimaryKeys, PrimaryKey, Triple
<1> QED
  BY <1>2, <1>3


LEMMA ItInTree ==
  ASSUME Inv, Placed, It # None
  PROVE  It \in Triple /\ Tree(It[1]) = Tree(active_index)
<1>1. active_index = 0 => It \in PrimaryKeys
  BY DEF Placed, It
<1>2. active_index # 0 => It \in Entries
  BY DEF Placed, It
<1> QED
  BY <1>1, <1>2, KeysAreKeys DEF Tree

LEMMA FetchPlaced ==
  ASSUME Inv, Placed, NEW i \in Indexes \cup {0}, NEW S, S \subseteq Tree(i),
         NEW e, S # {} => e \in S, NEW code, code \in Codes \ {"ok"}, Fetch(i, S, e, code),
         keys' = keys, active_index' = i, first_row' \in BOOLEAN,
         NEW s, s \in Scans, s = "table" => i = 0, scan' = IF rc' = "ok" THEN s ELSE "over"
  PROVE  Placed'
<1>1. Entries' = Entries /\ i \in 0 .. keys' - 1
  BY DEF Entries, Indexes, Inv
<1>2. CASE S = {}
  <2>1. rc' = code /\ UNCHANGED its /\ scan' = "over"
    BY <1>2, FetchRow
  <2> QED
    BY <1>1, <2>1 DEF Placed, Moving, its, Scans
<1>3. CASE S # {}
  <2>1. /\ rc' = "ok" /\ primary_it' = PrimaryKey(e[3]) /\ e[3] \in DOMAIN rows
        /\ sec_it' = IF i = 0 THEN sec_it ELSE e
    BY <1>3, FetchRow
  <2>2. DOMAIN rows \subseteq Key /\ entries \subseteq Entries
    BY DEF Inv, Agree, Typed, Table
  <2>3. primary_it' \in PrimaryKeys /\ (i # 0 => sec_it' \in Entries)
    BY <1>3, <2>1, <2>2 DEF PrimaryKeys, Tree
  <2>4. sec_it' \in {None} \cup Entries
    BY <2>1, <2>3 DEF Placed
  <2>5. It' # None
    BY <2>3, KeysAreKeys DEF It
  <2> QED
    BY <1>1, <2>1, <2>3, <2>4, <2>5 DEF Placed, Codes
<1> QED
  BY <1>2, <1>3

LEMMA WriteCodes ==
  /\ \A t, k, r, n : Write(t, k, r, n).rc \in Codes
  /\ \A t, k, r : Delete(t, k, r).rc \in Codes
BY DEF Write, Delete, Outcome, Codes

\* The keys that an iterator moves on to are of the tree of its index.
LEMMA KeysOn ==
  ASSUME Inv, Placed, It # None
  PROVE  /\ AllAfter(It) = {f \in Tree(active_index) : Before(It, f)}
         /\ AllBefore(It) = {f \in Tree(active_index) : Before(f, It)}
BY ItInTree DEF AllAfter, AllBefore

LEMMA FirstPlaced ==
  ASSUME Inv, Placed, NEW i \in Indexes \cup {0}, IndexFirst(i) \/ IndexLast(i)
  PROVE  Placed'
<1>1. CASE IndexFirst(i)
  <2>1. Tree(i) # {} => Least(Tree(i)) \in Tree(i)
    BY FirstKey
  <2> QED
    BY <1>1, <2>1, FetchPlaced DEF IndexFirst, Reads, GoesOn, Codes, Scans, Placed
<1>2. CASE IndexLast(i)
  <2>1. Tree(i) # {} => Greatest(Tree(i)) \in Tree(i)
    BY FirstKey
  <2> QED
    BY <1>2, <2>1, FetchPlaced DEF IndexLast, Reads, GoesOn, Codes, Scans, Placed
<1> QED
  BY <1>1, <1>2

LEMMA NextPlaced ==
  ASSUME Inv, Placed, IndexNext \/ IndexPrev \/ RndFirst \/ RndNext
  PROVE  Placed'
<1>1. active_index \in Indexes \cup {0}
  BY DEF Placed, Indexes, Inv
<1>2. CASE IndexNext \/ RndNext
  <2>1. It # None /\ NextKeys \subseteq Tree(active_index)
    BY <1>2, KeysOn DEF IndexNext, RndNext, Placed, Moving, NextKeys
  <2>2. NextKeys # {} => Least(NextKeys) \in NextKeys
    BY <2>1, FirstKey
  <2>3. \E c : Advance(c)
    BY <1>2 DEF IndexNext, RndNext
  <2> QED
    BY <1>1, <2>1, <2>2, <2>3, FetchPlaced DEF Advance, Reads, GoesOn, Codes, Scans, Placed
<1>3. CASE IndexPrev
  <2>1. It # None /\ AllBefore(It) \subseteq Tree(active_index)
    BY <1>3, KeysOn DEF IndexPrev, Placed, Moving
  <2>2. AllBefore(It) # {} => Greatest(AllBefore(It)) \in AllBefore(It)
    BY <2>1, FirstKey
  <2> QED
    BY <1>1, <1>3, <2>1, <2>2, FetchPlaced DEF IndexPrev, Reads, GoesOn, Codes, Scans, Placed
<1>4. CASE RndFirst
  <2>1. Tree(0) # {} => Least(Tree(0)) \in Tree(0)
    BY FirstKey
  <2> QED
    BY <1>4, <2>1, FetchPlaced DEF RndFirst, Reads, GoesOn, Codes, Scans, Placed
<1> QED
  BY <1>2, <1>3, <1>4

LEMMA ChangePlaced ==
  ASSUME Inv, Inv', Placed, NEW k \in Key, NEW r \in Row,
         WriteRow(k, r) \/ DeleteRow \/ UpdateRow(k, r)
  PROVE  Placed'
<1>1. rc' \in Codes /\ keys' = keys
  BY WriteCodes DEF WriteRow, DeleteRow, UpdateRow, Changes, Update
<1>2. Entries' = Entries /\ entries' \subseteq Entries
  BY <1>1 DEF Entries, Indexes, Inv, Agree, Typed, Table
<1>3. /\ scan' \in {scan, "failed"}
      /\ UNCHANGED <<primary_it, active_index, first_row>>
  BY DEF WriteRow, DeleteRow, UpdateRow, KeepScan, StillNoScan, its
<1>4. sec_it' = sec_it \/ (sec_it # None /\ sec_it' \in Entries)
  BY <1>2 DEF WriteRow, DeleteRow, UpdateRow, StillNoScan, its
<1>5. It # None => It' # None
  BY <1>3, <1>4, KeysAreKeys DEF It
<1> QED
  BY <1>1, <1>2, <1>3, <1>4, <1>5 DEF Placed, Moving, Scans

LEMMA ReadPlaced ==
  ASSUME Inv, Placed, NEW i \in Indexes \cup {0}, NEW v, NEW flag \in Flags, IndexRead(i, v, flag)
  PROVE  Placed'
<1> DEFINE exact == flag = "HA_READ_KEY_EXACT"
           S == IF exact THEN OfPrefix(Candidates(i, v, flag), i, v) ELSE Candidates(i, v, flag)
           forward == flag \in {"HA_READ_KEY_EXACT", "HA_READ_KEY_OR_NEXT", "HA_READ_AFTER_KEY"}
           e == IF forward THEN Least(S) ELSE Greatest(S)
<1>1. /\ Fetch(i, S, e, "HA_ERR_KEY_NOT_FOUND") /\ GoesOn("range", {}, FALSE)
      /\ active_index' = i /\ keys' = keys /\ first_row' = first_row
  BY DEF IndexRead
<1>2. Candidates(i, v, flag) \subseteq Tree(i)
  BY DEF Candidates, Flags, From, UpTo, AllAfter, AllBefore, Tree, PrimaryKey
<1>3. S \subseteq Tree(i)
  BY <1>2 DEF OfPrefix
<1> HIDE DEF S
<1>4. S # {} => e \in S
  BY <1>3, FirstKey
<1> HIDE DEF e
<1> QED
  BY <1>1, <1>3, <1>4, FetchPlaced DEF GoesOn, Codes, Scans, Placed

LEMMA PlacedNext == Inv /\ Inv' /\ Placed /\ [Next]_vars => Placed'
<1> SUFFICES ASSUME Inv, Inv', Placed, [Next]_vars PROVE Placed'
  OBVIOUS
<1>1. ASSUME NEW k \in Key, NEW r \in Row, WriteRow(k, r) \/ UpdateRow(k, r) PROVE Placed'
  BY <1>1, ChangePlaced
<1>2. CASE DeleteRow
  <2>1. PICK k \in Key, r \in Row : TRUE
    BY <1>2 DEF DeleteRow, HasRow, Inv, Agree, Typed, Table
  <2> QED
    BY <1>2, <2>1, ChangePlaced
<1>3. ASSUME NEW i \in Indexes \cup {0}, IndexFirst(i) \/ IndexLast(i) PROVE Placed'
  BY <1>3, FirstPlaced
<1>4. CASE IndexNext \/ IndexPrev \/ RndFirst \/ RndNext
  BY <1>4, NextPlaced
<1>5. CASE RndInit
  BY <1>5 DEF RndInit, Reads, Placed, Moving, Codes, Scans, Entries, Indexes, its, Inv
<1>6. CASE EndScan
  <2>1. /\ keys' = keys /\ active_index' = 0 /\ scan' = "none" /\ rc' = "ok" /\ first_row' = FALSE
        /\ primary_it' = None /\ sec_it' = None
    BY <1>6 DEF EndScan, Reads
  <2>2. 0 \in 0 .. keys - 1
    BY DEF Inv
  <2> QED
    BY <2>1, <2>2 DEF Placed, Moving, Codes, Scans
<1>7. ASSUME NEW k \in Key, RndPos(k) PROVE Placed'
  BY <1>7 DEF RndPos, Reads, StillNoScan, NoScan, Placed, Moving, Codes, Scans, Entries, Indexes, its
<1>8. ASSUME NEW i \in Indexes \cup {0}, NEW v, NEW flag \in Flags, IndexRead(i, v, flag) PROVE Placed'
  BY <1>8, ReadPlaced
<1>9. CASE UNCHANGED vars
  BY <1>9 DEF vars, its, data, Placed, Moving, It, Entries, Indexes
<1> QED
  BY <1>1, <1>2, <1>3, <1>4, <1>5, <1>6, <1>7, <1>8, <1>9 DEF Next

-----------------------------------------------------------------------------
(* The rows that a scan has still to return                                *)

RowsOf(i, S) == {k \in DOMAIN rows : KeyOf(i, k) \in S}
Ahead == {k \in DOMAIN rows : Before(It, KeyOf(active_index, k))}
Behind == {k \in DOMAIN rows : Before(KeyOf(active_index, k), It)}

\* While no put() has failed, a scan of the rows or of the only secondary index
\* has still to return the rows that its iterator has in front of it.
ScanInv ==
  ~ fault /\ keys <= 2 =>
    /\ ~ again
    /\ scan \in {"none", "range", "over"} => left = {}
    /\ scan = "table" /\ first_row => left = DOMAIN rows
    /\ (scan = "table" /\ ~ first_row) \/ scan = "forward" => left = Ahead
    /\ scan = "backward" => left = Behind

LEMMA FetchLeast ==
  ASSUME Inv, NEW i, Matches(i), NEW S, S \subseteq Tree(i),
         \A e \in S, f \in Tree(i) : Before(e, f) => f \in S,
         NEW code, code # "ok", Fetch(i, S, Least(S), code),
         active_index' = i, UNCHANGED rows
  PROVE  /\ rc' # "ok" => RowsOf(i, S) = {}
         /\ rc' = "ok" => out' \in RowsOf(i, S) /\ RowsOf(i, S) \ {out'} = Ahead'
<1>1. CASE S = {}
  BY <1>1, FetchRow DEF RowsOf
<1>2. CASE S # {}
  <2> DEFINE e == Least(S)
  <2>1. e \in S /\ \A f \in S : ~ Before(f, e)
    BY <1>2, FirstKey
  <2> HIDE DEF e
  <2>2. /\ rc' = "ok" /\ out' = e[3] /\ e[3] \in DOMAIN rows /\ primary_it' = PrimaryKey(e[3])
        /\ (sec_it' = IF i = 0 THEN sec_it ELSE e) /\ (i = 0 => e = PrimaryKey(e[3]))
    BY <1>2, <2>1, FetchRow DEF e
  <2>3. It' = e
    BY <2>2 DEF It
  <2>4. e = KeyOf(i, e[3])
    BY <2>1 DEF Matches
  <2>5. Ahead' = {k \in DOMAIN rows : Before(e, KeyOf(i, k))}
    BY <2>3 DEF Ahead, KeyOf
  <2>6. S \subseteq Triple /\ Tree(i) \subseteq Triple
    BY TreeTyped
  <2>7. ASSUME NEW k \in DOMAIN rows
        PROVE  KeyOf(i, k) \in S /\ k # e[3] <=> Before(e, KeyOf(i, k))
    <3>1. KeyOf(i, k) \in Tree(i) /\ KeyOf(i, k)[3] = k
      BY DEF Matches
    <3> QED
      BY <2>1, <2>4, <2>6, <3>1, BeforeIsOrder
  <2> QED
    BY <2>1, <2>2, <2>4, <2>5, <2>7 DEF RowsOf
<1> QED
  BY <1>1, <1>2

LEMMA FetchGreatest ==
  ASSUME Inv, NEW i, Matches(i), NEW S, S \subseteq Tree(i),
         \A e \in S, f \in Tree(i) : Before(f, e) => f \in S,
         NEW code, code # "ok", Fetch(i, S, Greatest(S), code),
         active_index' = i, UNCHANGED rows
  PROVE  /\ rc' # "ok" => RowsOf(i, S) = {}
         /\ rc' = "ok" => out' \in RowsOf(i, S) /\ RowsOf(i, S) \ {out'} = Behind'
<1>1. CASE S = {}
  BY <1>1, FetchRow DEF RowsOf
<1>2. CASE S # {}
  <2> DEFINE e == Greatest(S)
  <2>1. e \in S /\ \A f \in S : ~ Before(e, f)
    BY <1>2, FirstKey
  <2> HIDE DEF e
  <2>2. /\ rc' = "ok" /\ out' = e[3] /\ e[3] \in DOMAIN rows /\ primary_it' = PrimaryKey(e[3])
        /\ (sec_it' = IF i = 0 THEN sec_it ELSE e) /\ (i = 0 => e = PrimaryKey(e[3]))
    BY <1>2, <2>1, FetchRow DEF e
  <2>3. It' = e
    BY <2>2 DEF It
  <2>4. e = KeyOf(i, e[3])
    BY <2>1 DEF Matches
  <2>5. Behind' = {k \in DOMAIN rows : Before(KeyOf(i, k), e)}
    BY <2>3 DEF Behind, KeyOf
  <2>6. S \subseteq Triple /\ Tree(i) \subseteq Triple
    BY TreeTyped
  <2>7. ASSUME NEW k \in DOMAIN rows
        PROVE  KeyOf(i, k) \in S /\ k # e[3] <=> Before(KeyOf(i, k), e)
    <3>1. KeyOf(i, k) \in Tree(i) /\ KeyOf(i, k)[3] = k
      BY DEF Matches
    <3> QED
      BY <2>1, <2>4, <2>6, <3>1, BeforeIsOrder
  <2> QED
    BY <2>1, <2>2, <2>4, <2>5, <2>7 DEF RowsOf
<1> QED
  BY <1>1, <1>2

LEMMA FirstScan ==
  ASSUME Inv, NEW i \in Indexes \cup {0}, IndexFirst(i) \/ IndexLast(i)
  PROVE  ScanInv'
<1>1. /\ GoesOn("forward", DOMAIN rows, FALSE) \/ GoesOn("backward", DOMAIN rows, FALSE)
      /\ active_index' = i /\ UNCHANGED <<keys, data>>
  BY DEF IndexFirst, IndexLast, Reads
<1>2. UNCHANGED <<keys, rows, entries, fault>>
  BY <1>1 DEF data
<1> SUFFICES ASSUME ~ fault, keys <= 2 PROVE ScanInv'
  BY <1>2 DEF ScanInv
<1>3. Matches(i)
  BY TreeMatches
<1>4. DOMAIN rows = RowsOf(i, Tree(i))
  BY <1>3 DEF Matches, RowsOf
<1>5. CASE IndexFirst(i)
  <2>1. /\ rc' # "ok" => DOMAIN rows = {}
        /\ rc' = "ok" => out' \in DOMAIN rows /\ DOMAIN rows \ {out'} = Ahead'
    <3>1. Fetch(i, Tree(i), Least(Tree(i)), "HA_ERR_KEY_NOT_FOUND")
      BY <1>5 DEF IndexFirst
    <3> QED
      BY ONLY Inv, <1>1, <1>2, <1>3, <1>4, <3>1, FetchLeast
  <2>2. GoesOn("forward", DOMAIN rows, FALSE)
    BY <1>5 DEF IndexFirst
  <2> QED
    BY <2>1, <2>2 DEF GoesOn, ScanInv
<1>6. CASE IndexLast(i)
  <2>1. /\ rc' # "ok" => DOMAIN rows = {}
        /\ rc' = "ok" => out' \in DOMAIN rows /\ DOMAIN rows \ {out'} = Behind'
    <3>1. Fetch(i, Tree(i), Greatest(Tree(i)), "HA_ERR_KEY_NOT_FOUND")
      BY <1>6 DEF IndexLast
    <3> QED
      BY ONLY Inv, <1>1, <1>2, <1>3, <1>4, <3>1, FetchGreatest
  <2>2. GoesOn("backward", DOMAIN rows, FALSE)
    BY <1>6 DEF IndexLast
  <2> QED
    BY <2>1, <2>2 DEF GoesOn, ScanInv
<1> QED
  BY <1>5, <1>6

\* The rows in front of the iterator are those whose keys next() can come to.
LEMMA AheadIsNext ==
  ASSUME Inv, Placed, It # None, Matches(active_index)
  PROVE  /\ Ahead = RowsOf(active_index, NextKeys)
         /\ \A e \in NextKeys, f \in Tree(active_index) : Before(e, f) => f \in NextKeys
         /\ Behind = RowsOf(active_index, AllBefore(It))
         /\ \A e \in AllBefore(It), f \in Tree(active_index) : Before(f, e) => f \in AllBefore(It)
<1>1. /\ NextKeys = {f \in Tree(active_index) : Before(It, f)}
      /\ AllBefore(It) = {f \in Tree(active_index) : Before(f, It)}
  BY KeysOn DEF NextKeys
<1>2. It \in Triple /\ Tree(active_index) \subseteq Triple
  BY ItInTree, TreeTyped
<1> QED
  BY <1>1, <1>2, BeforeIsOrder DEF Ahead, Behind, Matches, RowsOf

LEMMA NextScan ==
  ASSUME Inv, Placed, ScanInv, IndexNext \/ IndexPrev \/ RndFirst \/ RndNext
  PROVE  ScanInv'
<1>1. /\ \E s \in Scans : s = scan /\ GoesOn(s, left, again)
      /\ active_index' = active_index /\ UNCHANGED <<keys, data>>
  BY DEF IndexNext, IndexPrev, RndFirst, RndNext, Advance, Reads, Placed
<1>2. UNCHANGED <<keys, rows, entries, fault>>
  BY <1>1 DEF data
<1> SUFFICES ASSUME ~ fault, keys <= 2 PROVE ScanInv'
  BY <1>2 DEF ScanInv
<1>3. active_index \in Indexes \cup {0}
  BY DEF Placed, Indexes, Inv
<1>4. Matches(active_index)
  BY <1>3, TreeMatches
<1>5. /\ scan' = IF rc' = "ok" THEN scan ELSE "over"
      /\ left' = left \ {out'}
      /\ again' = (again \/ (rc' = "ok" /\ scan # "range" /\ out' \notin left))
  BY <1>1 DEF GoesOn
<1>6. CASE (IndexNext /\ scan = "forward") \/ RndNext
  <2>1. It # None /\ left = Ahead /\ ~ again /\ first_row' = first_row
    BY <1>6 DEF Placed, Moving, ScanInv, RndNext, IndexNext, Advance
  <2>2. Fetch(active_index, NextKeys, Least(NextKeys), "HA_ERR_END_OF_FILE")
    BY <1>6 DEF RndNext, IndexNext, Advance
  <2>3. NextKeys \subseteq Tree(active_index)
    BY <2>1, KeysOn DEF NextKeys
  <2>4. /\ rc' # "ok" => left = {}
        /\ rc' = "ok" => out' \in left /\ left \ {out'} = Ahead'
    BY <1>1, <1>2, <1>4, <2>1, <2>2, <2>3, AheadIsNext, FetchLeast
  <2> QED
    BY <1>5, <1>6, <2>1, <2>4 DEF ScanInv, RndNext
<1>7. CASE IndexPrev /\ scan = "backward"
  <2>1. It # None /\ left = Behind /\ ~ again
    BY <1>7 DEF Placed, Moving, ScanInv
  <2>2. Fetch(active_index, AllBefore(It), Greatest(AllBefore(It)), "HA_ERR_END_OF_FILE")
    BY <1>7 DEF IndexPrev
  <2>3. AllBefore(It) \subseteq Tree(active_index)
    BY <2>1, KeysOn
  <2>4. /\ rc' # "ok" => left = {}
        /\ rc' = "ok" => out' \in left /\ left \ {out'} = Behind'
    BY <1>1, <1>2, <1>4, <2>1, <2>2, <2>3, AheadIsNext, FetchGreatest
  <2> QED
    BY <1>5, <1>7, <2>1, <2>4 DEF ScanInv
<1>8. CASE scan = "range"
  <2>1. left = {} /\ ~ again
    BY <1>8 DEF ScanInv
  <2> QED
    BY <1>5, <1>8, <2>1 DEF ScanInv
<1>9. CASE RndFirst
  <2>1. left = DOMAIN rows /\ ~ again /\ active_index = 0 /\ first_row' = FALSE
    BY <1>9 DEF RndFirst, ScanInv, Placed
  <2>2. Fetch(active_index, Tree(active_index), Least(Tree(active_index)), "HA_ERR_KEY_NOT_FOUND")
    BY <1>9, <2>1 DEF RndFirst
  <2>3. DOMAIN rows = RowsOf(active_index, Tree(active_index))
    BY <1>4 DEF Matches, RowsOf
  <2>4. /\ rc' # "ok" => left = {}
        /\ rc' = "ok" => out' \in left /\ left \ {out'} = Ahead'
    BY <1>1, <1>2, <1>4, <2>1, <2>2, <2>3, FetchLeast
  <2> QED
    BY <1>5, <1>9, <2>1, <2>4 DEF ScanInv, RndFirst
<1> QED
  BY <1>6, <1>7, <1>8, <1>9 DEF IndexNext, IndexPrev

LEMMA DeleteScan == ASSUME Inv, ScanInv, DeleteRow PROVE ScanInv'
<1> DEFINE o == Delete(Table, out, rows[out])
<1>1. out \in DOMAIN rows
  BY DEF DeleteRow, HasRow, Inv
<1>2. /\ Changes(o, FALSE) /\ KeepScan(o, left \ {out})
      /\ UNCHANGED <<primary_it, sec_it, active_index, first_row>>
  BY DEF DeleteRow, its
<1>3. o.t.rows = Restrict(rows, DOMAIN rows \ {out})
  BY <1>1 DEF Delete, Outcome, Table
<1>4. keys' = keys /\ (fault => fault') /\ rows' = Restrict(rows, DOMAIN rows \ {out})
  BY <1>2, <1>3 DEF Changes
<1>5. /\ scan' = IF o.rc = "ok" \/ NoScan THEN scan ELSE "failed"
      /\ left' = left \ {out} /\ again' = again
  BY <1>2 DEF KeepScan
<1> HIDE DEF o
<1>6. /\ DOMAIN rows' = DOMAIN rows \ {out}
      /\ \A k \in DOMAIN rows' : rows'[k] = rows[k]
  BY <1>4 DEF Restrict
<1>7. It' = It
  BY <1>2 DEF It
<1>8. \A k \in DOMAIN rows' : KeyOf(active_index, k)' = KeyOf(active_index, k)
  BY <1>2, <1>6 DEF KeyOf, Entry
<1>9. Ahead' = Ahead \ {out} /\ Behind' = Behind \ {out}
  BY <1>2, <1>6, <1>7, <1>8 DEF Ahead, Behind
<1> QED
  BY <1>2, <1>4, <1>5, <1>6, <1>9 DEF ScanInv

\* What a scan sees of an update: the row keeps its key, and a secondary index
\* that is alone gets no entry that it did not have.
LEMMA UpdateScan ==
  ASSUME Inv, Placed, ScanInv, NEW k \in Key, NEW r \in Row, UpdateRow(k, r)
  PROVE  ScanInv'
<1> DEFINE d == Delete(Table, out, rows[out])
<1>1. out \in DOMAIN rows
  BY DEF UpdateRow, HasRow, Inv
<1>2. PICK n \in Puts(d.t, k, r) :
        /\ Changes(Update(k, r, n), d.rc = "ok" /\ k \notin DOMAIN d.t.rows /\ PutFails(d.t, k, r, n))
        /\ KeepScan(Update(k, r, n), left)
  BY DEF UpdateRow
<1> DEFINE o == Update(k, r, n)
           failed == d.rc = "ok" /\ k \notin DOMAIN d.t.rows /\ PutFails(d.t, k, r, n)
<1> HIDE DEF o, failed
<1>3. /\ keys' = keys /\ (fault => fault') /\ rows' = o.t.rows /\ entries' = o.t.entries
  BY <1>2 DEF Changes, o, failed
<1>4. /\ scan' = IF o.rc = "ok" \/ NoScan THEN scan ELSE "failed"
      /\ left' = left /\ again' = again
      /\ UNCHANGED <<primary_it, active_index, first_row>>
  BY <1>2 DEF KeepScan, UpdateRow, o
<1> SUFFICES ASSUME ~ fault, keys <= 2, o.rc = "ok", ~ NoScan PROVE ScanInv'
  BY <1>3, <1>4 DEF ScanInv, NoScan
<1>5. k = out /\ (active_index # 0 => r[active_index] = rows[out][active_index])
  BY DEF UpdateRow
<1>6. /\ d.t.rows = Restrict(rows, DOMAIN rows \ {out})
      /\ d.t.entries \subseteq entries
  BY <1>1 DEF Delete, Outcome, Table
<1>7. o = Write(d.t, k, r, n)
  BY DEF o, Update, Delete, Outcome
<1> HIDE DEF d
<1>8. /\ rows' = [l \in DOMAIN d.t.rows \cup {k} |-> IF l = k THEN r ELSE d.t.rows[l]]
      /\ entries' = d.t.entries \cup {Entry(i, r, k) : i \in 1 .. n} /\ n = keys - 1
  BY <1>3, <1>7 DEF Write, Outcome, Added
<1>9. /\ DOMAIN rows' = DOMAIN rows /\ rows'[out] = r
      /\ \A l \in DOMAIN rows : l # out => rows'[l] = rows[l]
  BY <1>1, <1>5, <1>6, <1>8 DEF Restrict
<1>10. \A l \in DOMAIN rows : KeyOf(active_index, l)' = KeyOf(active_index, l)
  BY <1>4, <1>5, <1>9 DEF KeyOf, Entry
<1>11. It' = It
  <2>1. CASE active_index = 0
    BY <1>4, <2>1 DEF It
  <2>2. CASE active_index # 0
    <3>1. keys = 2 /\ active_index = 1 /\ 1 \in Indexes
      BY <2>2 DEF Placed, Inv, Indexes
    <3>2. Entry(1, rows[out], out) \in entries
      BY <1>1, <3>1 DEF Inv, Complete, Table
    <3>3. Entry(1, r, k) \in entries
      BY <1>5, <3>1, <3>2 DEF Entry
    <3>4. entries' \subseteq entries
      BY <1>6, <1>8, <3>1, <3>3
    <3> QED
      BY <1>4, <3>4 DEF UpdateRow, It
  <2> QED
    BY <2>1, <2>2
<1>12. Ahead' = Ahead /\ Behind' = Behind
  BY <1>4, <1>9, <1>10, <1>11 DEF Ahead, Behind
<1> QED
  BY <1>3, <1>4, <1>9, <1>12 DEF ScanInv

LEMMA ScanNext == Inv /\ Placed /\ ScanInv /\ [Next]_vars => ScanInv'
<1> SUFFICES ASSUME Inv, Placed, ScanInv, [Next]_vars PROVE ScanInv'
  OBVIOUS
<1>1. ASSUME NEW k \in Key, NEW r \in Row, WriteRow(k, r) \/ UpdateRow(k, r) PROVE ScanInv'
  <2>1. CASE WriteRow(k, r)
    <3>1. keys' = keys /\ (fault => fault')
      BY <2>1 DEF WriteRow, Changes
    <3>2. scan = "none" /\ UNCHANGED <<scan, left, again>>
      BY <2>1 DEF WriteRow, StillNoScan, NoScan
    <3> QED
      BY <3>1, <3>2 DEF ScanInv
  <2> QED
    BY <1>1, <2>1, UpdateScan
<1>2. CASE DeleteRow
  BY <1>2, DeleteScan
<1>3. ASSUME NEW i \in Indexes \cup {0}, IndexFirst(i) \/ IndexLast(i) PROVE ScanInv'
  BY <1>3, FirstScan
<1>4. CASE IndexNext \/ IndexPrev \/ RndFirst \/ RndNext
  BY <1>4, NextScan
<1>5. CASE RndInit
  BY <1>5 DEF RndInit, Reads, data, ScanInv
<1>6. CASE EndScan
  BY <1>6 DEF EndScan, ScanInv
<1>7. ASSUME NEW k \in Key, RndPos(k) PROVE ScanInv'
  BY <1>7 DEF RndPos, Reads, data, StillNoScan, NoScan, ScanInv
<1>8. ASSUME NEW i, NEW v, NEW flag, IndexRead(i, v, flag) PROVE ScanInv'
  BY <1>8 DEF IndexRead, GoesOn, ScanInv
<1>9. CASE UNCHANGED vars
  <2>1. UNCHANGED <<keys, rows, entries, fault, primary_it, sec_it, active_index, first_row, scan, left, again>>
    BY <1>9 DEF vars, data, its, aux
  <2>2. Ahead' = Ahead /\ Behind' = Behind
    BY <2>1 DEF Ahead, Behind, It, KeyOf
  <2> QED
    BY <2>1, <2>2 DEF ScanInv
<1> QED
  BY <1>1, <1>2, <1>3, <1>4, <1>5, <1>6, <1>7, <1>8, <1>9 DEF Next

-----------------------------------------------------------------------------
(* index_read() of an exact value                                          *)

\* The key looked for, or the place in front of the entries of the value
FirstOf(i, v) == IF i = 0 THEN PrimaryKey(v) ELSE <<i, v, 0>>

\* When a row has the value, the first key that is not before that place is a
\* key of the value.
LEMMA ExactFound ==
  ASSUME Inv, NEW i \in Indexes \cup {0}, NEW v, i = 0 => v \in Key, i # 0 => v \in Value,
         NEW k \in DOMAIN rows, KeyOf(i, k) \in Tree(i),
         v = IF i = 0 THEN k ELSE rows[k][i]
  PROVE  OfPrefix({e \in From(FirstOf(i, v)) : e = Least(From(FirstOf(i, v)))}, i, v) # {}
<1> DEFINE a == FirstOf(i, v)
           e == Least(From(a))
           f == KeyOf(i, k)
<1>1. a \in Triple /\ a[1] = i /\ (i = 0 => a = PrimaryKey(v)) /\ (i # 0 => a = <<i, v, 0>>)
  <2>1. i \in Nat
    BY DEF Indexes, Inv
  <2>2. v \in Nat
    OBVIOUS
  <2> QED
    BY <2>1, <2>2 DEF FirstOf, PrimaryKey, Triple
<1>2. Tree(a[1]) = Tree(i) /\ Tree(i) \subseteq Triple
  BY <1>1, TreeTyped
<1>3. f[1] = i /\ (i = 0 => f = a) /\ (i # 0 => f[2] = v) /\ f \in Triple
  BY <1>1, <1>2 DEF KeyOf, PrimaryKey, Entry
<1> HIDE DEF f, a
<1>4. f \in From(a)
  BY <1>1, <1>2, <1>3 DEF From, Before, Triple, f
<1>5. From(a) \subseteq Tree(i)
  BY <1>2 DEF From
<1>6. e \in From(a) /\ ~ Before(f, e)
  BY <1>4, <1>5, FirstKey
<1> HIDE DEF e
<1>7. e \in Triple /\ ~ Before(e, a)
  BY <1>2, <1>6 DEF From
<1>8. CASE i = 0
  <2>1. e = a
    BY <1>1, <1>3, <1>6, <1>7, <1>8, BeforeIsOrder
  <2> QED
    BY <1>1, <1>6, <1>8, <2>1 DEF OfPrefix, e, a
<1>9. CASE i # 0
  <2>1. e[1] = i /\ e[2] = v
    BY <1>1, <1>3, <1>6, <1>7, <1>9 DEF Before, Triple
  <2> QED
    BY <1>6, <1>9, <2>1 DEF OfPrefix, e, a
<1> QED
  BY <1>8, <1>9

LEMMA ExactRead ==
  ASSUME Inv, NEW i \in Indexes \cup {0}, NEW v, i = 0 => v \in Key, i # 0 => v \in Value,
         NEW flag \in Flags, IndexRead(i, v, flag), asked' # {}
  PROVE  ExactReadIsRight'
<1> DEFINE S == OfPrefix({e \in From(FirstOf(i, v)) : e = Least(From(FirstOf(i, v)))}, i, v)
           has(k) == (IF i = 0 THEN k ELSE rows[k][i]) = v
<1>1. /\ flag = "HA_READ_KEY_EXACT" /\ asked' = {v} /\ active_index' = i
      /\ UNCHANGED <<keys, data>>
  BY DEF IndexRead
<1>2. UNCHANGED <<rows, entries, fault>>
  BY <1>1 DEF data
<1>3. Fetch(i, S, Least(S), "HA_ERR_KEY_NOT_FOUND")
  BY <1>1 DEF IndexRead, Candidates, FirstOf
<1>4. S \subseteq Tree(i)
  BY DEF OfPrefix, From, Tree, FirstOf, PrimaryKey
<1>5. \A e \in S : IF i = 0 THEN e = PrimaryKey(v) ELSE e[2] = v /\ e[1] = i
  BY DEF OfPrefix
<1>6. \A k \in DOMAIN rows : has(k) /\ KeyOf(i, k) \in Tree(i) => S # {}
  BY ExactFound
<1> HIDE DEF S
<1>7. S # {} => Least(S) \in S
  BY <1>4, FirstKey
<1>8. /\ S = {} => rc' # "ok"
      /\ S # {} => rc' = "ok" /\ out' = Least(S)[3]
  BY <1>3, <1>4, <1>7, FetchRow
<1>9. S # {} => has(out')
  <2>1. \A e \in entries : rows[e[3]][e[1]] = e[2]
    BY DEF Inv, Agree, Leads, Table
  <2> QED
    BY <1>4, <1>5, <1>7, <1>8, <2>1 DEF Tree, PrimaryKey
<1>10. ~ fault => \A k \in DOMAIN rows : KeyOf(i, k) \in Tree(i)
  BY DEF Inv, Complete, Table, KeyOf, Tree
<1>11. S = {} => fault \/ \A k \in DOMAIN rows : ~ has(k)
  BY <1>6, <1>10
<1> QED
  BY <1>1, <1>2, <1>8, <1>9, <1>11 DEF ExactReadIsRight

LEMMA ExactNext == Inv /\ ExactReadIsRight /\ [Next]_vars => ExactReadIsRight'
<1> SUFFICES ASSUME Inv, ExactReadIsRight, [Next]_vars PROVE ExactReadIsRight'
  OBVIOUS
<1>1. CASE asked' = {}
  BY <1>1 DEF ExactReadIsRight
<1>2. CASE UNCHANGED vars
  BY <1>2 DEF vars, data, ExactReadIsRight
<1>3. ASSUME NEW i \in Indexes \cup {0}, NEW v, i = 0 => v \in Key, i # 0 => v \in Value,
             NEW flag \in Flags, IndexRead(i, v, flag)
      PROVE  ExactReadIsRight'
  BY <1>1, <1>3, ExactRead
<1>4. ASSUME NEW k, NEW r, WriteRow(k, r) \/ UpdateRow(k, r) \/ DeleteRow PROVE asked' = {}
  BY <1>4 DEF WriteRow, UpdateRow, DeleteRow, Changes
<1>5. ASSUME NEW i, \/ IndexFirst(i) \/ IndexLast(i) \/ IndexNext \/ IndexPrev
                    \/ RndInit \/ RndFirst \/ RndNext \/ EndScan \/ RndPos(i)
      PROVE  asked' = {}
  BY <1>5 DEF IndexFirst, IndexLast, IndexNext, IndexPrev, RndInit, RndFirst, RndNext, EndScan,
              RndPos, Advance, Reads
<1>6. \A i \in Indexes : i # 0
  BY DEF Indexes, Inv
<1> QED
  BY <1>1, <1>2, <1>3, <1>4, <1>5, <1>6 DEF Next

-----------------------------------------------------------------------------
(* The theorems about reading                                              *)

LEMMA InitRest == Init => Placed /\ ScanInv /\ ExactReadIsRight
<1> SUFFICES ASSUME Init PROVE Placed /\ ScanInv /\ ExactReadIsRight
  OBVIOUS
<1>1. Placed
  <2>1. 0 \in 0 .. keys - 1 /\ scan = "none" /\ rc = "ok" /\ primary_it = None /\ sec_it = None
    BY DEF Init
  <2> QED
    BY <2>1 DEF Init, Placed, Moving, Codes, Scans
<1>2. ScanInv /\ ExactReadIsRight
  BY DEF Init, ScanInv, ExactReadIsRight
<1> QED
  BY <1>1, <1>2

LEMMA RestHolds == Spec => [](Placed /\ ScanInv /\ ExactReadIsRight)
<1>1. Inv /\ Inv' /\ (Placed /\ ScanInv /\ ExactReadIsRight) /\ [Next]_vars
        => (Placed /\ ScanInv /\ ExactReadIsRight)'
  BY PlacedNext, ScanNext, ExactNext
<1> QED
  BY <1>1, InitRest, InvHolds, PTL DEF Spec

\* The trees hold keys of their kinds, an iterator stands on such a key, and
\* the row in the server's buffer is one that is stored.
THEOREM TypeCorrect == Spec => []TypeOK
BY TypeFromPlaced, InvHolds, RestHolds, PTL

\* A scan of the rows, or of the only secondary index, returns each row once,
\* whatever the statement does with the rows it has got.
THEOREM ScanTheorem == Spec => []ScanReturnsEachRowOnce
<1>1. ScanInv => ScanReturnsEachRowOnce
  BY DEF ScanInv, ScanReturnsEachRowOnce
<1> QED
  BY <1>1, RestHolds, PTL

\* A read of an exact value finds a row that has it when there is one.
THEOREM ExactReadTheorem == Spec => []ExactReadIsRight
BY RestHolds, PTL
=============================================================================
