-------------------------- MODULE NodeSearchProofs --------------------------
(***************************************************************************)
(* The binary searches of a node are right for nodes of every size and     *)
(* every comparison function that is ascending along the node.  The        *)
(* invariant says what the window [lo, hi) leaves out: below it all items  *)
(* are too small, from hi on none is.                                      *)
(***************************************************************************)
EXTENDS NodeSearch, TLAPS

Window ==
  /\ Ascending(cmp)
  /\ \A i \in 1 .. lo : cmp[i] < 0
  /\ \A i \in hi + 1 .. Len(cmp) : cmp[i] >= 0 /\ (op = "find" => cmp[i] > 0)

Inv == TypeOK /\ LubIsLeast /\ FindIsRight /\ (~ done => Window)

LEMMA InitInv == Init => Inv
<1> SUFFICES ASSUME Init PROVE Inv
  OBVIOUS
<1> PICK n \in 0 .. MaxCount : \E s \in [1 .. n -> Sign] : Ascending(s) /\ cmp = s
  BY DEF Init
<1>1. cmp \in [1 .. n -> Sign] /\ Ascending(cmp) /\ n \in Nat
  BY CountAssumption
<1>2. cmp \in Seq(Sign) /\ Len(cmp) = n
  BY <1>1
<1>3. lo = 0 /\ hi = n /\ done = FALSE /\ ret = 0 /\ op \in {"lub", "find"}
  BY <1>2 DEF Init
<1>4. TypeOK
  <2>1. cmp \in Seq(Sign)
    BY <1>2
  <2>2. op \in {"lub", "find"}
    BY <1>3
  <2>3. lo \in 0 .. Len(cmp) /\ hi \in lo .. Len(cmp)
    BY <1>1, <1>2, <1>3
  <2>4. done \in BOOLEAN
    BY <1>3
  <2>5. ret \in {-1} \cup (0 .. Len(cmp))
    BY <1>1, <1>2, <1>3
  <2> QED
    BY <2>1, <2>2, <2>3, <2>4, <2>5 DEF TypeOK
<1>5. Window
  BY <1>1, <1>2, <1>3 DEF Window
<1> QED
  BY <1>3, <1>4, <1>5 DEF Inv, LubIsLeast, FindIsRight

\* The middle of a window that is not empty lies in it.
LEMMA MidInWindow ==
  ASSUME TypeOK, lo < hi
  PROVE  /\ mid \in Nat /\ lo <= mid /\ mid < hi
         /\ mid + 1 \in 1 .. Len(cmp) /\ res \in Sign
BY DEF TypeOK, mid, res, Sign

\* What item mid tells of the items before and behind it
LEMMA Halves ==
  ASSUME TypeOK, Window, lo < hi
  PROVE  /\ res < 0 => \A i \in 1 .. mid + 1 : cmp[i] < 0
         /\ res >= 0 => \A i \in mid + 1 .. Len(cmp) : cmp[i] >= 0
         /\ res > 0 => \A i \in mid + 1 .. Len(cmp) : cmp[i] > 0
<1>1. mid \in Nat /\ mid + 1 \in 1 .. Len(cmp) /\ res \in Sign /\ res = cmp[mid + 1]
  BY MidInWindow DEF res
<1>2. \A i \in 1 .. Len(cmp) : cmp[i] \in Int
  BY DEF TypeOK, Sign
<1>3. \A i, j \in 1 .. Len(cmp) : i < j => cmp[i] <= cmp[j]
  BY DEF TypeOK, Window, Ascending
<1> QED
  BY <1>1, <1>2, <1>3 DEF Sign

LEMMA RaiseInv ==
  ASSUME Inv, ~ done, lo < hi, res < 0, Raise, UNCHANGED <<cmp, op>>
  PROVE  Inv' /\ hi' - lo' < hi - lo
<1>1. /\ TypeOK /\ Window /\ mid \in Nat /\ lo <= mid /\ mid < hi
      /\ lo' = mid + 1 /\ hi' = hi /\ done' = done /\ ret' = ret /\ cmp' = cmp /\ op' = op
  BY MidInWindow DEF Inv, Raise
<1>2. \A i \in 1 .. mid + 1 : cmp[i] < 0
  BY <1>1, Halves
<1>3. TypeOK'
  BY <1>1 DEF TypeOK
<1>4. Window'
  BY <1>1, <1>2 DEF Window, Ascending
<1>5. hi' - lo' < hi - lo
  BY <1>1 DEF TypeOK
<1> QED
  BY <1>1, <1>3, <1>4, <1>5 DEF Inv, LubIsLeast, FindIsRight

LEMMA LowerInv ==
  ASSUME Inv, ~ done, lo < hi, res >= 0, op = "find" => res > 0, Lower, UNCHANGED <<cmp, op>>
  PROVE  Inv' /\ hi' - lo' < hi - lo
<1>1. /\ TypeOK /\ Window /\ mid \in Nat /\ lo <= mid /\ mid < hi
      /\ hi' = mid /\ lo' = lo /\ done' = done /\ ret' = ret /\ cmp' = cmp /\ op' = op
  BY MidInWindow DEF Inv, Lower
<1>2. \A i \in mid + 1 .. Len(cmp) : cmp[i] >= 0 /\ (op = "find" => cmp[i] > 0)
  BY <1>1, Halves
<1>3. TypeOK'
  BY <1>1 DEF TypeOK
<1>4. Window'
  BY <1>1, <1>2 DEF Window, Ascending
<1>5. hi' - lo' < hi - lo
  BY <1>1 DEF TypeOK
<1> QED
  BY <1>1, <1>3, <1>4, <1>5 DEF Inv, LubIsLeast, FindIsRight

\* The three ways a search returns
LEMMA ReturnInv ==
  ASSUME Inv, ~ done, UNCHANGED <<cmp, op>>,
         \/ op = "lub" /\ lo >= hi /\ Return(lo)
         \/ op = "find" /\ lo >= hi /\ Return(-1)
         \/ op = "find" /\ lo < hi /\ res = 0 /\ Return(mid)
  PROVE  Inv' /\ done'
<1>1. TypeOK /\ Window
  BY DEF Inv
<1>2. done' = TRUE /\ lo' = lo /\ hi' = hi /\ cmp' = cmp /\ op' = op
  BY DEF Return
<1>3. CASE op = "lub" /\ lo >= hi /\ ret' = lo
  BY <1>1, <1>2, <1>3 DEF Inv, TypeOK, Window, LubIsLeast, FindIsRight
<1>4. CASE op = "find" /\ lo >= hi /\ ret' = -1
  <2>1. \A i \in DOMAIN cmp : cmp[i] # 0
    BY <1>1, <1>4 DEF TypeOK, Window, Sign
  <2> QED
    BY <1>1, <1>2, <1>4, <2>1 DEF Inv, TypeOK, LubIsLeast, FindIsRight
<1>5. CASE op = "find" /\ lo < hi /\ res = 0 /\ ret' = mid
  <2>1. mid \in Nat /\ mid + 1 \in 1 .. Len(cmp) /\ cmp[mid + 1] = 0
    BY <1>1, <1>5, MidInWindow DEF res
  <2>2. TypeOK'
    BY <1>1, <1>2, <1>5, <2>1 DEF TypeOK
  <2>3. LubIsLeast' /\ FindIsRight'
    BY <1>1, <1>2, <1>5, <2>1 DEF LubIsLeast, FindIsRight, TypeOK
  <2> QED
    BY <1>2, <2>2, <2>3 DEF Inv
<1> QED
  BY <1>3, <1>4, <1>5 DEF Return

LEMMA NextInv ==
  ASSUME Inv, [Next]_vars
  PROVE  Inv' /\ (UNCHANGED vars \/ done' \/ hi' - lo' < hi - lo)
<1>1. CASE Lub
  <2>1. ~ done /\ op = "lub" /\ UNCHANGED <<cmp, op>>
    BY <1>1 DEF Lub
  <2>2. CASE lo < hi /\ res < 0 /\ Raise
    BY <2>1, <2>2, RaiseInv
  <2>3. CASE lo < hi /\ res >= 0 /\ Lower
    BY <2>1, <2>3, LowerInv
  <2>4. CASE lo >= hi /\ Return(lo)
    BY <2>1, <2>4, ReturnInv
  <2> QED
    BY <1>1, <2>2, <2>3, <2>4 DEF Lub
<1>2. CASE Find
  <2>1. ~ done /\ op = "find" /\ UNCHANGED <<cmp, op>>
    BY <1>2 DEF Find
  <2>2. CASE lo < hi /\ res = 0 /\ Return(mid)
    BY <2>1, <2>2, ReturnInv
  <2>3. CASE lo < hi /\ res > 0 /\ Lower
    <3>1. res >= 0
      BY <2>3, MidInWindow DEF Inv, Sign
    <3> QED
      BY <2>1, <2>3, <3>1, LowerInv
  <2>4. CASE lo < hi /\ res < 0 /\ Raise
    BY <2>1, <2>4, RaiseInv
  <2>5. CASE lo >= hi /\ Return(-1)
    BY <2>1, <2>5, ReturnInv
  <2> QED
    BY <1>2, <2>2, <2>3, <2>4, <2>5 DEF Find
<1>3. CASE UNCHANGED vars
  BY <1>3 DEF vars, Inv, TypeOK, LubIsLeast, FindIsRight, Window, Ascending
<1> QED
  BY <1>1, <1>2, <1>3 DEF Next

\* The inductive invariant holds in every search.
THEOREM InvHolds == Spec => []Inv
<1>1. Inv /\ [Next]_vars => Inv'
  BY NextInv
<1> QED
  BY InitInv, <1>1, PTL DEF Spec

\* The index mid is that of an item in every turn, for nodes of every size.
THEOREM TypeCorrect == Spec => []TypeOK
<1>1. Inv => TypeOK
  BY DEF Inv
<1> QED
  BY InvHolds, <1>1, PTL

\* lub() returns the least upper bound: where put() inserts, where getLeaf()
\* descends and where locate() looks.
THEOREM LubTheorem == Spec => []LubIsLeast
<1>1. Inv => LubIsLeast
  BY DEF Inv
<1> QED
  BY InvHolds, <1>1, PTL

\* find() finds an equal item if and only if there is one.
THEOREM FindTheorem == Spec => []FindIsRight
<1>1. Inv => FindIsRight
  BY DEF Inv
<1> QED
  BY InvHolds, <1>1, PTL

\* Every turn of a loop either returns or narrows the window, so that no search
\* runs for ever.
THEOREM ShrinkTheorem == Spec => WindowShrinks
<1>1. Inv /\ [Next]_vars => [~ done' => hi' - lo' < hi - lo]_vars
  BY NextInv DEF vars
<1> QED
  BY InvHolds, <1>1, PTL DEF Spec, WindowShrinks
=============================================================================
