-------------------------- MODULE MaintenanceProofs --------------------------
(***************************************************************************)
(* Proofs about Maintenance, for every number of items, every page length  *)
(* and any number of ends of the process.                                  *)
(***************************************************************************)
EXTENDS Maintenance, FiniteSetTheorems, WellFoundedInduction, TLAPS

-----------------------------------------------------------------------------
(* Sets of items *)

\* A nonempty set of natural numbers has a smallest one.
LEMMA SmallestExists ==
    ASSUME NEW S \in SUBSET Nat, S # {}
    PROVE  \E m \in S : \A j \in S : m <= j
<1>1. PICK x \in S : \A y \in S : ~(<<y, x>> \in OpToRel(<, Nat))
  BY WFMin, NatLessThanWellFounded
<1>2. \A y \in S : x <= y
  <2> SUFFICES ASSUME NEW y \in S, y < x PROVE FALSE
    OBVIOUS
  <2>1. <<y, x>> \in Nat \X Nat /\ <<y, x>>[1] < <<y, x>>[2]
    OBVIOUS
  <2> QED  BY <1>1, <2>1 DEF OpToRel
<1> QED  BY <1>2

\* A nonempty page has a last item.
LEMMA LastOfPage ==
    ASSUME NEW page \in SUBSET Items, page # {}
    PROVE  Last(page) \in page /\ \A y \in page : y <= Last(page)
<1> DEFINE T == {k \in 0..MaxItems : MaxItems - k \in page}
<1>1. \A y \in page : MaxItems - y \in T /\ MaxItems - (MaxItems - y) = y
  BY BoundAssumption DEF Items
<1>2. T \in SUBSET Nat /\ T # {}
  BY <1>1
<1>3. \A k \in T : k \in Nat /\ MaxItems - k \in page
  OBVIOUS
<1> HIDE DEF T
<1>4. PICK m \in T : \A j \in T : m <= j
  BY <1>2, SmallestExists
<1>5. \A y \in page : y <= MaxItems - m
  BY <1>1, <1>3, <1>4, BoundAssumption DEF Items
<1>6. \E x \in page : \A y \in page : y <= x
  BY <1>3, <1>4, <1>5
<1> QED  BY <1>6 DEF Last

LEMMA ItemsAreFinite ==
    ASSUME NEW S \in SUBSET Items
    PROVE  IsFiniteSet(S) /\ Cardinality(S) \in 0..MaxItems
<1>1. IsFiniteSet(Items) /\ Cardinality(Items) = MaxItems
  BY FS_Interval, BoundAssumption DEF Items
<1>2. IsFiniteSet(S) /\ Cardinality(S) <= MaxItems
  BY <1>1, FS_Subset
<1> QED  BY <1>2, FS_CardinalityType, BoundAssumption

-----------------------------------------------------------------------------
(* Pages *)

LEMMA PageIsOpen == Page \in SUBSET open
BY DEF Page, ById, ByIndex

\* A page by id takes the open items behind the cursor in their order: it is
\* empty only if there are none, and it leaves out none that comes before its last.
LEMMA PageInOrder ==
    ASSUME TypeOK, kind # "record", NEW x \in open, cursor < x, x \notin Page
    PROVE  Page # {} /\ Last(Page) \in Page /\ cursor < Last(Page) /\ Last(Page) < x
<1> DEFINE Behind == {y \in open : y > cursor}
           Between(z) == {y \in open : cursor < y /\ y < z}
<1>1. open \in SUBSET Items /\ Items \in SUBSET Nat /\ cursor \in Nat /\ PageLimit \in Nat \ {0}
  BY BoundAssumption DEF TypeOK, Items
<1>2. Page = {y \in open : y > cursor /\ Cardinality(Between(y)) < PageLimit}
  BY DEF Page, ById
<1>3. \A z : IsFiniteSet(Between(z)) /\ Cardinality(Between(z)) \in Nat
  <2> TAKE z
  <2>1. Between(z) \in SUBSET Items
    BY <1>1
  <2> QED  BY <2>1, ItemsAreFinite
<1>4. Page # {}
  <2>1. PICK m \in Behind : \A j \in Behind : m <= j
    <3>1. Behind \in SUBSET Nat /\ Behind # {}
      BY <1>1
    <3> QED  BY <3>1, SmallestExists
  <2>2. Between(m) = {}
    <3>1. m \in Nat /\ \A y \in open : y \in Nat /\ (y > cursor => m <= y)
      BY <1>1, <2>1
    <3>2. \A y \in open : ~(cursor < y /\ y < m)
      BY <1>1, <3>1
    <3> QED  BY <3>2
  <2>3. Cardinality(Between(m)) = 0
    BY <2>2, FS_EmptySet
  <2> QED  BY <1>1, <1>2, <2>1, <2>3
<1>5. Last(Page) \in Page /\ Last(Page) \in open /\ Last(Page) \in Nat /\ x \in Nat
  BY <1>1, <1>4, PageIsOpen, LastOfPage
<1>6. Last(Page) < x
  <2> DEFINE last == Last(Page)
  <2> HIDE DEF last
  <2>0. last \in Nat /\ last # x
    BY <1>5 DEF last
  <2> SUFFICES ASSUME x < last PROVE FALSE
    BY <1>5, <2>0 DEF last
  <2>1. Between(x) \in SUBSET Between(last)
    <3>1. \A y \in open : y \in Nat /\ (y < x => y < last)
      BY <1>1, <1>5, <2>0
    <3> QED  BY <3>1
  <2> HIDE DEF Between
  <2>2. Cardinality(Between(x)) <= Cardinality(Between(last))
    BY <1>3, <2>1, FS_Subset
  <2>3. Cardinality(Between(last)) < PageLimit /\ Cardinality(Between(x)) >= PageLimit
    BY <1>1, <1>2, <1>3, <1>5 DEF last
  <2> QED  BY <1>1, <1>3, <2>2, <2>3
<1> QED  BY <1>1, <1>2, <1>4, <1>5, <1>6

\* The next cursor is one.
LEMMA CursorType ==
    ASSUME TypeOK
    PROVE  NextCursor \in 0..MaxItems
<1>1. open \in SUBSET Items /\ Page \in SUBSET Items /\ MaxItems \in Nat /\ cursor \in 0..MaxItems
  BY PageIsOpen, BoundAssumption DEF TypeOK
<1>2. CASE kind # "record"
  <2>1. Page # {} => Last(Page) \in 1..MaxItems
    BY <1>1, LastOfPage DEF Items
  <2> QED  BY <1>1, <1>2, <2>1 DEF NextCursor
<1>3. CASE kind = "record" /\ open = {}
  BY <1>1, <1>3 DEF NextCursor
<1>4. CASE kind = "record" /\ open # {}
  <2> DEFINE n == Cardinality(open)
  <2>1. IsFiniteSet(open) /\ n \in 0..MaxItems /\ n # 0
    BY <1>1, <1>4, ItemsAreFinite, FS_EmptySet
  <2>2. Cardinality(Page) \in Nat
    BY <1>1, ItemsAreFinite
  <2>3. NextCursor = (Start + Cardinality(Page)) % n /\ Start = cursor % n
    BY <1>4 DEF NextCursor, Start
  <2> HIDE DEF n
  <2>4. Start \in Nat
    BY <1>1, <2>1, <2>3
  <2>5. (Start + Cardinality(Page)) % n \in 0..(n - 1)
    BY <2>1, <2>2, <2>4
  <2> QED  BY <1>1, <2>1, <2>3, <2>5
<1> QED  BY <1>2, <1>3, <1>4

-----------------------------------------------------------------------------
(* Type correctness *)

THEOREM MaintenanceTypeCorrect == Spec => []TypeOK
<1>1. Init => TypeOK
  <2>1. 0 \in 0..MaxItems /\ 0 \in 0..MaxRestarts
    BY BoundAssumption
  <2> QED  BY <2>1 DEF Init, TypeOK
<1>2. TypeOK /\ [Next]_vars => TypeOK'
  <2> SUFFICES ASSUME TypeOK, [Next]_vars PROVE TypeOK'
    OBVIOUS
  <2> USE DEF list
  <2>1. NextStage \in [Stages -> Stages \cup {"wait"}] /\ \A s \in Stages : NextStage[s] # s
    BY DEF NextStage, Stages
  <2>2. Page \in SUBSET entered /\ NextCursor \in 0..MaxItems
    BY PageIsOpen, CursorType DEF TypeOK
  <2>3. CASE Enter
    BY <2>3 DEF Enter, TypeOK
  <2>4. ASSUME NEW x \in Items, Leave(x) PROVE TypeOK'
    BY <2>4 DEF Leave, TypeOK
  <2>5. CASE Begin
    BY <2>5, BoundAssumption DEF Begin, TypeOK, ResumedCursor, Stages
  <2>6. CASE PassOver
    BY <2>1, <2>6 DEF PassOver, TypeOK
  <2>7. CASE Visit
    <3>1. visited' \subseteq entered /\ stage' \in Stages \cup {"wait"}
      BY <2>1, <2>2, <2>7 DEF Visit, Following, StageOf, Stages, TypeOK
    <3> QED  BY <2>2, <2>7, <3>1 DEF Visit, TypeOK
  <2>8. CASE Fail
    BY <2>8 DEF Fail, TypeOK
  <2>9. CASE FailInPage
    BY <2>2, <2>9 DEF FailInPage, TypeOK
  <2>10. CASE Restart
    <3>1. cursor' \in 0..MaxItems /\ restarts' \in 0..MaxRestarts
      BY <2>10, BoundAssumption DEF Restart, TypeOK
    <3> QED  BY <2>10, <3>1 DEF Restart, TypeOK
  <2>11. CASE UNCHANGED vars
    BY <2>11 DEF TypeOK, vars
  <2> QED
    BY <2>3, <2>4, <2>5, <2>6, <2>7, <2>8, <2>9, <2>10, <2>11 DEF Next, Pass
<1> QED  BY <1>1, <1>2, PTL DEF Spec

-----------------------------------------------------------------------------
(* Progress of a single page *)

\* No cursor is farther from an item than twice the list.
LEMMA DistanceIsBounded ==
    ASSUME TypeOK, NEW x \in Items
    PROVE  Distance(x) \in 1..(2 * MaxItems + 1)
BY BoundAssumption DEF TypeOK, Items, Distance

\* A page by id that leaves out an open item moves the cursor towards it.
LEMMA PageMovesOn ==
    ASSUME TypeOK, TypeOK', kind # "record", cursor' = NextCursor,
           NEW x \in open, x \notin Page
    PROVE  Distance(x)' < Distance(x)
<1>1. x \in 1..MaxItems /\ cursor \in 0..MaxItems /\ cursor' \in 0..MaxItems /\ MaxItems \in Nat
  BY BoundAssumption DEF TypeOK, Items
<1>2. NextCursor = IF Page = {} THEN 0 ELSE Last(Page)
  BY DEF NextCursor
<1>3. CASE cursor < x
  <2>1. cursor < cursor' /\ cursor' < x
    BY <1>2, <1>3, PageInOrder
  <2> QED  BY <1>1, <1>3, <2>1 DEF Distance
<1>4. CASE ~(cursor < x) /\ Page = {}
  BY <1>1, <1>2, <1>4 DEF Distance
<1>5. CASE ~(cursor < x) /\ Page # {}
  <2>1. Page \in SUBSET Items
    BY PageIsOpen DEF TypeOK
  <2>2. Last(Page) \in ById
    BY <1>5, <2>1, LastOfPage DEF Page
  <2>3. cursor < cursor'
    BY <1>2, <1>5, <2>2 DEF ById
  <2> QED  BY <1>1, <1>5, <2>3 DEF Distance
<1> QED  BY <1>3, <1>4, <1>5

THEOREM EveryPageComesCloser == Spec => PagesComeCloser
<1> DEFINE Reads == Visit \/ FailInPage =>
                        \A x \in open : kind = "record" \/ x \in Page \/ Distance(x)' < Distance(x)
           Keeps == kind \in {"account", "role"} /\ restarts' = restarts =>
                        \A x \in open : (Following /\ x \in Page) \/ Distance(x)' <= Distance(x)
<1>1. TypeOK /\ TypeOK' /\ [Next]_vars => [Reads /\ Keeps]_vars
  <2> SUFFICES ASSUME TypeOK, TypeOK', Next PROVE Reads /\ Keeps
    OBVIOUS
  <2>1. Visit \/ FailInPage => cursor' = NextCursor /\ Following
    BY DEF Visit, FailInPage
  <2>2. Reads
    BY <2>1, PageMovesOn
  <2>3. ASSUME kind \in {"account", "role"}, restarts' = restarts,
               ~(Visit \/ FailInPage)
        PROVE  cursor' = cursor
    <3>1. ~Restart
      BY <2>3, BoundAssumption DEF Restart, TypeOK
    <3> QED
      BY <2>3, <3>1
      DEF Next, Pass, Enter, Leave, Begin, PassOver, Fail, ResumedCursor, list
  <2>4. \A x \in open : Distance(x) \in Int /\ Distance(x)' \in Int
    BY BoundAssumption DEF TypeOK, Items, Distance
  <2>5. Keeps
    <3> SUFFICES ASSUME kind \in {"account", "role"}, restarts' = restarts, NEW x \in open
                 PROVE  (Following /\ x \in Page) \/ Distance(x)' <= Distance(x)
      OBVIOUS
    <3>1. CASE Visit \/ FailInPage
      BY <2>1, <2>2, <2>4, <3>1
    <3>2. CASE ~(Visit \/ FailInPage)
      <4>1. cursor' = cursor
        BY <2>3, <3>2
      <4> QED  BY <2>4, <4>1 DEF Distance
    <3> QED  BY <3>1, <3>2
  <2> QED  BY <2>2, <2>5
<1> QED  BY <1>1, MaintenanceTypeCorrect, PTL DEF Spec, PagesComeCloser
==============================================================================
