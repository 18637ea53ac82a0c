-------------------------- MODULE SupervisorProofs --------------------------
(***************************************************************************)
(* Proofs about Supervisor, for every number of threads, keys, rows and    *)
(* faults, and with or without an end of the queue.                        *)
(***************************************************************************)
EXTENDS Supervisor, FiniteSetTheorems, WellFoundedInduction, TLAPS

\* What holds of the rows while those that are done are being forgotten.
Loose(list) ==
    /\ list \in Seq(Row) /\ Len(list) <= MaxRows
    /\ \A i \in DOMAIN list :
         /\ list[i].state = "pending" => list[i].future = "none"
         /\ list[i].state = "closed" => list[i].future \in {"none", "done"}

\* What TypeOK says of the rows.
Sane(list) ==
    /\ Loose(list)
    /\ \A i \in DOMAIN list : list[i].state = "closed" => list[i].future # "none"

\* From the join on nothing runs, and after it no maintenance either.
Quiet ==
    /\ pc \in {"join", "stopped"} => \A i \in DOMAIN rows : rows[i].future # "running"
    /\ pc = "stopped" => ~maintenance

\* The inductive invariant.
SInv == TypeOK /\ SlotsSuffice /\ Quiet

Waited(list) == {i \in DOMAIN list : list[i].future # "none"}

\* A list whose rows with one of these futures have none any more.
Forget(list, futures) ==
    [i \in DOMAIN list |-> IF list[i].future \in futures
                           THEN [list[i] EXCEPT !.future = "none"] ELSE list[i]]

-----------------------------------------------------------------------------
(* Finite sets of numbers and lists of rows *)

\* Among the rows of a list one has the largest id.
LEMMA LargestExists ==
    ASSUME NEW n \in Nat, NEW S \in SUBSET (1..n), S # {}
    PROVE  \E m \in S : \A j \in S : j <= m
<1> DEFINE T == {k \in 0..n : n - k \in S}
<1>1. T \subseteq Nat /\ T # {}
  <2>1. PICK s \in S : TRUE
    OBVIOUS
  <2>2. s \in 1..n /\ n - s \in 0..n /\ n - (n - s) = s
    BY <2>1
  <2>3. n - s \in T
    BY <2>1, <2>2
  <2>4. \A k \in T : k \in Nat
    OBVIOUS
  <2> HIDE DEF T
  <2> QED  BY <2>3, <2>4
<1>2. PICK x \in T : \A y \in T : ~(<<y, x>> \in OpToRel(<, Nat))
  <2> HIDE DEF T
  <2> QED  BY <1>1, WFMin, NatLessThanWellFounded
<1>3. \A y \in T : x <= y
  <2> SUFFICES ASSUME NEW y \in T, y < x PROVE FALSE
    BY <1>1
  <2>1. <<y, x>> \in Nat \X Nat /\ <<y, x>>[1] < <<y, x>>[2]
    BY <1>1
  <2> QED  BY <1>2, <2>1 DEF OpToRel
<1>4. \A j \in S : n - j \in T
  OBVIOUS
<1> QED  BY <1>3, <1>4

LEMMA WaitedType ==
    ASSUME NEW list \in Seq(Row)
    PROVE  IsFiniteSet(Waited(list)) /\ Cardinality(Waited(list)) \in Nat
<1>1. IsFiniteSet(1..Len(list))
  BY FS_Interval
<1>2. Waited(list) \in SUBSET (1..Len(list))
  BY DEF Waited
<1> QED  BY <1>1, <1>2, FS_Subset, FS_CardinalityType

\* A list of the same length with rows in it.
LEMMA SameLength ==
    ASSUME NEW list \in Seq(Row), NEW new \in [DOMAIN list -> Row]
    PROVE  new \in Seq(Row) /\ Len(new) = Len(list) /\ DOMAIN new = DOMAIN list
OBVIOUS

\* What the type invariant says, with its rows apart.
LEMMA TypeParts ==
    TypeOK <=> /\ Sane(rows) /\ cursor \in 0..Len(rows)
               /\ fresh \in BOOLEAN /\ maintenance \in BOOLEAN /\ stop \in BOOLEAN
               /\ pc \in {"collect", "recover", "claim", "wait", "drain", "join", "stopped"}
               /\ arrivals \in 0..MaxArrivals /\ faults \in 0..MaxFaults
BY DEF TypeOK, Sane, Loose

LEMMA InFlightIsWaited == InFlight = Waited(rows) /\ (InFlight)' = Waited(rows')
BY DEF InFlight, Waited

-----------------------------------------------------------------------------
(* Forgetting what is done *)

\* The compacted list is sane, the cursor within it, and no row is waited for
\* that was not before.
LEMMA CompactGives ==
    ASSUME NEW list, NEW at, Loose(list), Compact(list, at)
    PROVE  /\ Sane(rows') /\ cursor' \in 0..Len(rows')
           /\ Cardinality(Waited(rows')) <= Cardinality(Waited(list))
           /\ (\A i \in DOMAIN list : list[i].future # "running")
                 => \A i \in DOMAIN rows' : rows'[i].future # "running"
<1> DEFINE n == Cardinality(Kept(list))
<1>1. list \in Seq(Row) /\ DOMAIN list = 1..Len(list) /\ Len(list) \in Nat
  BY DEF Loose
<1>2. IsFiniteSet(1..Len(list)) /\ Cardinality(1..Len(list)) = Len(list)
  BY <1>1, FS_Interval
<1>3. Kept(list) \in SUBSET (1..Len(list))
  BY <1>1 DEF Kept
<1>4. IsFiniteSet(Kept(list)) /\ n \in Nat /\ n <= Len(list)
  BY <1>2, <1>3, FS_Subset, FS_CardinalityType
<1>5. PICK old \in [1..n -> Kept(list)] :
        /\ \A i, j \in 1..n : i < j => old[i] < old[j]
        /\ rows' = [i \in 1..n |-> list[old[i]]]
  BY DEF Compact
<1> HIDE DEF n
<1>6. \A i \in 1..n : old[i] \in DOMAIN list /\ list[old[i]] \in Row
  BY <1>1, <1>3, <1>5
<1>7. rows' \in Seq(Row) /\ Len(rows') = n /\ DOMAIN rows' = 1..n
  BY <1>4, <1>5, <1>6
<1>8. Sane(rows')
  <2>1. \A i \in 1..n : rows'[i] = list[old[i]] /\ old[i] \in Kept(list)
    BY <1>5
  <2>2. n <= MaxRows
    BY <1>1, <1>4, BoundAssumption DEF Loose
  <2>3. \A i \in DOMAIN rows' :
          /\ rows'[i].state = "pending" => rows'[i].future = "none"
          /\ rows'[i].state = "closed" => rows'[i].future \in {"none", "done"}
    BY <1>6, <1>7, <2>1 DEF Loose
  <2>4. \A i \in DOMAIN rows' : rows'[i].state = "closed" => rows'[i].future # "none"
    BY <1>7, <2>1 DEF Kept
  <2>5. rows' \in Seq(Row) /\ Len(rows') <= MaxRows
    BY <1>7, <2>2
  <2>6. Loose(rows')
    BY <2>3, <2>5, Zenon DEF Loose
  <2> QED  BY <2>4, <2>6, Zenon DEF Sane
<1>9. cursor' \in 0..Len(rows')
  <2>1. cursor' = Cardinality({i \in Kept(list) : i <= at})
    BY DEF Compact
  <2>2. {i \in Kept(list) : i <= at} \in SUBSET Kept(list)
    OBVIOUS
  <2>3. cursor' \in Nat /\ cursor' <= n
    BY <1>4, <2>1, <2>2, FS_Subset, FS_CardinalityType DEF n
  <2> QED  BY <1>4, <1>7, <2>3
<1>10. Cardinality(Waited(rows')) <= Cardinality(Waited(list))
  <2> DEFINE from == [i \in Waited(rows') |-> old[i]]
  <2>1. \A i \in Waited(rows') : i \in 1..n /\ old[i] \in Waited(list)
    BY <1>5, <1>6, <1>7 DEF Waited
  <2>2. \A i, j \in 1..n : old[i] = old[j] => i = j
    <3> SUFFICES ASSUME NEW i \in 1..n, NEW j \in 1..n, i < j PROVE old[i] # old[j]
      BY <1>4
    <3>1. old[i] < old[j] /\ old[i] \in Int /\ old[j] \in Int
      BY <1>3, <1>5, <1>6
    <3> QED  BY <3>1
  <2>3. from \in Injection(Waited(rows'), Waited(list))
    BY <2>1, <2>2 DEF Injection, IsInjective
  <2> QED  BY <1>1, <2>3, WaitedType, FS_Injection
<1>11. (\A i \in DOMAIN list : list[i].future # "running")
          => \A i \in DOMAIN rows' : rows'[i].future # "running"
  BY <1>5, <1>6, <1>7
<1> QED  BY <1>8, <1>9, <1>10, <1>11

-----------------------------------------------------------------------------
(* Recovery *)

LEMMA ShareFits ==
    ASSUME NEW free \in Nat \ {0}
    PROVE  Share(free) \in 1..free
BY DEF Share

\* A page has at most as many rows as it may have.
LEMMA PageBound ==
    ASSUME NEW after \in Int, NEW limit \in Nat \ {0}, rows \in Seq(Row)
    PROVE  /\ Page(after, limit) \in SUBSET With("active")
           /\ Page(after, limit) \in SUBSET (1..Len(rows))
           /\ IsFiniteSet(Page(after, limit))
           /\ Cardinality(Page(after, limit)) \in Nat
           /\ Cardinality(Page(after, limit)) <= limit
<1> DEFINE Before(i) == {j \in With("active") : after < j /\ j < i}
           rank == [i \in Page(after, limit) |-> Cardinality(Before(i))]
<1>1. IsFiniteSet(1..Len(rows)) /\ With("active") \in SUBSET (1..Len(rows))
  BY FS_Interval DEF With
<1>2. Page(after, limit) = {i \in With("active") : i > after /\ Cardinality(Before(i)) < limit}
  BY DEF Page
<1>3. \A i : IsFiniteSet(Before(i)) /\ Cardinality(Before(i)) \in Nat
  <2> TAKE i
  <2>1. Before(i) \in SUBSET (1..Len(rows))
    BY <1>1
  <2> QED  BY <1>1, <2>1, FS_Subset, FS_CardinalityType
<1>4. ASSUME NEW i \in Page(after, limit), NEW k \in Page(after, limit), i < k
      PROVE  Cardinality(Before(i)) < Cardinality(Before(k))
  <2>1. i \notin Before(i) /\ (Before(i) \cup {i}) \in SUBSET Before(k)
    BY <1>1, <1>2, <1>4
  <2> HIDE DEF Before
  <2>2. Cardinality(Before(i) \cup {i}) = Cardinality(Before(i)) + 1
    BY <1>3, <2>1, FS_AddElement
  <2>3. Cardinality(Before(i) \cup {i}) <= Cardinality(Before(k))
    BY <1>3, <2>1, FS_Subset
  <2> QED  BY <1>3, <2>2, <2>3
<1>5. rank \in Injection(Page(after, limit), 0..(limit - 1))
  <2> HIDE DEF Before
  <2>1. \A i \in Page(after, limit) : rank[i] \in 0..(limit - 1)
    BY <1>2, <1>3
  <2>2. \A i, k \in Page(after, limit) : rank[i] = rank[k] => i = k
    <3> SUFFICES ASSUME NEW i \in Page(after, limit), NEW k \in Page(after, limit), i # k
                 PROVE  rank[i] # rank[k]
      OBVIOUS
    <3>1. i \in Int /\ k \in Int
      BY <1>1, <1>2
    <3>2. CASE i < k
      BY <1>3, <1>4, <3>2
    <3>3. CASE k < i
      BY <1>3, <1>4, <3>3
    <3> QED  BY <3>1, <3>2, <3>3
  <2> QED  BY <2>1, <2>2 DEF Injection, IsInjective
<1>6. IsFiniteSet(0..(limit - 1)) /\ Cardinality(0..(limit - 1)) = limit
  BY FS_Interval
<1>7. IsFiniteSet(Page(after, limit)) /\ Cardinality(Page(after, limit)) <= limit
  <2> HIDE DEF rank
  <2> QED  BY <1>5, <1>6, FS_Injection
<1> QED  BY <1>1, <1>2, <1>7, FS_CardinalityType

-----------------------------------------------------------------------------
(* The steps *)

\* A row that gets another state or future in its place.
LEMMA Replaced ==
    ASSUME NEW list, Sane(list), NEW i \in DOMAIN list,
           NEW row \in Row, row.future # "none",
           row.state # "pending", row.state = "closed" => row.future = "done"
    PROVE  /\ Sane([list EXCEPT ![i] = row])
           /\ Len([list EXCEPT ![i] = row]) = Len(list)
           /\ Waited([list EXCEPT ![i] = row]) = Waited(list) \cup {i}
<1> DEFINE new == [list EXCEPT ![i] = row]
<1>1. list \in Seq(Row) /\ Len(list) <= MaxRows
  BY DEF Sane, Loose
<1>2. new \in Seq(Row) /\ Len(new) = Len(list) /\ DOMAIN new = DOMAIN list
  BY <1>1
<1>3. \A j \in DOMAIN list : new[j] = IF j = i THEN row ELSE list[j]
  BY <1>1
<1> HIDE DEF new
<1>4. Loose(new)
  BY <1>1, <1>2, <1>3 DEF Sane, Loose
<1>5. Sane(new)
  BY <1>2, <1>3, <1>4 DEF Sane
<1>6. Waited(new) = Waited(list) \cup {i}
  BY <1>2, <1>3 DEF Waited
<1> QED  BY <1>2, <1>5, <1>6 DEF new

\* The rows of a page that nobody has are taken up.
LEMMA TakenUp ==
    ASSUME NEW list, Sane(list), NEW page,
           \A i \in page : i \in DOMAIN list /\ list[i].state = "active"
    PROVE  LET new == [i \in DOMAIN list |->
                         IF i \in page \ Waited(list)
                         THEN [list[i] EXCEPT !.future = "running"] ELSE list[i]]
           IN Sane(new) /\ Len(new) = Len(list) /\ Waited(new) = Waited(list) \cup page
<1> DEFINE new == [i \in DOMAIN list |->
                     IF i \in page \ Waited(list)
                     THEN [list[i] EXCEPT !.future = "running"] ELSE list[i]]
<1>1. list \in Seq(Row) /\ Len(list) <= MaxRows /\ \A i \in DOMAIN list : list[i] \in Row
  BY DEF Sane, Loose
<1>2. new \in [DOMAIN list -> Row]
  BY <1>1 DEF Row
<1>3. new \in Seq(Row) /\ Len(new) = Len(list) /\ DOMAIN new = DOMAIN list
  <2> HIDE DEF new
  <2> QED  BY <1>1, <1>2, SameLength
<1>4. \A i \in DOMAIN list :
        /\ i \in page \ Waited(list) => new[i].state = "active" /\ new[i].future = "running"
        /\ i \notin page \ Waited(list) => new[i] = list[i]
  BY <1>1 DEF Row
<1> HIDE DEF new
<1>5. Loose(new)
  <2>1. \A i \in DOMAIN new :
          /\ new[i].state = "pending" => new[i].future = "none"
          /\ new[i].state = "closed" => new[i].future \in {"none", "done"}
    BY <1>3, <1>4 DEF Sane, Loose
  <2> QED  BY <1>1, <1>3, <2>1 DEF Loose
<1>6. Sane(new)
  BY <1>3, <1>4, <1>5 DEF Sane
<1>7. Waited(new) = Waited(list) \cup page
  <2>1. \A i \in DOMAIN list : new[i].future # "none" <=> i \in Waited(list) \cup page
    BY <1>4 DEF Waited
  <2> QED  BY <1>3, <2>1 DEF Waited
<1> QED  BY <1>3, <1>6, <1>7 DEF new

\* What is left of a sane list is loose.
LEMMA Forgotten ==
    ASSUME NEW list, Sane(list), NEW futures \in SUBSET {"none", "running", "done"}
    PROVE  /\ Loose(Forget(list, futures))
           /\ Waited(Forget(list, futures)) \in SUBSET Waited(list)
           /\ futures = {"none", "running", "done"} => Waited(Forget(list, futures)) = {}
<1> DEFINE new == Forget(list, futures)
<1>1. list \in Seq(Row) /\ Len(list) <= MaxRows /\ \A i \in DOMAIN list : list[i] \in Row
  BY DEF Sane, Loose
<1>2. new \in [DOMAIN list -> Row]
  BY <1>1 DEF Row, Forget
<1>3. new \in Seq(Row) /\ Len(new) = Len(list) /\ DOMAIN new = DOMAIN list
  <2> HIDE DEF new
  <2> QED  BY <1>1, <1>2, SameLength
<1>4. \A i \in DOMAIN list :
        /\ new[i].state = list[i].state
        /\ list[i].future \in futures => new[i].future = "none"
        /\ list[i].future \notin futures => new[i].future = list[i].future
  BY <1>1 DEF Row, Forget
<1> HIDE DEF new
<1>5. Loose(new)
  <2>1. \A i \in DOMAIN new :
          /\ new[i].state = "pending" => new[i].future = "none"
          /\ new[i].state = "closed" => new[i].future \in {"none", "done"}
    BY <1>3, <1>4 DEF Sane, Loose
  <2> QED  BY <1>1, <1>3, <2>1 DEF Loose
<1>6. Waited(new) \in SUBSET Waited(list)
  BY <1>3, <1>4 DEF Waited
<1>7. futures = {"none", "running", "done"} => Waited(new) = {}
  BY <1>1, <1>3, <1>4 DEF Waited, Row
<1> QED  BY <1>5, <1>6, <1>7 DEF new

-----------------------------------------------------------------------------
(* The invariant *)

LEMMA InitInv == Init => SInv
<1> SUFFICES ASSUME Init PROVE SInv
  OBVIOUS
<1>1. rows = <<>> /\ rows \in Seq(Row) /\ Len(rows) = 0 /\ DOMAIN rows = {}
  BY DEF Init
<1>2. TypeOK
  <2>1. cursor \in 0..Len(rows) /\ Len(rows) <= MaxRows
    BY <1>1, BoundAssumption DEF Init
  <2>2. arrivals \in 0..MaxArrivals /\ faults \in 0..MaxFaults
    BY BoundAssumption DEF Init
  <2> QED  BY <1>1, <2>1, <2>2 DEF Init, TypeOK
<1>3. Cardinality(InFlight) = 0
  BY <1>1, FS_EmptySet DEF InFlight
<1> QED  BY <1>1, <1>2, <1>3, CapacityAssumption DEF SInv, SlotsSuffice, Quiet, Init

\* A step that leaves rows and cursor alone keeps all that is said of them.
LEMMA RowsAlone ==
    ASSUME SInv, UNCHANGED <<rows, cursor>>,
           fresh' \in BOOLEAN, maintenance' \in BOOLEAN, stop' \in BOOLEAN,
           pc' \in {"collect", "recover", "claim", "wait", "drain", "join", "stopped"},
           arrivals' \in 0..MaxArrivals, faults' \in 0..MaxFaults,
           Quiet'
    PROVE  SInv'
<1>1. TypeOK'
  BY DEF SInv, TypeOK
<1>2. SlotsSuffice'
  BY DEF SInv, SlotsSuffice, InFlight
<1> QED  BY <1>1, <1>2 DEF SInv

\* A step of a running supervisor that leaves sane rows with no more of them
\* waited for than there are threads.
LEMMA RowsMove ==
    ASSUME SInv, Sane(rows'), cursor' \in 0..Len(rows'),
           Cardinality(Waited(rows')) <= Workers,
           fresh' \in BOOLEAN, maintenance' \in BOOLEAN, stop' \in BOOLEAN,
           pc' \in {"collect", "recover", "claim", "wait", "drain", "join", "stopped"},
           arrivals' \in 0..MaxArrivals, faults' \in 0..MaxFaults,
           Quiet'
    PROVE  SInv'
<1>1. TypeOK'
  BY DEF TypeOK, Sane, Loose
<1>2. SlotsSuffice'
  BY InFlightIsWaited DEF SlotsSuffice
<1> QED  BY <1>1, <1>2 DEF SInv

\* What every step may use.
LEMMA Known ==
    ASSUME SInv
    PROVE  /\ Sane(rows) /\ rows \in Seq(Row) /\ Len(rows) \in Nat /\ DOMAIN rows = 1..Len(rows)
           /\ \A i \in DOMAIN rows : rows[i] \in Row
           /\ cursor \in 0..Len(rows)
           /\ fresh \in BOOLEAN /\ maintenance \in BOOLEAN /\ stop \in BOOLEAN
           /\ pc \in {"collect", "recover", "claim", "wait", "drain", "join", "stopped"}
           /\ arrivals \in 0..MaxArrivals /\ faults \in 0..MaxFaults
           /\ IsFiniteSet(Waited(rows)) /\ Cardinality(Waited(rows)) \in Nat
           /\ Cardinality(Waited(rows)) <= Workers
           /\ Free = Workers - Cardinality(Waited(rows)) /\ Free \in Nat
<1>1. TypeOK /\ SlotsSuffice
  BY DEF SInv
<1>2. Sane(rows) /\ rows \in Seq(Row)
  BY <1>1, TypeParts DEF Sane, Loose
<1>3. IsFiniteSet(Waited(rows)) /\ Cardinality(Waited(rows)) \in Nat
  BY <1>2, WaitedType
<1>4. Cardinality(Waited(rows)) <= Workers
  BY <1>1, InFlightIsWaited DEF SlotsSuffice
<1>5. Free = Workers - Cardinality(Waited(rows)) /\ Free \in Nat
  BY <1>3, <1>4, InFlightIsWaited, CapacityAssumption DEF Free
<1> QED  BY <1>1, <1>2, <1>3, <1>4, <1>5, TypeParts

\* One row goes to a worker, or comes back from it.
LEMMA OneRow ==
    ASSUME SInv, NEW i \in DOMAIN rows, NEW state \in {"active", "closed"},
           NEW future \in {"running", "done"}, state = "closed" => future = "done",
           rows' = [rows EXCEPT ![i].state = state, ![i].future = future],
           rows[i].future # "none" \/ Free > 0
    PROVE  /\ Sane(rows') /\ Len(rows') = Len(rows) /\ DOMAIN rows' = DOMAIN rows
           /\ Cardinality(Waited(rows')) <= Workers
           /\ \A j \in DOMAIN rows : rows'[j].future # rows[j].future => j = i
<1> DEFINE row == [rows[i] EXCEPT !.state = state, !.future = future]
<1>1. /\ row \in Row /\ row.future # "none" /\ row.state # "pending"
      /\ row.state = "closed" => row.future = "done"
  BY Known DEF Row
<1>2. rows' = [rows EXCEPT ![i] = row]
  BY Known
<1> HIDE DEF row
<1>3. /\ Sane(rows') /\ Len(rows') = Len(rows) /\ Waited(rows') = Waited(rows) \cup {i}
  <2>1. Sane(rows)
    BY Known
  <2>2. LET new == [rows EXCEPT ![i] = row]
        IN  Sane(new) /\ Len(new) = Len(rows) /\ Waited(new) = Waited(rows) \cup {i}
    BY <1>1, <2>1, Replaced, Zenon
  <2> QED  BY <1>2, <2>2, Zenon
<1>4. Cardinality(Waited(rows')) <= Workers
  <2>1. i \in Waited(rows) \/ Free > 0
    BY DEF Waited
  <2>2. Cardinality(Waited(rows')) =
           IF i \in Waited(rows) THEN Cardinality(Waited(rows))
           ELSE Cardinality(Waited(rows)) + 1
    <3>1. IsFiniteSet(Waited(rows))
      BY Known
    <3> QED  BY <1>3, <3>1, FS_AddElement
  <2> QED  BY <2>1, <2>2, Known, CapacityAssumption
<1>5. DOMAIN rows' = DOMAIN rows /\ \A j \in DOMAIN rows : j # i => rows'[j] = rows[j]
  BY <1>2, Known
<1> QED  BY <1>3, <1>4, <1>5

-----------------------------------------------------------------------------
(* One lemma per action that moves rows *)

LEMMA EnqueueStep == SInv /\ Enqueue => SInv'
<1> SUFFICES ASSUME SInv, Enqueue PROVE SInv'
  OBVIOUS
<1>1. PICK watched \in BOOLEAN :
        rows' = Append(rows, [state |-> "pending", future |-> "none", watched |-> watched])
  BY DEF Enqueue
<1> DEFINE row == [state |-> "pending", future |-> "none", watched |-> watched]
<1>2. row \in Row /\ row.state = "pending" /\ row.future = "none"
  BY DEF Row
<1>3. rows' = Append(rows, row)
  BY <1>1
<1> HIDE DEF row
<1>4. /\ rows' \in Seq(Row) /\ Len(rows') = Len(rows) + 1 /\ DOMAIN rows' = 1..(Len(rows) + 1)
      /\ \A i \in DOMAIN rows' : rows'[i] = IF i \in DOMAIN rows THEN rows[i] ELSE row
  BY <1>2, <1>3, Known
<1>5. Len(rows') <= MaxRows
  BY <1>4, Known, BoundAssumption DEF Enqueue
<1>6. \A i \in DOMAIN rows' :
        /\ rows'[i].state = "pending" => rows'[i].future = "none"
        /\ rows'[i].state = "closed" => rows'[i].future \in {"none", "done"}
        /\ rows'[i].state = "closed" => rows'[i].future # "none"
  BY <1>2, <1>4, Known DEF Sane, Loose
<1>7. Sane(rows')
  BY <1>4, <1>5, <1>6 DEF Sane, Loose
<1>8. Waited(rows') = Waited(rows)
  BY <1>2, <1>4, Known DEF Waited
<1>9. arrivals' \in 0..MaxArrivals
  BY Known, BoundAssumption DEF Enqueue
<1>10. /\ UNCHANGED <<cursor, pc, stop, fresh, maintenance, faults>>
  BY DEF Enqueue, mainVars
<1>11. Quiet'
  BY <1>2, <1>4, <1>10 DEF SInv, Quiet
<1>12. cursor' \in 0..Len(rows')
  BY <1>4, <1>10, Known
<1>13. Cardinality(Waited(rows')) <= Workers
  BY <1>8, Known
<1> QED  BY <1>7, <1>9, <1>10, <1>11, <1>12, <1>13, Known, RowsMove

LEMMA CrashStep == SInv /\ Crash => SInv'
<1> SUFFICES ASSUME SInv, Crash PROVE SInv'
  OBVIOUS
<1> DEFINE new == [i \in DOMAIN rows |-> [rows[i] EXCEPT !.future = "none"]]
           all == {"none", "running", "done"}
<1>1. new = Forget(rows, all)
  <2>1. \A i \in DOMAIN rows : rows[i].future \in all
    BY Known DEF Row
  <2> QED  BY <2>1 DEF Forget
<1>2. Loose(new) /\ Waited(new) = {}
  <2>1. Sane(rows) /\ all \in SUBSET {"none", "running", "done"}
    BY Known
  <2> HIDE DEF new
  <2> QED  BY <1>1, <2>1, Forgotten
<1>3. Compact(new, 0)
  BY DEF Crash
<1> HIDE DEF new
<1>4. /\ Sane(rows') /\ cursor' \in 0..Len(rows')
      /\ Cardinality(Waited(rows')) <= Cardinality(Waited(new))
  BY <1>2, <1>3, CompactGives
<1>5. /\ pc' = "collect" /\ stop' = FALSE /\ fresh' = FALSE /\ maintenance' = TRUE
      /\ arrivals' = arrivals /\ faults' \in 0..MaxFaults
  BY Known, BoundAssumption DEF Crash
<1>6. Cardinality(Waited(rows')) <= Workers
  <2>1. Cardinality(Waited(rows')) \in Nat
    BY <1>4, WaitedType DEF Sane, Loose
  <2> QED  BY <1>2, <1>4, <2>1, FS_EmptySet, CapacityAssumption
<1>7. Quiet'
  BY <1>5 DEF Quiet
<1> QED  BY <1>4, <1>5, <1>6, <1>7, Known, RowsMove

LEMMA CollectStep == SInv /\ Collect => SInv'
<1> SUFFICES ASSUME SInv, Collect PROVE SInv'
  OBVIOUS
<1>1. UNCHANGED <<stop, fresh, maintenance, arrivals, faults>> /\ pc' \in {"drain", "recover"}
  BY DEF Collect, boundVars
<1>2. Quiet'
  BY <1>1 DEF Quiet
<1>3. CASE stop
  <2>1. UNCHANGED <<rows, cursor>>
    BY <1>3 DEF Collect
  <2> QED  BY <1>1, <1>2, <2>1, Known, RowsAlone
<1>4. CASE ~stop
  <2> DEFINE new == [i \in DOMAIN rows |->
                       IF rows[i].future = "done"
                       THEN [rows[i] EXCEPT !.future = "none"] ELSE rows[i]]
  <2>1. new = Forget(rows, {"done"})
    BY DEF Forget
  <2>2. Loose(new) /\ Waited(new) \in SUBSET Waited(rows)
    <3>1. Sane(rows) /\ {"done"} \in SUBSET {"none", "running", "done"}
      BY Known
    <3> HIDE DEF new
    <3> QED  BY <2>1, <3>1, Forgotten
  <2>3. Compact(new, cursor)
    BY <1>4 DEF Collect
  <2> HIDE DEF new
  <2>4. /\ Sane(rows') /\ cursor' \in 0..Len(rows')
        /\ Cardinality(Waited(rows')) <= Cardinality(Waited(new))
    BY <2>2, <2>3, CompactGives
  <2>5. Cardinality(Waited(new)) \in Nat /\ Cardinality(Waited(new)) <= Cardinality(Waited(rows))
    BY <2>2, Known, FS_Subset, FS_CardinalityType
  <2>6. Cardinality(Waited(rows')) <= Workers
    <3>1. Cardinality(Waited(rows')) \in Nat
      BY <2>4, WaitedType DEF Sane, Loose
    <3> QED  BY <2>4, <2>5, <3>1, Known, CapacityAssumption
  <2> QED  BY <1>1, <1>2, <2>4, <2>6, Known, RowsMove
<1> QED  BY <1>3, <1>4

LEMMA RecoverStep == SInv /\ Recover => SInv'
<1> SUFFICES ASSUME SInv, Recover PROVE SInv'
  OBVIOUS
<1> DEFINE page == IF Free > 0 THEN Page(cursor, Share(Free)) ELSE {}
           new == [i \in DOMAIN rows |->
                     IF i \in page \ Waited(rows)
                     THEN [rows[i] EXCEPT !.future = "running"] ELSE rows[i]]
<1>1. /\ rows' = new /\ cursor' = IF Free > 0 THEN Advance(page) ELSE cursor
      /\ pc' \in {"claim", "wait"}
      /\ UNCHANGED <<stop, fresh, maintenance, arrivals, faults>>
  BY InFlightIsWaited DEF Recover, Recovered, boundVars
<1>2. /\ page \in SUBSET With("active") /\ page \in SUBSET (1..Len(rows))
      /\ IsFiniteSet(page) /\ Cardinality(page) \in Nat /\ Cardinality(page) <= Free
  <2>1. CASE Free > 0
    <3>1. Share(Free) \in 1..Free
      BY <2>1, Known, ShareFits
    <3>2. cursor \in Int /\ Share(Free) \in Nat \ {0} /\ rows \in Seq(Row)
      BY <3>1, Known
    <3>3. page = Page(cursor, Share(Free))
      BY <2>1
    <3> HIDE DEF page
    <3>4. /\ page \in SUBSET With("active") /\ page \in SUBSET (1..Len(rows))
          /\ IsFiniteSet(page) /\ Cardinality(page) \in Nat
          /\ Cardinality(page) <= Share(Free)
      BY <3>2, <3>3, PageBound
    <3> QED  BY <3>1, <3>4, Known
  <2>2. CASE ~(Free > 0)
    <3>1. page = {} /\ Free = 0
      BY <2>2, Known
    <3> HIDE DEF page
    <3> QED  BY <3>1, FS_EmptySet
  <2> QED  BY <2>1, <2>2
<1>3. cursor' \in 0..Len(rows)
  <2> HIDE DEF page
  <2>1. CASE Free > 0 /\ page # {}
    <3>1. \E m \in page : \A j \in page : j <= m
      BY <1>2, <2>1, Known, LargestExists
    <3>2. Advance(page) \in page
      BY <2>1, <3>1 DEF Advance
    <3> QED  BY <1>1, <1>2, <2>1, <3>2, Known
  <2>2. CASE Free > 0 /\ page = {}
    BY <1>1, <2>2, Known DEF Advance
  <2>3. CASE ~(Free > 0)
    BY <1>1, <2>3, Known
  <2> QED  BY <2>1, <2>2, <2>3
<1>4. Sane(new) /\ Len(new) = Len(rows) /\ Waited(new) = Waited(rows) \cup page
  <2> HIDE DEF page
  <2>1. Sane(rows) /\ \A i \in page : i \in DOMAIN rows /\ rows[i].state = "active"
    BY <1>2, Known DEF With
  <2> QED  BY <2>1, TakenUp
<1> HIDE DEF page, new
<1>5. Cardinality(Waited(rows')) <= Workers
  <2>1. Cardinality(Waited(rows) \cup page) =
           Cardinality(Waited(rows)) + Cardinality(page) - Cardinality(Waited(rows) \cap page)
    BY <1>2, Known, FS_Union
  <2>2. Cardinality(Waited(rows) \cap page) \in Nat
    <3>1. Waited(rows) \cap page \in SUBSET page
      OBVIOUS
    <3> QED  BY <1>2, <3>1, FS_Subset, FS_CardinalityType
  <2> QED  BY <1>1, <1>2, <1>4, <2>1, <2>2, Known, CapacityAssumption
<1>6. Quiet'
  BY <1>1 DEF Quiet
<1> QED  BY <1>1, <1>3, <1>4, <1>5, <1>6, Known, RowsMove

LEMMA ClaimStep == SInv /\ Claim => SInv'
<1> SUFFICES ASSUME SInv, Claim PROVE SInv'
  OBVIOUS
<1>1. PICK i \in With("pending") :
        rows' = [rows EXCEPT ![i].state = "active", ![i].future = "running"]
  BY DEF Claim
<1>2. i \in DOMAIN rows /\ Free > 0
  BY DEF With, Claim, Claimable
<1>3. /\ Sane(rows') /\ Len(rows') = Len(rows)
      /\ Cardinality(Waited(rows')) <= Workers
  BY <1>1, <1>2, OneRow
<1>4. /\ UNCHANGED <<cursor, pc, stop, fresh, maintenance, arrivals, faults>> /\ pc = "claim"
  BY DEF Claim, mainVars, boundVars
<1>5. Quiet'
  BY <1>4 DEF Quiet
<1>6. cursor' \in 0..Len(rows')
  BY <1>3, <1>4, Known
<1> QED  BY <1>3, <1>4, <1>5, <1>6, Known, RowsMove

LEMMA WorkStep == SInv /\ (\E i \in DOMAIN rows : Work(i)) => SInv'
<1> SUFFICES ASSUME SInv, NEW i \in DOMAIN rows, Work(i) PROVE SInv'
  OBVIOUS
<1>1. PICK state \in {"active", "closed"} :
        rows' = [rows EXCEPT ![i].state = state, ![i].future = "done"]
  BY DEF Work
<1>2. rows[i].future = "running"
  BY DEF Work
<1>3. /\ Sane(rows') /\ Len(rows') = Len(rows)
      /\ Cardinality(Waited(rows')) <= Workers
  BY <1>1, <1>2, OneRow
<1>4. UNCHANGED <<cursor, pc, stop, fresh, maintenance, arrivals, faults>>
  BY DEF Work, mainVars, boundVars
<1>5. Quiet'
  BY <1>2, <1>4 DEF SInv, Quiet
<1>6. cursor' \in 0..Len(rows')
  BY <1>3, <1>4, Known
<1> QED  BY <1>3, <1>4, <1>5, <1>6, Known, RowsMove

\* The claim SQL made and did not acknowledge.
LEMMA OutageStep == SInv /\ Outage => SInv'
<1> SUFFICES ASSUME SInv, Outage PROVE SInv'
  OBVIOUS
<1>1. /\ UNCHANGED <<cursor, stop, fresh, maintenance, arrivals>> /\ pc' = "wait"
      /\ faults' \in 0..MaxFaults
  BY Known, BoundAssumption DEF Outage
<1>2. Quiet'
  BY <1>1 DEF Quiet
<1>3. CASE UNCHANGED rows
  BY <1>1, <1>2, <1>3, Known, RowsAlone
<1>4. ASSUME NEW i \in With("pending"), rows' = [rows EXCEPT ![i].state = "active"]
      PROVE  SInv'
  <2> DEFINE row == [rows[i] EXCEPT !.state = "active"]
  <2>1. i \in DOMAIN rows /\ rows[i].state = "pending" /\ rows[i].future = "none"
    BY Known DEF With, Sane, Loose
  <2>2. row \in Row /\ row.state = "active" /\ row.future = "none"
    BY <2>1, Known DEF Row
  <2>3. rows' = [rows EXCEPT ![i] = row]
    BY <1>4, <2>1, Known
  <2> HIDE DEF row
  <2>4. /\ rows' \in Seq(Row) /\ Len(rows') = Len(rows) /\ DOMAIN rows' = DOMAIN rows
        /\ \A j \in DOMAIN rows : rows'[j] = IF j = i THEN row ELSE rows[j]
    BY <2>1, <2>2, <2>3, Known
  <2>5. \A j \in DOMAIN rows' :
          /\ rows'[j].state = "pending" => rows'[j].future = "none"
          /\ rows'[j].state = "closed" => rows'[j].future \in {"none", "done"}
          /\ rows'[j].state = "closed" => rows'[j].future # "none"
    BY <2>2, <2>4, Known DEF Sane, Loose
  <2>6. Sane(rows')
    BY <2>4, <2>5, Known DEF Sane, Loose
  <2>7. Waited(rows') = Waited(rows)
    BY <2>1, <2>2, <2>4 DEF Waited
  <2>8. Cardinality(Waited(rows')) <= Workers /\ cursor' \in 0..Len(rows')
    BY <1>1, <2>4, <2>7, Known
  <2> QED  BY <1>1, <1>2, <2>6, <2>8, Known, RowsMove
<1> QED  BY <1>3, <1>4 DEF Outage

-----------------------------------------------------------------------------
(* All steps *)

LEMMA NextInv == SInv /\ [Next]_vars => SInv'
<1> SUFFICES ASSUME SInv, [Next]_vars PROVE SInv'
  OBVIOUS
<1>1. CASE Age
  <2>1. /\ UNCHANGED <<rows, cursor, pc, stop, maintenance, arrivals>> /\ fresh' = FALSE
        /\ faults' \in 0..MaxFaults
    BY <1>1, Known, BoundAssumption DEF Age, mainVars
  <2>2. Quiet'
    BY <2>1 DEF SInv, Quiet
  <2> QED  BY <2>1, <2>2, Known, RowsAlone
<1>2. CASE Signal
  <2>1. UNCHANGED <<rows, cursor, pc, fresh, maintenance, arrivals, faults>> /\ stop' = TRUE
    BY <1>2 DEF Signal, boundVars
  <2>2. Quiet'
    BY <2>1 DEF SInv, Quiet
  <2> QED  BY <2>1, <2>2, Known, RowsAlone
<1>3. CASE EndPass \/ Wake
  <2>1. /\ UNCHANGED <<rows, cursor, stop, fresh, maintenance, arrivals, faults>>
        /\ pc' \in {"wait", "collect"}
    BY <1>3 DEF EndPass, Wake, boundVars
  <2>2. Quiet'
    BY <2>1 DEF Quiet
  <2> QED  BY <2>1, <2>2, Known, RowsAlone
<1>4. CASE Drain
  <2>1. /\ UNCHANGED <<rows, cursor, stop, fresh, maintenance, arrivals, faults>>
        /\ pc' = "join" /\ \A i \in DOMAIN rows : rows[i].future # "running"
    BY <1>4 DEF Drain, boundVars
  <2>2. Quiet'
    BY <2>1 DEF Quiet
  <2> QED  BY <2>1, <2>2, Known, RowsAlone
<1>5. CASE Join
  <2>1. /\ UNCHANGED <<rows, cursor, stop, fresh, maintenance, arrivals, faults>>
        /\ pc = "join" /\ pc' = "stopped" /\ ~maintenance
    BY <1>5 DEF Join, boundVars
  <2>2. Quiet'
    BY <2>1 DEF SInv, Quiet
  <2> QED  BY <2>1, <2>2, Known, RowsAlone
<1>6. CASE Maintain
  <2>1. /\ UNCHANGED <<rows, cursor, pc, stop, arrivals, faults>> /\ fresh' \in BOOLEAN
        /\ maintenance /\ maintenance' \in BOOLEAN
    BY <1>6, Known DEF Maintain, mainVars, boundVars
  <2>2. Quiet'
    BY <2>1 DEF SInv, Quiet
  <2> QED  BY <2>1, <2>2, Known, RowsAlone
<1>7. CASE UNCHANGED vars
  <2>1. UNCHANGED <<rows, cursor, pc, stop, fresh, maintenance, arrivals, faults>>
    BY <1>7 DEF vars
  <2>2. Quiet'
    BY <2>1 DEF SInv, Quiet
  <2> QED  BY <2>1, <2>2, Known, RowsAlone
<1> QED  BY <1>1, <1>2, <1>3, <1>4, <1>5, <1>6, <1>7, EnqueueStep, CrashStep, CollectStep,
            RecoverStep, ClaimStep, WorkStep, OutageStep DEF Next, Supervise

\* Every reachable state has the invariant.
THEOREM SupervisorInvariance == Spec => []SInv
BY InitInv, NextInv, PTL DEF Spec

\* The types of Supervisor's variables, for every capacity.
THEOREM SupervisorTypeCorrect == Spec => []TypeOK
<1>1. SInv => TypeOK
  BY DEF SInv
<1> QED  BY <1>1, SupervisorInvariance, PTL

\* No pass of Runtime.run hands out more rows than there are worker threads
\* (runtime.py:146-162), whatever it finds to recover and to claim.
THEOREM NoRowWaitsForAThread == Spec => []SlotsSuffice
<1>1. SInv => SlotsSuffice
  BY DEF SInv
<1> QED  BY <1>1, SupervisorInvariance, PTL

\* Once Runtime.run has returned nothing signs or sends any more
\* (runtime.py:132, 172-177).
THEOREM StoppedLeavesNobody == Spec => []StoppedIsQuiet
<1>1. SInv => StoppedIsQuiet
  BY DEF SInv, Quiet, StoppedIsQuiet
<1> QED  BY <1>1, SupervisorInvariance, PTL
-----------------------------------------------------------------------------
(* A row ahead of the recovery cursor *)

\* A row that is kept keeps its content and its side of the cursor, and comes no
\* further from it.
LEMMA CompactKeepsAhead ==
    ASSUME NEW list, NEW at \in Nat, Loose(list), Compact(list, at),
           NEW i \in Kept(list), at < i
    PROVE  \E j \in DOMAIN rows' :
             rows'[j] = list[i] /\ cursor' < j /\ j - cursor' <= i - at
<1> DEFINE n == Cardinality(Kept(list))
           Upto(x) == {k \in Kept(list) : k <= x}
           between == {k \in Kept(list) : at < k /\ k <= i}
<1>1. list \in Seq(Row) /\ DOMAIN list = 1..Len(list) /\ Len(list) \in Nat
  BY DEF Loose
<1>2. IsFiniteSet(1..Len(list))
  BY <1>1, FS_Interval
<1>3. Kept(list) \in SUBSET (1..Len(list)) /\ IsFiniteSet(Kept(list)) /\ n \in Nat
  <2>1. Kept(list) \in SUBSET (1..Len(list))
    BY <1>1 DEF Kept
  <2> QED  BY <1>2, <2>1, FS_Subset, FS_CardinalityType
<1>4. PICK old \in [1..n -> Kept(list)] :
        /\ \A k, l \in 1..n : k < l => old[k] < old[l]
        /\ rows' = [k \in 1..n |-> list[old[k]]]
  BY DEF Compact
<1>5. cursor' = Cardinality(Upto(at))
  BY DEF Compact
<1> HIDE DEF n
<1>6. \A k \in 1..n : old[k] \in Int
  BY <1>3, <1>4
<1>7. \A k, l \in 1..n : old[k] = old[l] => k = l
  <2> SUFFICES ASSUME NEW k \in 1..n, NEW l \in 1..n, k < l PROVE old[k] # old[l]
    BY <1>3
  <2> QED  BY <1>4, <1>6
<1>8. PICK j \in 1..n : old[j] = i
  <2>1. old \in Injection(1..n, Kept(list))
    BY <1>4, <1>7 DEF Injection, IsInjective
  <2>2. Cardinality(1..n) = n
    BY <1>3, FS_Interval
  <2>3. old \in Surjection(1..n, Kept(list))
    BY <1>3, <2>1, <2>2, FS_Injection DEF n
  <2> QED  BY <2>3 DEF Surjection
<1>9. j \in DOMAIN rows' /\ rows'[j] = list[i]
  BY <1>4, <1>8
<1>10. Cardinality(Upto(i)) = j
  <2> DEFINE f == [k \in 1..j |-> old[k]]
  <2>1. \A k \in 1..j : k \in 1..n /\ old[k] \in Upto(i)
    <3> SUFFICES ASSUME NEW k \in 1..j PROVE k \in 1..n /\ old[k] <= i /\ old[k] \in Kept(list)
      OBVIOUS
    <3>1. k \in 1..n /\ (k < j \/ k = j)
      BY <1>3
    <3>2. old[k] < old[j] \/ old[k] = old[j]
      BY <1>4, <3>1
    <3> QED  BY <1>4, <1>6, <1>8, <3>1, <3>2
  <2>2. \A k \in Upto(i) : \E l \in 1..j : old[l] = k
    <3> SUFFICES ASSUME NEW k \in Upto(i) PROVE \E l \in 1..j : old[l] = k
      OBVIOUS
    <3>1. PICK l \in 1..n : old[l] = k
      <4>1. old \in Injection(1..n, Kept(list))
        BY <1>4, <1>7 DEF Injection, IsInjective
      <4>2. Cardinality(1..n) = n
        BY <1>3, FS_Interval
      <4>3. old \in Surjection(1..n, Kept(list))
        BY <1>3, <4>1, <4>2, FS_Injection DEF n
      <4> QED  BY <4>3 DEF Surjection
    <3>2. ~(j < l)
      BY <1>4, <1>6, <1>8, <3>1
    <3> QED  BY <1>3, <3>1, <3>2
  <2>3. f \in Bijection(1..j, Upto(i))
    <3>1. f \in Injection(1..j, Upto(i))
      BY <1>7, <2>1 DEF Injection, IsInjective
    <3>2. f \in Surjection(1..j, Upto(i))
      BY <2>1, <2>2 DEF Surjection
    <3> QED  BY <3>1, <3>2 DEF Bijection
  <2>4. IsFiniteSet(1..j) /\ Cardinality(1..j) = j
    <3>1. j \in Int /\ 1 <= j
      BY <1>3
    <3> HIDE DEF f, Upto
    <3> QED  BY <3>1, FS_Interval
  <2> HIDE DEF f, Upto
  <2> QED  BY <2>3, <2>4, FS_Bijection DEF ExistsBijection
<1>11. /\ Cardinality(Upto(at)) \in Nat /\ Cardinality(between) \in Nat
       /\ IsFiniteSet(Upto(at)) /\ IsFiniteSet(between)
  <2>1. Upto(at) \in SUBSET Kept(list) /\ between \in SUBSET Kept(list)
    OBVIOUS
  <2> HIDE DEF Upto, between
  <2> QED  BY <1>3, <2>1, FS_Subset, FS_CardinalityType
<1>12. Cardinality(Upto(i)) = Cardinality(Upto(at)) + Cardinality(between)
  <2>1. Upto(i) = Upto(at) \cup between /\ Upto(at) \cap between = {}
    BY <1>3
  <2> HIDE DEF Upto, between
  <2>2. Cardinality(Upto(at) \cup between) =
           Cardinality(Upto(at)) + Cardinality(between) - Cardinality(Upto(at) \cap between)
    BY <1>11, FS_Union
  <2>3. Cardinality(Upto(at) \cap between) = 0
    BY <2>1, FS_EmptySet
  <2>4. Cardinality(Upto(i)) = Cardinality(Upto(at) \cup between)
    BY <2>1
  <2> QED  BY <1>11, <2>2, <2>3, <2>4
<1>13. Cardinality(between) <= i - at
  <2>1. i \in Nat /\ between \in SUBSET ((at + 1)..i)
    BY <1>3
  <2> HIDE DEF between, Upto
  <2>2. at + 1 \in Int /\ i \in Int /\ ~(at + 1 > i) /\ i - (at + 1) + 1 = i - at
    BY <2>1
  <2>3. IsFiniteSet((at + 1)..i) /\ Cardinality((at + 1)..i) = i - at
    <3>1. /\ IsFiniteSet((at + 1)..i)
          /\ Cardinality((at + 1)..i) = IF at + 1 > i THEN 0 ELSE i - (at + 1) + 1
      BY <2>2, FS_Interval
    <3> QED  BY <2>2, <3>1
  <2>4. Cardinality(between) <= Cardinality((at + 1)..i)
    BY <2>1, <2>3, FS_Subset
  <2> QED  BY <2>3, <2>4
<1>14. Cardinality(between) # 0
  <2>1. i \in between
    BY <1>3
  <2> HIDE DEF between
  <2> QED  BY <1>11, <2>1, FS_EmptySet
<1>15. cursor' < j /\ j - cursor' <= i - at
  <2> HIDE DEF Upto, between
  <2> QED  BY <1>3, <1>5, <1>10, <1>11, <1>12, <1>13, <1>14
<1> QED  BY <1>9, <1>15

\* A page is a first part of the active rows after the cursor: one that is not on
\* it comes after all that are.
LEMMA PageComesFirst ==
    ASSUME NEW after \in Nat, NEW limit \in Nat \ {0}, rows \in Seq(Row),
           NEW i \in With("active"), after < i, i \notin Page(after, limit)
    PROVE  after < Advance(Page(after, limit)) /\ Advance(Page(after, limit)) < i
<1> DEFINE Before(k) == {j \in With("active") : after < j /\ j < k}
           page == Page(after, limit)
<1>1. /\ With("active") \in SUBSET (1..Len(rows)) /\ Len(rows) \in Nat
      /\ IsFiniteSet(1..Len(rows))
  <2>1. With("active") \in SUBSET (1..Len(rows)) /\ Len(rows) \in Nat
    BY DEF With
  <2> QED  BY <2>1, FS_Interval
<1>2. \A k : k \in page <=> k \in With("active") /\ k > after /\ Cardinality(Before(k)) < limit
  BY DEF Page
<1>3. \A k : IsFiniteSet(Before(k)) /\ Cardinality(Before(k)) \in Nat
  <2> TAKE k
  <2>1. Before(k) \in SUBSET (1..Len(rows))
    BY <1>1
  <2> QED  BY <1>1, <2>1, FS_Subset, FS_CardinalityType
<1> HIDE DEF page
<1>4. \A k \in page : k < i
  <2> SUFFICES ASSUME NEW k \in page, ~(k < i) PROVE FALSE
    OBVIOUS
  <2>1. k \in Int /\ i \in Int
    <3>1. k \in With("active") /\ i \in With("active")
      BY <1>2
    <3>2. k \in 1..Len(rows) /\ i \in 1..Len(rows)
      BY <1>1, <3>1
    <3> QED  BY <1>1, <3>2
  <2>2. i < k
    <3>1. k # i
      BY DEF page
    <3> QED  BY <2>1, <3>1
  <2>3. Before(i) \in SUBSET Before(k)
    BY <1>1, <2>1, <2>2
  <2> HIDE DEF Before
  <2>4. Cardinality(Before(i)) <= Cardinality(Before(k)) /\ Cardinality(Before(k)) < limit
    BY <1>2, <1>3, <2>3, FS_Subset
  <2>5. Cardinality(Before(i)) < limit
    BY <1>3, <2>4
  <2> QED  BY <1>2, <2>5 DEF page
<1>5. page # {}
  <2> DEFINE later == {k \in 1..Len(rows) : Len(rows) + 1 - k \in With("active") /\ after < Len(rows) + 1 - k}
  <2>1. Len(rows) + 1 - i \in later
    <3>1. i \in 1..Len(rows) /\ Len(rows) + 1 - i \in 1..Len(rows)
          /\ Len(rows) + 1 - (Len(rows) + 1 - i) = i
      BY <1>1
    <3> QED  BY <3>1
  <2>2. PICK m \in later : \A k \in later : k <= m
    <3>1. later \in SUBSET (1..Len(rows)) /\ later # {}
      BY <2>1
    <3> HIDE DEF later
    <3> QED  BY <1>1, <3>1, LargestExists
  <2> DEFINE first == Len(rows) + 1 - m
  <2>3. first \in With("active") /\ after < first
    BY <2>2
  <2>4. Before(first) = {}
    <3> SUFFICES ASSUME NEW k \in Before(first) PROVE FALSE
      OBVIOUS
    <3>1. k \in 1..Len(rows) /\ k \in With("active") /\ after < k /\ k < first /\ m \in 1..Len(rows)
      BY <1>1, <2>2
    <3>2. Len(rows) + 1 - k \in 1..Len(rows) /\ Len(rows) + 1 - (Len(rows) + 1 - k) = k
      BY <1>1, <3>1
    <3>3. Len(rows) + 1 - k \in later
      BY <3>1, <3>2
    <3> HIDE DEF later
    <3> QED  BY <1>1, <2>2, <3>1, <3>3
  <2> HIDE DEF first, Before
  <2>5. Cardinality(Before(first)) < limit
    BY <2>4, FS_EmptySet
  <2> QED  BY <1>2, <2>3, <2>5
<1>6. page \in SUBSET (1..Len(rows))
  BY <1>1, <1>2
<1>7. PICK m \in page : \A j \in page : j <= m
  BY <1>1, <1>5, <1>6, LargestExists
<1>8. Advance(page) \in page
  BY <1>5, <1>7 DEF Advance
<1>9. Advance(page) > after
  BY <1>2, <1>8
<1> QED  BY <1>4, <1>8, <1>9, <1>6 DEF page

\* What the property says of one step and one row.
Skipped(i) ==
    ~ \/ Watched("active", {"running"})'
      \/ \E j \in DOMAIN rows' :
           /\ Ahead(j)'
           /\ Crash \/ j - cursor' <= i - cursor
           /\ Recover /\ Free > 0 => j - cursor' < i - cursor

\* A row that is neither moved nor passed.
LEMMA StaysAhead ==
    ASSUME SInv, NEW i \in DOMAIN rows, Ahead(i), ~Recover,
           i \in DOMAIN rows', rows'[i] = rows[i], cursor' = cursor
    PROVE  ~Skipped(i)
<1>1. Ahead(i)'
  BY DEF Ahead
<1>2. i - cursor' <= i - cursor
  BY Known
<1> QED  BY <1>1, <1>2 DEF Skipped

\* Forgetting futures touches no row that has none.
LEMMA ForgetKeepsAhead ==
    ASSUME SInv, NEW futures, NEW i \in DOMAIN rows, Ahead(i)
    PROVE  i \in Kept(Forget(rows, futures)) /\ Forget(rows, futures)[i] = rows[i]
<1>1. rows[i] \in Row /\ rows[i].state = "active" /\ rows[i].future = "none"
  BY Known DEF Ahead
<1>2. [rows[i] EXCEPT !.future = "none"] = rows[i]
  BY <1>1 DEF Row
<1>3. Forget(rows, futures)[i] = rows[i] /\ i \in DOMAIN Forget(rows, futures)
  BY <1>2 DEF Forget
<1> QED  BY <1>1, <1>3 DEF Kept

LEMMA CollectSkipsNobody ==
    ASSUME SInv, NEW i \in DOMAIN rows, Ahead(i), Collect
    PROVE  ~Skipped(i)
<1>1. ~Recover
  BY DEF Collect, Recover
<1>2. CASE stop
  BY <1>1, <1>2, StaysAhead DEF Collect
<1>3. CASE ~stop
  <2> DEFINE new == Forget(rows, {"done"})
  <2>1. Compact(new, cursor)
    <3>1. new = [k \in DOMAIN rows |->
                   IF rows[k].future = "done" THEN [rows[k] EXCEPT !.future = "none"] ELSE rows[k]]
      BY DEF Forget
    <3> HIDE DEF new
    <3> QED  BY <1>3, <3>1 DEF Collect
  <2>2. Loose(new)
    <3>1. Sane(rows) /\ {"done"} \in SUBSET {"none", "running", "done"}
      BY Known
    <3> QED  BY <3>1, Forgotten
  <2>3. i \in Kept(new) /\ new[i] = rows[i]
    BY ForgetKeepsAhead
  <2> HIDE DEF new
  <2>4. PICK j \in DOMAIN rows' : rows'[j] = rows[i] /\ cursor' < j /\ j - cursor' <= i - cursor
    <3>1. cursor \in Nat /\ cursor < i
      BY Known DEF Ahead
    <3> QED  BY <2>1, <2>2, <2>3, <3>1, CompactKeepsAhead
  <2>5. Ahead(j)'
    BY <2>4 DEF Ahead
  <2> QED  BY <1>1, <2>4, <2>5 DEF Skipped
<1> QED  BY <1>2, <1>3

\* The next process begins before every row.
LEMMA CrashSkipsNobody ==
    ASSUME SInv, NEW i \in DOMAIN rows, Ahead(i), Crash
    PROVE  ~Skipped(i)
<1> DEFINE all == {"none", "running", "done"}
           new == Forget(rows, all)
<1>1. Compact(new, 0)
  <2>1. \A k \in DOMAIN rows : rows[k].future \in all
    BY Known DEF Row
  <2>2. new = [k \in DOMAIN rows |-> [rows[k] EXCEPT !.future = "none"]]
    BY <2>1 DEF Forget
  <2> HIDE DEF new
  <2> QED  BY <2>2 DEF Crash
<1>2. Loose(new)
  <2>1. Sane(rows) /\ all \in SUBSET {"none", "running", "done"}
    BY Known
  <2> QED  BY <2>1, Forgotten
<1>3. i \in Kept(new) /\ new[i] = rows[i]
  BY ForgetKeepsAhead
<1> HIDE DEF new
<1>4. PICK j \in DOMAIN rows' : rows'[j] = rows[i] /\ cursor' < j
  <2>1. 0 \in Nat /\ 0 < i
    BY Known
  <2> QED  BY <1>1, <1>2, <1>3, <2>1, CompactKeepsAhead
<1>5. Ahead(j)'
  BY <1>4 DEF Ahead
<1>6. ~(Recover /\ Free > 0)
  BY DEF Crash, Recover, Recovered
<1> QED  BY <1>4, <1>5, <1>6 DEF Skipped

\* A page takes the row up or ends before it.
LEMMA RecoverSkipsNobody ==
    ASSUME SInv, NEW i \in DOMAIN rows, Ahead(i), Recover
    PROVE  ~Skipped(i)
<1> DEFINE page == IF Free > 0 THEN Page(cursor, Share(Free)) ELSE {}
<1>1. /\ rows' = [k \in DOMAIN rows |->
                    IF k \in page \ InFlight THEN [rows[k] EXCEPT !.future = "running"] ELSE rows[k]]
      /\ cursor' = IF Free > 0 THEN Advance(page) ELSE cursor
  BY DEF Recover
<1>2. i \in With("active") /\ i \notin InFlight /\ cursor < i /\ cursor \in Nat
  BY Known DEF Ahead, With, InFlight
<1>3. CASE i \in page
  <2>1. rows'[i] = [rows[i] EXCEPT !.future = "running"] /\ i \in DOMAIN rows'
    BY <1>1, <1>2, <1>3
  <2>2. rows'[i].watched /\ rows'[i].state = "active" /\ rows'[i].future = "running"
    BY <2>1, Known DEF Ahead, Row
  <2>3. Watched("active", {"running"})'
    BY <2>1, <2>2 DEF Watched
  <2> QED  BY <2>3 DEF Skipped
<1>4. CASE i \notin page
  <2>1. rows'[i] = rows[i] /\ i \in DOMAIN rows'
    BY <1>1, <1>4
  <2>2. cursor' < i /\ i - cursor' <= i - cursor /\ (Free > 0 => i - cursor' < i - cursor)
    <3>1. CASE Free > 0
      <4>1. Share(Free) \in Nat \ {0}
        BY <3>1, Known, ShareFits
      <4>2. page = Page(cursor, Share(Free))
        BY <3>1
      <4>3. cursor < Advance(page) /\ Advance(page) < i
        BY <1>2, <1>4, <4>1, <4>2, Known, PageComesFirst
      <4>4. Advance(page) \in Int
        <5>1. cursor' \in 0..Len(rows')
          <6>1. SInv'
            BY RecoverStep
          <6> QED  BY <6>1, TypeParts DEF SInv, TypeOK
        <5> QED  BY <1>1, <3>1, <5>1
      <4> HIDE DEF page
      <4> QED  BY <1>1, <1>2, <3>1, <4>3, <4>4, Known
    <3>2. CASE ~(Free > 0)
      BY <1>1, <1>2, <3>2, Known
    <3> QED  BY <3>1, <3>2
  <2>3. Ahead(i)'
    BY <2>1, <2>2 DEF Ahead
  <2> QED  BY <2>1, <2>2, <2>3 DEF Skipped
<1> QED  BY <1>3, <1>4

\* Whatever else moves rows leaves this one, its place and the cursor alone.
LEMMA OthersSkipNobody ==
    ASSUME SInv, NEW i \in DOMAIN rows, Ahead(i),
           \/ Enqueue \/ Claim \/ Outage
           \/ \E k \in DOMAIN rows : Work(k)
    PROVE  ~Skipped(i)
<1>1. rows[i].state = "active" /\ rows[i].future = "none"
  BY DEF Ahead
<1>2. CASE Enqueue
  <2>1. PICK row : rows' = Append(rows, row)
    BY <1>2 DEF Enqueue
  <2>2. i \in DOMAIN rows' /\ rows'[i] = rows[i]
    BY <2>1, Known
  <2>3. cursor' = cursor /\ ~Recover
    BY <1>2 DEF Enqueue, mainVars, Recover, Recovered
  <2> QED  BY <2>2, <2>3, StaysAhead
<1>3. CASE Claim
  <2>1. PICK k \in With("pending") :
          rows' = [rows EXCEPT ![k].state = "active", ![k].future = "running"]
    BY <1>3 DEF Claim
  <2>2. i # k
    BY <1>1, <2>1 DEF With
  <2>3. i \in DOMAIN rows' /\ rows'[i] = rows[i]
    BY <2>1, <2>2
  <2>4. cursor' = cursor /\ ~Recover
    BY <1>3 DEF Claim, mainVars, Recover
  <2> QED  BY <2>3, <2>4, StaysAhead
<1>4. CASE Outage
  <2>1. cursor' = cursor /\ ~Recover
    BY <1>4, Known DEF Outage, Recover, boundVars
  <2>2. i \in DOMAIN rows' /\ rows'[i] = rows[i]
    <3>1. ASSUME NEW k \in With("pending"), rows' = [rows EXCEPT ![k].state = "active"]
          PROVE  i \in DOMAIN rows' /\ rows'[i] = rows[i]
      <4>1. i # k
        BY <1>1, <3>1 DEF With
      <4> QED  BY <3>1, <4>1
    <3> QED  BY <1>4, <3>1 DEF Outage
  <2> QED  BY <2>1, <2>2, StaysAhead
<1>5. ASSUME NEW k \in DOMAIN rows, Work(k) PROVE ~Skipped(i)
  <2>1. PICK state \in {"active", "closed"} :
          rows' = [rows EXCEPT ![k].state = state, ![k].future = "done"]
    BY <1>5 DEF Work
  <2>2. i # k
    BY <1>1, <1>5 DEF Work
  <2>3. i \in DOMAIN rows' /\ rows'[i] = rows[i]
    BY <2>1, <2>2
  <2>4. cursor' = cursor
    BY <1>5 DEF Work, mainVars
  <2>5. ~Recover
    <3>1. rows'[k].future = "done" /\ rows[k].future = "running"
      BY <1>5, <2>1, Known DEF Work, Row
    <3>2. pc' = pc
      BY <1>5 DEF Work, mainVars
    <3> QED  BY <3>2 DEF Recover, Recovered
  <2> QED  BY <2>3, <2>4, <2>5, StaysAhead
<1> QED  BY <1>2, <1>3, <1>4, <1>5

\* No pass of the recovery leaves out a claimed row ahead of its cursor, whatever
\* is enqueued, claimed and closed in the meantime (runtime.py:146-154).
THEOREM NobodyIsSkipped == Spec => RecoverySkipsNobody
<1>1. ASSUME SInv, [Next]_vars, NEW i \in DOMAIN rows, Ahead(i), vars' # vars
      PROVE  ~Skipped(i)
  <2>1. CASE Age \/ Signal \/ EndPass \/ Wake \/ Drain \/ Join \/ Maintain
    <3>1. rows' = rows /\ cursor' = cursor
      BY <2>1 DEF Age, Signal, EndPass, Wake, Drain, Join, Maintain, mainVars
    <3>2. ~Recover
      BY <2>1 DEF Age, Signal, EndPass, Wake, Drain, Join, Maintain, mainVars, Recover, Recovered
    <3> QED  BY <1>1, <3>1, <3>2, StaysAhead
  <2> QED  BY <1>1, <2>1, OthersSkipNobody, CollectSkipsNobody, CrashSkipsNobody, RecoverSkipsNobody
              DEF Next, Supervise
<1>2. SInv /\ [Next]_vars =>
        [\A i \in DOMAIN rows : Ahead(i) => ~Skipped(i)]_vars
  BY <1>1
<1>3. (\A i \in DOMAIN rows : Ahead(i) => ~Skipped(i)) =>
        \A i \in DOMAIN rows : Ahead(i) =>
          \/ Watched("active", {"running"})'
          \/ \E j \in DOMAIN rows' :
               /\ Ahead(j)'
               /\ Crash \/ j - cursor' <= i - cursor
               /\ Recover /\ Free > 0 => j - cursor' < i - cursor
  BY DEF Skipped
<1> QED  BY <1>2, <1>3, SupervisorInvariance, PTL DEF Spec, RecoverySkipsNobody
=============================================================================
