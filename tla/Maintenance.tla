----------------------------- MODULE Maintenance -----------------------------
(***************************************************************************)
(* The passes of Runtime.maintain over one of the lists it takes a page of *)
(* in each pass: the records of the journal, the requested accounts, the   *)
(* onboarding roles, or the queued rows without an idle key.  Any stage    *)
(* may fail.  A failed pass closes the session, and with it go the journal *)
(* and the pool manager and their cursors; those of the accounts and the   *)
(* roles are locals of maintain and live until the process ends.           *)
(***************************************************************************)
EXTENDS Integers, FiniteSets

CONSTANTS
    MaxItems,      \* bound: items that ever enter the list
    PageLimit,     \* items of a page
    MaxRestarts    \* bound: ends of the process

ASSUME BoundAssumption == MaxItems \in Nat /\ PageLimit \in Nat \ {0} /\ MaxRestarts \in Nat

VARIABLES
    kind,       \* the list that is followed
    open,       \* its items
    entered,    \* the items that were ever in it
    cursor,     \* where its next page begins
    stage,      \* what the pass does next
    live,       \* whether there is a session
    visited,    \* items this pass has looked at
    restarts

list == <<kind, open, entered>>
vars == <<list, cursor, stage, live, visited, restarts>>

Items == 1..MaxItems
Stages == {"inventory", "accounts", "roles", "pools"}

\* The stage that reads the list.
StageOf == [record |-> "inventory", account |-> "accounts", role |-> "roles", row |-> "pools"]

TypeOK ==
    /\ kind \in DOMAIN StageOf
    /\ entered \subseteq Items /\ open \subseteq entered /\ visited \subseteq entered
    /\ cursor \in 0..MaxItems
    /\ stage \in Stages \cup {"wait"}
    /\ live \in BOOLEAN /\ restarts \in 0..MaxRestarts

Init ==
    /\ kind \in DOMAIN StageOf
    /\ entered \in SUBSET Items /\ open = entered
    /\ cursor = 0 /\ stage = "wait" /\ live = FALSE /\ visited = {} /\ restarts = 0

-----------------------------------------------------------------------------
(* The list.  Ids only grow; the records of the journal are in the order   *)
(* of their hashes, where a new one may come anywhere.                     *)

Enter ==
    /\ \E x \in Items \ entered :
         /\ kind # "record" => \A y \in entered : y < x
         /\ entered' = entered \cup {x} /\ open' = open \cup {x}
    /\ UNCHANGED <<kind, cursor, stage, live, visited, restarts>>

\* Activated, bound, decided, claimed: by this thread, a worker or a client.
Leave(x) ==
    /\ x \in open
    /\ open' = open \ {x}
    /\ UNCHANGED <<kind, entered, cursor, stage, live, visited, restarts>>

-----------------------------------------------------------------------------
(* Pages.  A page by id ends in an empty one, which sends the cursor back; *)
(* the journal counts through its records.                                 *)

ById ==
    {x \in open : x > cursor /\ Cardinality({y \in open : cursor < y /\ y < x}) < PageLimit}

\* Where x is in the order of the items, and where the page of the journal begins.
Place(x) == Cardinality({y \in open : y < x})

Start == IF open = {} THEN 0 ELSE cursor % Cardinality(open)

ByIndex ==
    LET n == Cardinality(open)
    IN {x \in open : (Place(x) + n - Start) % n < PageLimit}

Page == IF kind = "record" THEN ByIndex ELSE ById

Last(page) == CHOOSE x \in page : \A y \in page : y <= x

NextCursorStuck ==
    IF kind = "record" THEN IF open = {} THEN cursor ELSE (Start + Cardinality(Page)) % Cardinality(open)
    ELSE IF Page = {} THEN cursor ELSE Last(Page)

\* An empty journal leaves its cursor alone.
NextCursor ==
    CASE kind # "record" -> IF Page = {} THEN 0 ELSE Last(Page)
      [] open = {}       -> cursor
      [] OTHER           -> (Start + Cardinality(Page)) % Cardinality(open)

-----------------------------------------------------------------------------
(* The passes *)

Following == stage = StageOf[kind]

NextStage == [inventory |-> "accounts", accounts |-> "roles", roles |-> "pools", pools |-> "wait"]

CursorOfThePass == IF kind \in {"record", "row"} THEN 0 ELSE cursor

CursorOfTheSession == IF live THEN cursor ELSE 0

\* A session that is opened again comes with a new journal and pool manager.
ResumedCursor == IF ~live /\ kind \in {"record", "row"} THEN 0 ELSE cursor

Begin ==
    /\ stage = "wait"
    /\ stage' = "inventory" /\ live' = TRUE /\ visited' = {}
    /\ cursor' = ResumedCursor
    /\ UNCHANGED <<list, restarts>>

PassOver ==
    /\ stage # "wait" /\ ~Following
    /\ stage' = NextStage[stage]
    /\ UNCHANGED <<list, cursor, live, visited, restarts>>

\* An account that was claimed in this pass is looked at too.
Claimed(extra) ==
    extra \subseteq open /\ Cardinality(extra) <= (IF kind = "account" THEN 1 ELSE 0)

\* What one item raises is reported, and the rest of the page goes on.
Visit ==
    /\ Following
    /\ stage' = NextStage[stage] /\ cursor' = NextCursor
    /\ \E extra \in SUBSET open : Claimed(extra) /\ visited' = Page \cup extra
    /\ UNCHANGED <<list, live, restarts>>

\* The index, the node, the keyring or the session fails.
Fail ==
    /\ stage # "wait"
    /\ stage' = "wait" /\ live' = FALSE
    /\ UNCHANGED <<list, cursor, visited, restarts>>

\* The same in the middle of a page, whose cursor has moved on already.
FailInPage ==
    /\ Following
    /\ stage' = "wait" /\ live' = FALSE /\ cursor' = NextCursor
    /\ \E some \in SUBSET Page : visited' = some
    /\ UNCHANGED <<list, restarts>>

\* A stop signal or a killed process, and the start of the next one.
Restart ==
    /\ restarts < MaxRestarts /\ restarts' = restarts + 1
    /\ stage' = "wait" /\ live' = FALSE /\ cursor' = 0 /\ visited' = {}
    /\ UNCHANGED list

Pass == Begin \/ PassOver \/ Visit \/ Fail \/ FailInPage

Next ==
    \/ Enter \/ Pass \/ Restart
    \/ \E x \in Items : Leave(x)

Spec == Init /\ [][Next]_vars

-----------------------------------------------------------------------------
(* Progress of a single page *)

\* How far the cursor has to go until it has passed x, round the end of the
\* list when it has passed x already.
Distance(x) == IF cursor < x THEN x - cursor ELSE 2 * MaxItems + 1 - cursor

\* A page by id has an open item on it or brings the cursor closer to it,
\* whatever enters or leaves between two pages, and when the pass then fails
\* too; the cursors of the accounts and of the roles are not taken back by the
\* end of a session (runtime.py:64-65, 83-84, 97-98).
PagesComeCloser ==
    [][/\ Visit \/ FailInPage =>
            \A x \in open : kind = "record" \/ x \in Page \/ Distance(x)' < Distance(x)
       /\ kind \in {"account", "role"} /\ restarts' = restarts =>
            \A x \in open : (Following /\ x \in Page) \/ Distance(x)' <= Distance(x)]_vars

-----------------------------------------------------------------------------
(* Liveness.  The thread goes on until it is stopped, and no stage fails   *)
(* each time it is tried: neither the ones that come before the list, nor  *)
(* the query of its page, nor the visit of a page with x on it.            *)

Fairness ==
    /\ WF_vars(Pass)
    /\ \A s \in Stages : SF_vars(stage = s /\ PassOver)
    /\ SF_vars(Visit \/ FailInPage)
    /\ \A x \in Items : SF_vars(x \in Page /\ Visit)

LiveSpec == Spec /\ Fairness

\* A key request or an onboarding request that stays open is looked at again
\* and again, even when every pass fails at some stage (runtime.py:64-65, 83-84,
\* 97-98).
RequestsAreVisited ==
    kind \in {"account", "role"} => \A x \in Items : []<>(x \in visited \/ x \notin open)

\* A journal record or a queued row has its turn once the passes succeed: their
\* cursors do not outlive the session (durable.py:140-142; pools.py:41-42).
RowsAreVisited ==
    <>[]live => \A x \in Items : []<>(x \in visited \/ x \notin open)
==============================================================================
