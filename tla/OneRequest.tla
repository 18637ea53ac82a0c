----------------------------- MODULE OneRequest ------------------------------
(***************************************************************************)
(* What the makers of requests promise, without runs, files or commands: a *)
(* role waits for one answer at a time, SQL is only asked for what waits   *)
(* for an answer, under an id that is never drawn again, and an operator's *)
(* id stands for one request in every database.                            *)
(***************************************************************************)
EXTENDS Naturals

CONSTANTS
    Roles,
    Questions,     \* what a role may ask for: an id and the work it is for
    Uuids, Arguments,
    None

VARIABLES
    hand,       \* the question of a role that waits for its answer
    drawn,      \* how many ids were drawn
    proven,     \* works that passed their simulation
    recorded,   \* SQL: requests of roles
    purpose,    \* what an operator's id stands for
    served      \* SQL: operators' requests

vars == <<hand, drawn, proven, recorded, purpose, served>>

Init ==
    /\ hand = [r \in Roles |-> None] /\ drawn = 0 /\ proven = {} /\ recorded = {}
    /\ purpose = [u \in Uuids |-> None] /\ served = [u \in Uuids |-> None]

\* The next question of a role, for a work that is simulated first.
Draw(r, q) ==
    /\ hand[r] = None
    /\ q.id = drawn + 1 /\ drawn' = q.id
    /\ hand' = [hand EXCEPT ![r] = q]
    /\ proven' = proven \cup {q.work}
    /\ UNCHANGED <<recorded, purpose, served>>

\* Once in a database.
Record(r) ==
    /\ hand[r] # None
    /\ \A a \in recorded : a.id # hand[r].id
    /\ recorded' = recorded \cup {[id |-> hand[r].id, role |-> r, work |-> hand[r].work]}
    /\ UNCHANGED <<hand, drawn, proven, purpose, served>>

Answer(r) ==
    /\ hand[r] # None
    /\ hand' = [hand EXCEPT ![r] = None]
    /\ UNCHANGED <<drawn, proven, recorded, purpose, served>>

Name(u, x) ==
    /\ purpose[u] = None
    /\ purpose' = [purpose EXCEPT ![u] = x]
    /\ UNCHANGED <<hand, drawn, proven, recorded, served>>

Serve(u) ==
    /\ purpose[u] # None /\ served[u] = None
    /\ served' = [served EXCEPT ![u] = purpose[u]]
    /\ UNCHANGED <<hand, drawn, proven, recorded, purpose>>

\* The database is lost, with every request it has.
Forget ==
    /\ recorded' = {} /\ served' = [u \in Uuids |-> None]
    /\ UNCHANGED <<hand, drawn, proven, purpose>>

Next ==
    \/ Forget
    \/ \E r \in Roles : Record(r) \/ Answer(r) \/ \E q \in Questions : Draw(r, q)
    \/ \E u \in Uuids : Serve(u) \/ \E x \in Arguments : Name(u, x)

Spec == Init /\ [][Next]_vars
==============================================================================
