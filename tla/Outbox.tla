------------------------------- MODULE Outbox --------------------------------
(***************************************************************************)
(* The journal on the key volume (durable.py, class Journal).  Records are *)
(* files named by hash; writes are fsynced and renamed into place, so a    *)
(* record is there whole or not at all.  The flock "outbox" makes each     *)
(* operation atomic to the other processes, but not to a crash.            *)
(***************************************************************************)
EXTENDS SignerSql, FiniteSets

CONSTANT PageLimit   \* how many records one pass looks at

ASSUME PageAssumption == PageLimit \in Nat \ {0}

VARIABLES
    pending,     \* hashes with a file in outbox/pending
    completed    \* outcome of the hashes with a file in outbox/completed

outboxVars == <<pending, completed>>

\* What finish accepts as definitive: a block result, a refused CheckTx, an
\* unsent cancellation.  An admission is none of them.
Outcomes == {"committed", "rejected", "cancelled"}

OutboxTypeOK ==
    /\ pending \subseteq Hashes
    /\ completed \in [Hashes -> Outcomes \cup {"none"}]

OutboxInit ==
    /\ pending = {}
    /\ completed = [h \in Hashes |-> "none"]

-----------------------------------------------------------------------------
BeginWithoutMarker(h) == completed[h] = "none" /\ UNCHANGED outboxVars

\* Marking twice is allowed: the identity is the same, nothing is written.
JournalBegin(h) ==
    /\ completed[h] = "none"
    /\ pending' = pending \cup {h}
    /\ UNCHANGED completed

JournalFinish(h, outcome) ==
    IF h \in pending
    THEN /\ completed' = [completed EXCEPT ![h] = outcome]
         /\ pending' = pending \ {h}
    ELSE UNCHANGED outboxVars

UnlinkFirst(h, outcome) ==
    /\ h \in pending
    /\ pending' = pending \ {h}
    /\ UNCHANGED completed

\* The crash between writing the completed file and unlinking the pending one.
JournalHalfFinish(h, outcome) ==
    /\ h \in pending
    /\ completed' = [completed EXCEPT ![h] = outcome]
    /\ UNCHANGED pending

\* Records without a completion; the files of the others are unlinked.
Unresolved == {h \in pending : completed[h] = "none"}

SweepNothing == UNCHANGED outboxVars
Sweep == pending' = Unresolved /\ UNCHANGED completed

\* One pass looks at PageLimit records, from a cursor that walks the sorted
\* file names: any page of that size, abstracting from the cursor.
Pages(records) ==
    IF Cardinality(records) <= PageLimit
    THEN {records}
    ELSE {page \in SUBSET records : Cardinality(page) = PageLimit}
==============================================================================
