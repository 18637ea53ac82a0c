------------------------------ MODULE Inventory ------------------------------
(***************************************************************************)
(* Key reconciliation: Inventory.run with Journal.observe.  The supervisor *)
(* runs it in its maintenance thread and an operator may run it beside it  *)
(* (python -m tsa reconcile), each with a session of its own.              *)
(***************************************************************************)
EXTENDS Worker

CONSTANT Sessions   \* the runs that may overlap

VARIABLES
    stage,       \* "idle", "records" (in Journal.observe) or "keys"
    batch,       \* records of the page still to be looked at
    held,        \* records that hold their key
    unchecked    \* keys still to be reconciled

inventoryVars == <<stage, batch, held, unchecked>>

InventoryTypeOK ==
    /\ stage \in [Sessions -> {"idle", "records", "keys"}]
    /\ batch \in [Sessions -> SUBSET Hashes]
    /\ held \in [Sessions -> SUBSET Hashes]
    /\ unchecked \in [Sessions -> SUBSET Keys]

InventoryInit ==
    /\ stage = [i \in Sessions |-> "idle"]
    /\ batch = [i \in Sessions |-> {}]
    /\ held = [i \in Sessions |-> {}]
    /\ unchecked = [i \in Sessions |-> {}]

EndAll ==
    /\ stage' = [i \in Sessions |-> "idle"]
    /\ batch' = [i \in Sessions |-> {}]
    /\ held' = [i \in Sessions |-> {}]
    /\ unchecked' = [i \in Sessions |-> {}]

\* journal.observe returns addresses: one record is enough to hold a key.
HeldKeys(i) == {signer[h] : h \in held[i]}

End(i) ==
    /\ stage' = [stage EXCEPT ![i] = "idle"]
    /\ batch' = [batch EXCEPT ![i] = {}]
    /\ held' = [held EXCEPT ![i] = {}]
    /\ unchecked' = [unchecked EXCEPT ![i] = {}]

-----------------------------------------------------------------------------
StartInventory(i) ==
    /\ stage[i] = "idle"
    /\ SyncKeys /\ Sweep
    /\ stage' = [stage EXCEPT ![i] = "records"]
    /\ held' = [held EXCEPT ![i] = Unresolved]
    /\ \E page \in Pages(Unresolved) : batch' = [batch EXCEPT ![i] = page]
    /\ UNCHANGED <<chainVars, workerVars, unchecked>>

Looked(i, h) ==
    /\ stage[i] = "records" /\ h \in batch[i]
    /\ batch' = [batch EXCEPT ![i] = @ \ {h}]
    /\ UNCHANGED <<chainVars, sqlVars, workerVars, stage, unchecked>>

Release(i, h) == held' = [held EXCEPT ![i] = @ \ {h}]

\* SQL neither knows the outcome of these exact bytes nor reserves a key for
\* them, as after the loss of the database.
Orphan(h) == \A t \in MatchingSubmission(h) : ~Reserved(t) /\ state[t] \notin Outcomes

DecidedBySqlOnly(h, outcome) ==
    \E t \in MatchingSubmission(h) : state[t] = outcome

DecidedByAdmission(h, outcome) ==
    \/ \E t \in MatchingSubmission(h) : state[t] = outcome
    \/ Orphan(h) /\ Admitted(h) /\ outcome = "committed"

\* SQL's word comes first; for an orphan only a block decides.
Decided(h, outcome) ==
    \/ \E t \in MatchingSubmission(h) : state[t] = outcome
    \/ Orphan(h) /\ Included(h) /\ outcome = "committed"

ResolveRecord(i, h) ==
    /\ Looked(i, h)
    /\ \E outcome \in Outcomes : Decided(h, outcome) /\ JournalFinish(h, outcome)
    /\ Release(i, h)

KeepReserved(i, h) ==
    /\ Looked(i, h)
    /\ \E t \in MatchingSubmission(h) : Reserved(t)
    /\ UNCHANGED <<outboxVars, held>>

\* SQL still owns the identity, and with it the account.
SkipReserved(i, h) ==
    /\ Looked(i, h)
    /\ \E t \in MatchingSubmission(h) : Reserved(t)
    /\ Release(i, h)
    /\ UNCHANGED outboxVars

ReleaseOrphan(i, h) ==
    /\ Looked(i, h)
    /\ Orphan(h)
    /\ Release(i, h)
    /\ UNCHANGED outboxVars

\* No evidence for an orphan, or none that can be had now.
HoldOrphan(i, h) ==
    /\ Looked(i, h)
    /\ Orphan(h)
    /\ UNCHANGED <<outboxVars, held>>

CrashInResolve(i, h) ==
    /\ stage[i] = "records" /\ h \in batch[i]
    /\ \E outcome \in Outcomes : Decided(h, outcome) /\ JournalHalfFinish(h, outcome)
    /\ End(i)
    /\ UNCHANGED <<chainVars, sqlVars, workerVars>>

EndRecords(i) ==
    /\ stage[i] = "records" /\ batch[i] = {}
    /\ stage' = [stage EXCEPT ![i] = "keys"]
    /\ unchecked' = [unchecked EXCEPT ![i] = Keys]
    /\ UNCHANGED <<chainVars, sqlVars, outboxVars, workerVars, batch, held>>

-----------------------------------------------------------------------------
Checked(i, a) ==
    /\ stage[i] = "keys" /\ a \in unchecked[i]
    /\ unchecked' = [unchecked EXCEPT ![i] = @ \ {a}]
    /\ UNCHANGED <<chainVars, outboxVars, workerVars, stage, batch, held>>

ReconcileKey(i, a) ==
    /\ Checked(i, a)
    /\ SetKey(a, IF a \in HeldKeys(i) THEN "held" ELSE "ready")

\* The index, the node or the ownership of the key could not be verified.
InvalidateKey(i, a) == Checked(i, a) /\ SetKey(a, "unverified")

EndInventory(i) ==
    /\ stage[i] = "keys" /\ unchecked[i] = {}
    /\ End(i)
    /\ UNCHANGED <<chainVars, sqlVars, outboxVars, workerVars>>

\* The index is not ready, the worker is stopping, a call failed.
StopInventory(i) ==
    /\ stage[i] # "idle"
    /\ End(i)
    /\ UNCHANGED <<chainVars, sqlVars, outboxVars, workerVars>>

InventoryStep(i) ==
    \/ StartInventory(i) \/ EndRecords(i) \/ EndInventory(i) \/ StopInventory(i)
    \/ \E h \in Hashes :
         ResolveRecord(i, h) \/ SkipReserved(i, h) \/ HoldOrphan(i, h) \/ CrashInResolve(i, h)
    \/ \E a \in Keys : ReconcileKey(i, a) \/ InvalidateKey(i, a)
==============================================================================
