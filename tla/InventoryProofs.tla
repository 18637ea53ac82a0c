--------------------------- MODULE InventoryProofs ---------------------------
(***************************************************************************)
(* What an inventory run holds when it began with a page that shows the    *)
(* whole pending journal, for any number of keys, rows, signatures,        *)
(* workers, overlapping runs and losses.                                   *)
(***************************************************************************)
EXTENDS SendProofs

USE DEF Outcomes, Undecided, Fates, Goto, Return,
        chainVars, sqlVars, outboxVars, workerVars, inventoryVars

\* The pending journal fits in one page.
OnePage == Cardinality(Unresolved) <= PageLimit

\* Every run that begins finds one page of records.
RunsBeginWithOnePage == [][\A i \in Sessions : StartInventory(i) => OnePage]_vars

NoRun == \A i \in Sessions : stage[i] = "idle"

\* What a run holds was signed; what it has looked at and still holds is unknown
\* to SQL; and it has looked at everything when it turns to the keys.
HeldInv ==
  \A i \in Sessions : stage[i] # "idle" =>
    /\ \A h \in held[i] : signer[h] # None
    /\ \A h \in held[i] \ batch[i], t \in Txs : submission[t] # h
    /\ stage[i] = "keys" => batch[i] = {}

-----------------------------------------------------------------------------
\* Rows get and lose their bytes only by a signature and with the database.
LEMMA SubmissionFrame ==
  ASSUME [Next]_vars
  PROVE  \/ UNCHANGED <<signer, submission>>
         \/ \E w \in Workers, h \in Hashes : Prepare(w, h)
         \/ LoseDatabase
<1>1. ASSUME NEW w \in Workers, WorkerStep(w)
      PROVE  UNCHANGED <<signer, submission>> \/ \E h \in Hashes : Prepare(w, h)
  BY <1>1, WorkerFrame DEF Abort, AbortUnsent, Close, Mark, Begin, BeginSubmission, MoveTo,
     Broadcast, Transmit, RecordUnknown, MarkUnknown, RecordAnswer, Recover, Observe, Accept,
     Commit, Reject, FinishMarker, CrashInFinish
<1>2. ASSUME NEW i \in Sessions, InventoryStep(i) PROVE UNCHANGED <<signer, submission>>
  BY <1>2, InventoryFrame
<1>3. CASE Queue
  BY <1>3 DEF Queue, Enqueue, Claim
<1>4. CASE Node /\ UNCHANGED sqlVars
  BY <1>4 DEF Node, Admit, Refuse, Include
<1>5. CASE UNCHANGED vars
  BY <1>5 DEF vars
<1> QED BY <1>1, <1>2, <1>3, <1>4, <1>5 DEF Next

\* A step of an inventory run.
LEMMA RunKeepsHeld ==
  ASSUME IInv, HeldInv, NEW i \in Sessions, InventoryStep(i), StartInventory(i) => OnePage
  PROVE  HeldInv'
<1>0. /\ stage \in [Sessions -> {"idle", "records", "keys"}]
      /\ batch \in [Sessions -> SUBSET Hashes] /\ held \in [Sessions -> SUBSET Hashes]
      /\ UNCHANGED <<signer, submission>>
  BY InventoryFrame DEF IInv, TypeOK, InventoryTypeOK
<1>1. CASE StartInventory(i)
  <2>1. held' = [held EXCEPT ![i] = Unresolved] /\ batch' = [batch EXCEPT ![i] = Unresolved]
        /\ stage' = [stage EXCEPT ![i] = "records"]
    BY <1>1 DEF StartInventory, OnePage, Pages
  <2>2. \A h \in Unresolved : signer[h] # None
    BY DEF IInv, FreshInv, TypeOK, OutboxTypeOK, Unresolved
  <2> QED BY <1>0, <2>1, <2>2 DEF HeldInv
<1>2. CASE End(i)
  BY <1>0, <1>2 DEF End, HeldInv
<1>3. CASE EndRecords(i)
  BY <1>0, <1>3 DEF EndRecords, HeldInv
<1>4. ASSUME NEW h \in Hashes, Looked(i, h), Release(i, h) PROVE HeldInv'
  BY <1>0, <1>4 DEF Looked, Release, HeldInv
<1>5. ASSUME NEW h \in Hashes, HoldOrphan(i, h) PROVE HeldInv'
  <2>1. \A t \in Txs : submission[t] # h
    BY <1>5, OrphanIsForgotten DEF HoldOrphan, IInv, MatchingSubmission
  <2> QED BY <1>0, <1>5, <2>1 DEF HoldOrphan, Looked, HeldInv
<1>6. ASSUME NEW a \in Keys, Checked(i, a) PROVE HeldInv'
  BY <1>0, <1>6 DEF Checked, HeldInv
<1> QED BY <1>1, <1>2, <1>3, <1>4, <1>5, <1>6
        DEF InventoryStep, EndInventory, StopInventory, ResolveRecord, SkipReserved,
            CrashInResolve, ReconcileKey, InvalidateKey

\* A step of anybody else: no row gets bytes that a run holds.
LEMMA OthersKeepHeld ==
  ASSUME IInv, HeldInv, [Next]_vars, UNCHANGED inventoryVars
  PROVE  HeldInv'
<1>0. held \in [Sessions -> SUBSET Hashes] /\ signer \in [Hashes -> Keys \cup {None}]
      /\ submission \in [Txs -> Hashes \cup {None}]
  BY DEF IInv, TypeOK, InventoryTypeOK, ChainTypeOK, SqlTypeOK
<1>1. CASE UNCHANGED <<signer, submission>>
  BY <1>1 DEF HeldInv
<1>2. ASSUME NEW w \in Workers, NEW h \in Hashes, Prepare(w, h) PROVE HeldInv'
  <2>1. signer[h] = None /\ signer' = [signer EXCEPT ![h] = account[job[w]]]
        /\ submission' = [submission EXCEPT ![job[w]] = h]
    BY <1>2 DEF Prepare, Sign, SaveSigned
  <2>2. ASSUME NEW i \in Sessions, stage[i] # "idle", NEW g \in held[i]
        PROVE  g # h /\ signer'[g] = signer[g]
    <3>1. g \in Hashes /\ signer[g] # None
      BY <1>0, <2>2 DEF HeldInv
    <3> QED BY <1>0, <2>1, <3>1
  <2>3. \A t \in Txs : submission'[t] \in {submission[t], h}
    BY <1>0, <2>1
  <2> QED BY <2>2, <2>3 DEF HeldInv
<1>3. CASE LoseDatabase
  BY <1>3 DEF LoseDatabase, EndAll, HeldInv
<1> QED BY <1>1, <1>2, <1>3, SubmissionFrame

-----------------------------------------------------------------------------
(* The theorem *)

\* From any moment at which no run is under way, for as long as every run that
\* begins finds at most one page of unresolved records, no run reports a key as
\* held because of an identity that SQL reserves (durable.py:141, 157-159),
\* whatever workers, other runs and losses of the database come between its two
\* loops, and however many records there were before or were ever completed.
THEOREM OnePageReleasesReserved ==
  Spec => [](NoRun /\ RunsBeginWithOnePage => []BusyKeyIsNotHeld)
<1>1. NoRun => HeldInv
  BY DEF NoRun, HeldInv
<1>2. IInv /\ HeldInv /\ [Next]_vars /\ [\A i \in Sessions : StartInventory(i) => OnePage]_vars
      => HeldInv'
  <2> SUFFICES ASSUME IInv, HeldInv, [Next]_vars,
                      [\A i \in Sessions : StartInventory(i) => OnePage]_vars
               PROVE  HeldInv'
    OBVIOUS
  <2>1. CASE UNCHANGED inventoryVars
    BY <2>1, OthersKeepHeld
  <2>2. ASSUME NEW i \in Sessions, InventoryStep(i), ~UNCHANGED inventoryVars PROVE HeldInv'
    BY <2>2, RunKeepsHeld DEF vars
  <2>3. CASE LoseDatabase
    BY <2>3 DEF LoseDatabase, EndAll, HeldInv
  <2> QED BY <2>1, <2>2, <2>3 DEF Next, Queue, vars
<1>3. HeldInv => BusyKeyIsNotHeld
  BY DEF HeldInv, BusyKeyIsNotHeld, MatchingSubmission
<1> QED BY <1>1, <1>2, <1>3, Invariance, PTL DEF Spec, RunsBeginWithOnePage
==============================================================================
