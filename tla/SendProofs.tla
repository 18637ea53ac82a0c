----------------------------- MODULE SendProofs ------------------------------
(***************************************************************************)
(* Safety of the send path for any number of bytes, keys, rows, workers,   *)
(* inventory runs and database losses: IInv is inductive and implies the   *)
(* properties of SendProtocol.  One lemma per conjunct of IInv, one step   *)
(* per action that can disturb it.                                         *)
(***************************************************************************)
EXTENDS SendInvariant, TLAPS

USE DEF Outcomes, Undecided, Fates, Goto, Return,
        chainVars, sqlVars, outboxVars, workerVars, inventoryVars

-----------------------------------------------------------------------------
(* Frames: what the steps of one part leave alone in the others.           *)

\* What the steps of a worker leave alone.
LEMMA WorkerFrame ==
  ASSUME NEW w \in Workers, WorkerStep(w)
  PROVE  \/ UNCHANGED <<chainVars, sqlVars, outboxVars>>
         \/ \E h \in Hashes : Prepare(w, h)
         \/ Abort(w) \/ Mark(w) \/ Begin(w) \/ Broadcast(w) \/ RecordUnknown(w)
         \/ RecordAnswer(w) \/ Recover(w) \/ Observe(w) \/ FinishMarker(w) \/ CrashInFinish(w)
  BY DEF WorkerStep, Open, Stop, Disconnect, Preflight, Invalid, Answer, NoAnswer

\* What the steps of an inventory run leave alone.
LEMMA InventoryFrame ==
  ASSUME NEW i \in Sessions, InventoryStep(i)
  PROVE  UNCHANGED <<chainVars, workerVars, row, account, submission, state, losses>>
  BY DEF InventoryStep, StartInventory, SyncKeys, EndRecords, EndInventory, StopInventory,
     ResolveRecord, SkipReserved, HoldOrphan, CrashInResolve, Looked, ReconcileKey,
     InvalidateKey, Checked, SetKey

\* Only signing, sending and the node touch what the chain part describes.
LEMMA ChainFrame ==
  ASSUME [Next]_vars
  PROVE  \/ UNCHANGED chainVars
         \/ \E w \in Workers, h \in Hashes : Prepare(w, h)
         \/ \E w \in Workers : Broadcast(w)
         \/ \E h \in Hashes : Admit(h) \/ Refuse(h) \/ Include(h)
<1>1. CASE \E w \in Workers : WorkerStep(w)
  BY <1>1 DEF WorkerStep, Open, Stop, Disconnect, Preflight, Invalid, Abort, Mark, Begin, Answer,
     NoAnswer, RecordUnknown, RecordAnswer, Recover, Observe, FinishMarker, CrashInFinish
<1>2. CASE \E i \in Sessions : InventoryStep(i)
  BY <1>2, InventoryFrame
<1> QED BY <1>1, <1>2 DEF Next, Queue, Node, LoseDatabase, vars

\* How an inventory run completes a record: on SQL's word, or, if SQL forgot
\* the bytes, on the evidence of a block.
Completion(h, outcome) ==
  /\ h \in pending
  /\ completed' = [completed EXCEPT ![h] = outcome]
  /\ pending' \subseteq pending /\ \A g \in pending : g # h => g \in pending'
  /\ \/ \E t \in Txs : submission[t] = h /\ state[t] = outcome
     \/ (\A t \in Txs : submission[t] # h) /\ Included(h) /\ outcome = "committed"

\* SQL forgot an orphan: a row it knows is reserved or has an outcome.
LEMMA OrphanIsForgotten ==
  ASSUME TypeOK, RowInv, NEW h \in Hashes, Orphan(h)
  PROVE  MatchingSubmission(h) = {}
  BY IdentityAssumption DEF TypeOK, SqlTypeOK, RowInv, Orphan, MatchingSubmission, Reserved

\* An inventory run writes a completion only from SQL's word or from a block.
LEMMA JournalFrame ==
  ASSUME TypeOK, RowInv, NEW i \in Sessions, InventoryStep(i)
  PROVE  \/ UNCHANGED outboxVars
         \/ UNCHANGED completed /\ pending' = Unresolved
         \/ \E h \in Hashes, outcome \in Outcomes : Completion(h, outcome)
<1>1. ASSUME NEW h \in Hashes, NEW outcome \in Outcomes, Decided(h, outcome)
      PROVE  \/ \E t \in Txs : submission[t] = h /\ state[t] = outcome
             \/ (\A t \in Txs : submission[t] # h) /\ Included(h) /\ outcome = "committed"
  BY <1>1, OrphanIsForgotten DEF Decided, MatchingSubmission
<1>2. CASE StartInventory(i)
  BY <1>2 DEF StartInventory, Sweep
<1>3. CASE \E h \in Hashes : ResolveRecord(i, h)
  <2>1. PICK h \in Hashes, outcome \in Outcomes : Decided(h, outcome) /\ JournalFinish(h, outcome)
    BY <1>3 DEF ResolveRecord
  <2> QED BY <1>1, <2>1 DEF JournalFinish, Completion
<1>4. CASE \E h \in Hashes : CrashInResolve(i, h)
  <2>1. PICK h \in Hashes, outcome \in Outcomes : Decided(h, outcome) /\ JournalHalfFinish(h, outcome)
    BY <1>4 DEF CrashInResolve
  <2>2. Completion(h, outcome)
    BY <1>1, <2>1 DEF JournalHalfFinish, Completion
  <2> QED BY <2>2
<1> QED
  BY <1>2, <1>3, <1>4 DEF InventoryStep, EndRecords, EndInventory, StopInventory, SkipReserved,
     HoldOrphan, ReconcileKey, InvalidateKey, Checked

-----------------------------------------------------------------------------
(* The conjuncts of IInv *)


\* Only the SQL functions change a row, and each leaves it well formed.
LEMMA RowStep ==
  ASSUME TypeOK, RowInv, FreshInv, LeaseInv, [Next]_vars
  PROVE  RowInv'
  <1> USE IdentityAssumption DEF RowInv, FreshInv, LeaseInv, RowFits, TypeOK,
     ChainTypeOK, SqlTypeOK, OutboxTypeOK, WorkerTypeOK, InventoryTypeOK
  <1>1. CASE Queue
    BY <1>1 DEF Queue, Enqueue, Claim
  <1>2. ASSUME NEW w \in Workers, WorkerStep(w), UNCHANGED inventoryVars PROVE RowInv'
    <2>1. CASE UNCHANGED <<chainVars, sqlVars, outboxVars>>
      BY <1>2, <2>1
    <2>2. CASE \E h \in Hashes : Prepare(w, h)
      BY <1>2, <2>2 DEF Prepare, Sign, SaveSigned
    <2>3. CASE Abort(w)
      BY <1>2, <2>3 DEF Abort, AbortUnsent, Close
    <2>4. CASE Mark(w)
      BY <1>2, <2>4 DEF Mark, JournalBegin
    <2>5. CASE Begin(w)
      BY <1>2, <2>5 DEF Begin, BeginSubmission, MoveTo
    <2>6. CASE Broadcast(w)
      BY <1>2, <2>6 DEF Broadcast, Transmit
    <2>7. CASE RecordUnknown(w)
      BY <1>2, <2>7 DEF RecordUnknown, MarkUnknown, MoveTo
    <2>8. CASE RecordAnswer(w)
      BY <1>2, <2>8 DEF RecordAnswer, Accept, Reject, MoveTo, Close
    <2>9. CASE Recover(w)
      BY <1>2, <2>9 DEF Recover, MarkUnknown, MoveTo
    <2>10. CASE Observe(w)
      BY <1>2, <2>10 DEF Observe, Included, Commit, MoveTo
    <2>11. CASE FinishMarker(w)
      BY <1>2, <2>11 DEF FinishMarker, JournalFinish
    <2>12. CASE CrashInFinish(w)
      BY <1>2, <2>12 DEF CrashInFinish, JournalHalfFinish
    <2> QED BY <1>2, <2>1, <2>2, <2>3, <2>4, <2>5, <2>6, <2>7, <2>8, <2>9, <2>10, <2>11, <2>12, WorkerFrame
  <1>3. ASSUME NEW i \in Sessions, InventoryStep(i) PROVE RowInv'
    BY <1>3, InventoryFrame
  <1>4. CASE Node /\ UNCHANGED <<sqlVars, outboxVars, workerVars, inventoryVars>>
    BY <1>4 DEF Node, Admit, Refuse, Include, Current
  <1>5. CASE LoseDatabase
    BY <1>5 DEF LoseDatabase, LoseTables, EndAll
  <1>6. CASE UNCHANGED vars
    BY <1>6 DEF vars
  <1> QED BY <1>1, <1>2, <1>3, <1>4, <1>5, <1>6 DEF Next

\* New bytes are new to every row; a claim takes an account nobody reserves.
LEMMA UniqueStep ==
  ASSUME TypeOK, RowInv, UniqueInv, FreshInv, LeaseInv, [Next]_vars
  PROVE  UniqueInv'
  <1> USE IdentityAssumption DEF RowInv, UniqueInv, FreshInv, Reserved, TypeOK,
     ChainTypeOK, SqlTypeOK, OutboxTypeOK, WorkerTypeOK, InventoryTypeOK
  <1>1. CASE Queue
    <2>1. ASSUME NEW t \in Txs, Enqueue(t) PROVE UniqueInv'
      BY <1>1, <2>1 DEF Enqueue
    <2>2. ASSUME NEW t \in Txs, NEW a \in Keys, Claim(t, a) PROVE UniqueInv'
      <3>1. \A s \in Txs : account[s] = a => ~Reserved(s)
        BY <2>2 DEF Claim, Busy
      <3>2. \A s \in Txs : s # t => (Reserved(s)' <=> Reserved(s)) /\ account'[s] = account[s]
        BY <2>2 DEF Claim
      <3>3. account'[t] = a
        BY <2>2 DEF Claim
      <3> QED BY <2>2, <3>1, <3>2, <3>3 DEF Claim
    <2> QED BY <1>1, <2>1, <2>2 DEF Queue
  <1>2. ASSUME NEW w \in Workers, WorkerStep(w), UNCHANGED inventoryVars PROVE UniqueInv'
    <2>1. CASE UNCHANGED <<chainVars, sqlVars, outboxVars>>
      BY <1>2, <2>1
    <2>2. CASE \E h \in Hashes : Prepare(w, h)
      BY <1>2, <2>2 DEF Prepare, Sign, SaveSigned
    <2>3. CASE Abort(w)
      BY <1>2, <2>3 DEF Abort, AbortUnsent, Close
    <2>4. CASE Mark(w)
      BY <1>2, <2>4 DEF Mark, JournalBegin
    <2>5. CASE Begin(w)
      BY <1>2, <2>5 DEF Begin, BeginSubmission, MoveTo
    <2>6. CASE Broadcast(w)
      BY <1>2, <2>6 DEF Broadcast, Transmit
    <2>7. CASE RecordUnknown(w)
      BY <1>2, <2>7 DEF RecordUnknown, MarkUnknown, MoveTo
    <2>8. CASE RecordAnswer(w)
      BY <1>2, <2>8, SMTT(20) DEF RecordAnswer, Accept, Reject, MoveTo, Close
    <2>9. CASE Recover(w)
      BY <1>2, <2>9 DEF Recover, MarkUnknown, MoveTo
    <2>10. CASE Observe(w)
      BY <1>2, <2>10 DEF Observe, Included, Commit, MoveTo
    <2>11. CASE FinishMarker(w)
      BY <1>2, <2>11 DEF FinishMarker, JournalFinish
    <2>12. CASE CrashInFinish(w)
      BY <1>2, <2>12 DEF CrashInFinish, JournalHalfFinish
    <2> QED BY <1>2, <2>1, <2>2, <2>3, <2>4, <2>5, <2>6, <2>7, <2>8, <2>9, <2>10, <2>11, <2>12, WorkerFrame
  <1>3. ASSUME NEW i \in Sessions, InventoryStep(i) PROVE UniqueInv'
    BY <1>3, InventoryFrame
  <1>4. CASE Node /\ UNCHANGED <<sqlVars, outboxVars, workerVars, inventoryVars>>
    BY <1>4 DEF Node, Admit, Refuse, Include, Current
  <1>5. CASE LoseDatabase
    BY <1>5 DEF LoseDatabase, LoseTables, EndAll
  <1>6. CASE UNCHANGED vars
    BY <1>6 DEF vars
  <1> QED BY <1>1, <1>2, <1>3, <1>4, <1>5, <1>6 DEF Next

\* Bytes are signed before anything refers to them.
LEMMA FreshStep ==
  ASSUME TypeOK, RowInv, FreshInv, LeaseInv, [Next]_vars
  PROVE  FreshInv'
  <1> USE IdentityAssumption DEF FreshInv, TypeOK, ChainTypeOK, SqlTypeOK,
     OutboxTypeOK, WorkerTypeOK, InventoryTypeOK
  <1>1. CASE Queue
    BY <1>1 DEF Queue, Enqueue, Claim
  <1>2. ASSUME NEW w \in Workers, WorkerStep(w), UNCHANGED inventoryVars PROVE FreshInv'
    <2>1. CASE \E t \in Txs : Open(w, t)
      BY <1>2, <2>1 DEF Open, Resume, Recoverable, Leased, Holding
    <2>2. CASE \E h \in Hashes : Prepare(w, h)
      <3>0. PICK h \in Hashes : Prepare(w, h)
        BY <2>2
      <3>1. job[w] \in Txs /\ account[job[w]] \in Keys
        BY <3>0 DEF LeaseInv, RowInv, Prepare, SaveSigned
      <3>2. signer'[h] # None /\ \A g \in Hashes : g # h => signer'[g] = signer[g]
        BY <3>0, <3>1 DEF Prepare, Sign
      <3>3. \A t \in Txs : submission'[t] \in {submission[t], h}
        BY <3>0 DEF Prepare, SaveSigned
      <3>4. \A v \in Workers : saved'[v] \in {saved[v], h}
        BY <3>0 DEF Prepare
      <3> QED BY <3>0, <3>2, <3>3, <3>4 DEF Prepare, Sign
    <2>3. CASE Stop(w)
      BY <1>2, <2>3 DEF Stop
    <2>4. CASE Disconnect(w)
      BY <1>2, <2>4 DEF Disconnect
    <2>5. CASE Preflight(w)
      BY <1>2, <2>5 DEF Preflight
    <2>6. CASE Invalid(w)
      BY <1>2, <2>6 DEF Invalid
    <2>7. CASE Abort(w)
      BY <1>2, <2>7 DEF Abort, AbortUnsent, Close
    <2>8. CASE Mark(w)
      BY <1>2, <2>8 DEF Mark, JournalBegin
    <2>9. CASE Begin(w)
      BY <1>2, <2>9 DEF Begin, BeginSubmission, MoveTo
    <2>10. CASE Broadcast(w)
      BY <1>2, <2>10 DEF Broadcast, Transmit, LeaseInv
    <2>11. CASE Answer(w)
      BY <1>2, <2>11 DEF Answer, Admitted
    <2>12. CASE NoAnswer(w)
      BY <1>2, <2>12 DEF NoAnswer
    <2>13. CASE RecordUnknown(w)
      BY <1>2, <2>13 DEF RecordUnknown, MarkUnknown, MoveTo
    <2>14. CASE RecordAnswer(w)
      BY <1>2, <2>14 DEF RecordAnswer, Accept, Reject, MoveTo, Close
    <2>15. CASE Recover(w)
      BY <1>2, <2>15 DEF Recover, MarkUnknown, MoveTo
    <2>16. CASE Observe(w)
      BY <1>2, <2>16 DEF Observe, Included, Commit, MoveTo
    <2>17. CASE FinishMarker(w)
      BY <1>2, <2>17 DEF FinishMarker, JournalFinish
    <2>18. CASE CrashInFinish(w)
      BY <1>2, <2>18 DEF CrashInFinish, JournalHalfFinish
    <2> QED BY <1>2, <2>1, <2>2, <2>3, <2>4, <2>5, <2>6, <2>7, <2>8, <2>9, <2>10, <2>11, <2>12, <2>13, <2>14, <2>15, <2>16, <2>17, <2>18 DEF WorkerStep
  <1>3. ASSUME NEW i \in Sessions, InventoryStep(i) PROVE FreshInv'
    <2>1. CASE StartInventory(i)
      BY <2>1 DEF StartInventory, SyncKeys, Sweep, Unresolved
    <2>2. CASE EndRecords(i)
      BY <2>2 DEF EndRecords
    <2>3. CASE EndInventory(i)
      BY <2>3 DEF EndInventory, End
    <2>4. CASE StopInventory(i)
      BY <2>4 DEF StopInventory, End
    <2>5. CASE \E h \in Hashes : ResolveRecord(i, h)
      BY <2>5 DEF ResolveRecord, Looked, Decided, Orphan, Included, JournalFinish,
         Release
    <2>6. CASE \E h \in Hashes : SkipReserved(i, h)
      BY <2>6 DEF SkipReserved, Looked, Release
    <2>7. CASE \E h \in Hashes : HoldOrphan(i, h)
      BY <2>7 DEF HoldOrphan, Looked
    <2>8. CASE \E h \in Hashes : CrashInResolve(i, h)
      BY <2>8 DEF CrashInResolve, Decided, Orphan, Included, JournalHalfFinish, End
    <2>9. CASE \E a \in Keys : ReconcileKey(i, a)
      BY <2>9 DEF ReconcileKey, Checked, SetKey, HeldKeys
    <2>10. CASE \E a \in Keys : InvalidateKey(i, a)
      BY <2>10 DEF InvalidateKey, Checked, SetKey
    <2> QED BY <1>3, <2>1, <2>2, <2>3, <2>4, <2>5, <2>6, <2>7, <2>8, <2>9, <2>10 DEF InventoryStep
  <1>4. CASE Node /\ UNCHANGED <<sqlVars, outboxVars, workerVars, inventoryVars>>
    BY <1>4 DEF Node, Admit, Refuse, Include, Current
  <1>5. CASE LoseDatabase
    BY <1>5 DEF LoseDatabase, LoseTables, EndAll
  <1>6. CASE UNCHANGED vars
    BY <1>6 DEF vars
  <1> QED BY <1>1, <1>2, <1>3, <1>4, <1>5, <1>6 DEF Next

\* Bytes are sent from a permit, and a permit is for unsent bytes.
LEMMA SendsStep ==
  ASSUME TypeOK, SendsInv, PermitInv, [Next]_vars
  PROVE  SendsInv'
<1> USE DEF TypeOK, ChainTypeOK, SendsInv
<1>1. CASE UNCHANGED chainVars
  BY <1>1
<1>2. ASSUME NEW w \in Workers, NEW h \in Hashes, Prepare(w, h) PROVE SendsInv'
  BY <1>2 DEF Prepare, Sign
<1>3. ASSUME NEW w \in Workers, Broadcast(w) PROVE SendsInv'
  <2>1. sends[saved[w]] = 0
    BY <1>3 DEF Broadcast, PermitInv
  <2> QED BY <1>3, <2>1 DEF Broadcast, Transmit
<1>4. ASSUME NEW h \in Hashes, Admit(h) \/ Refuse(h) \/ Include(h) PROVE SendsInv'
  BY <1>4 DEF Admit, Refuse, Include
<1> QED BY <1>1, <1>2, <1>3, <1>4, ChainFrame

\* While a worker has its lease, nobody else moves its row.
LEMMA LeaseStep ==
  ASSUME TypeOK, RowInv, UniqueInv, FreshInv, LeaseInv, [Next]_vars
  PROVE  LeaseInv'
  <1> USE IdentityAssumption DEF RowInv, LeaseInv, RowFits, TypeOK, ChainTypeOK,
     SqlTypeOK, OutboxTypeOK, WorkerTypeOK, InventoryTypeOK
  <1>1. CASE Queue
    BY <1>1 DEF Queue, Enqueue, Claim
  <1>2. ASSUME NEW w \in Workers, WorkerStep(w), UNCHANGED inventoryVars PROVE LeaseInv'
    <2>1. CASE \E t \in Txs : Open(w, t)
      BY <1>2, <2>1 DEF Open, Resume, Recoverable, Leased, Holding
    <2>2. CASE \E h \in Hashes : Prepare(w, h)
      BY <1>2, <2>2 DEF Prepare, Sign, SaveSigned
    <2>3. CASE Stop(w)
      BY <1>2, <2>3 DEF Stop
    <2>4. CASE Disconnect(w)
      BY <1>2, <2>4 DEF Disconnect
    <2>5. CASE Preflight(w)
      BY <1>2, <2>5 DEF Preflight
    <2>6. CASE Invalid(w)
      BY <1>2, <2>6 DEF Invalid
    <2>7. CASE Abort(w)
      <3>1. CASE saved[w] = None
        <4>1. submission[job[w]] = None /\ state[job[w]] = "none"
          BY <1>2, <2>7, <3>1 DEF Abort
        <4>2. /\ UNCHANGED submission
              /\ \A t \in Txs : t # job[w] => state'[t] = state[t] /\ row'[t] = row[t]
          BY <1>2, <2>7, <3>1 DEF Abort, AbortUnsent, Close
        <4>3. \A v \in Workers : v # w =>
                pc'[v] = pc[v] /\ job'[v] = job[v] /\ saved'[v] = saved[v] /\ live'[v] = live[v]
          BY <2>7, <3>1 DEF Abort
        <4>4. /\ pc'[w] = "idle" /\ ~live'[w] /\ live[w]
              /\ \A v \in Workers : live'[v] => v # w /\ job[v] # job[w]
          BY <2>7, <3>1, <4>3 DEF Abort
        <4> QED BY <4>2, <4>3, <4>4
      <3>2. CASE saved[w] # None
        BY <1>2, <2>7, <3>2, SMTT(20) DEF Abort, AbortUnsent, Close
      <3> QED BY <3>1, <3>2
    <2>8. CASE Mark(w)
      BY <1>2, <2>8 DEF Mark, JournalBegin
    <2>9. CASE Begin(w)
      BY <1>2, <2>9 DEF Begin, BeginSubmission, MoveTo
    <2>10. CASE Broadcast(w)
      BY <1>2, <2>10 DEF Broadcast, Transmit
    <2>11. CASE Answer(w)
      BY <1>2, <2>11 DEF Answer, Admitted
    <2>12. CASE NoAnswer(w)
      BY <1>2, <2>12 DEF NoAnswer
    <2>13. CASE RecordUnknown(w)
      BY <1>2, <2>13 DEF RecordUnknown, MarkUnknown, MoveTo
    <2>14. CASE RecordAnswer(w)
      <3>1. CASE pc[w] = "admitted" /\ Accept(job[w]) /\ Return(w)
        BY <1>2, <2>14, <3>1 DEF RecordAnswer, Accept, MoveTo
      <3>2. CASE pc[w] = "refused" /\ Reject(job[w]) /\ Goto(w, "rejected")
        BY <1>2, <2>14, <3>2 DEF RecordAnswer, Reject, Close
      <3> QED BY <2>14, <3>1, <3>2 DEF RecordAnswer
    <2>15. CASE Recover(w)
      BY <1>2, <2>15 DEF Recover, MarkUnknown, MoveTo
    <2>16. CASE Observe(w)
      BY <1>2, <2>16 DEF Observe, Included, Commit, MoveTo
    <2>17. CASE FinishMarker(w)
      BY <1>2, <2>17 DEF FinishMarker, JournalFinish
    <2>18. CASE CrashInFinish(w)
      BY <1>2, <2>18 DEF CrashInFinish, JournalHalfFinish
    <2> QED BY <1>2, <2>1, <2>2, <2>3, <2>4, <2>5, <2>6, <2>7, <2>8, <2>9, <2>10, <2>11, <2>12, <2>13, <2>14, <2>15, <2>16, <2>17, <2>18 DEF WorkerStep
  <1>3. ASSUME NEW i \in Sessions, InventoryStep(i) PROVE LeaseInv'
    BY <1>3, InventoryFrame
  <1>4. CASE Node /\ UNCHANGED <<sqlVars, outboxVars, workerVars, inventoryVars>>
    BY <1>4 DEF Node, Admit, Refuse, Include, Current
  <1>5. CASE LoseDatabase
    BY <1>5 DEF LoseDatabase, LoseTables, EndAll
  <1>6. CASE UNCHANGED vars
    BY <1>6 DEF vars
  <1> QED BY <1>1, <1>2, <1>3, <1>4, <1>5, <1>6 DEF Next

\* A verdict is recorded in SQL before the worker carries it to the journal.
LEMMA VerdictStep ==
  ASSUME TypeOK, RowInv, UniqueInv, FreshInv, SendsInv, LeaseInv, SqlTruth, VerdictInv,
     [Next]_vars
  PROVE  VerdictInv'
  <1> USE IdentityAssumption DEF RowInv, UniqueInv, FreshInv, SendsInv, LeaseInv,
     RowFits, SqlTruth, VerdictInv, Permitted, Sent, TypeOK, ChainTypeOK, SqlTypeOK,
     OutboxTypeOK, WorkerTypeOK, InventoryTypeOK
  <1>1. CASE Queue
    BY <1>1 DEF Queue, Enqueue, Claim
  <1>2. ASSUME NEW w \in Workers, WorkerStep(w), UNCHANGED inventoryVars PROVE VerdictInv'
    <2>1. CASE \E t \in Txs : Open(w, t)
      BY <1>2, <2>1 DEF Open, Resume, Recoverable, Leased, Holding
    <2>2. CASE \E h \in Hashes : Prepare(w, h)
      BY <1>2, <2>2 DEF Prepare, Sign, SaveSigned
    <2>3. CASE Stop(w)
      BY <1>2, <2>3 DEF Stop
    <2>4. CASE Disconnect(w)
      BY <1>2, <2>4 DEF Disconnect
    <2>5. CASE Preflight(w)
      BY <1>2, <2>5 DEF Preflight
    <2>6. CASE Invalid(w)
      BY <1>2, <2>6 DEF Invalid
    <2>7. CASE Abort(w)
      BY <1>2, <2>7 DEF Abort, AbortUnsent, Close
    <2>8. CASE Mark(w)
      BY <1>2, <2>8 DEF Mark, JournalBegin
    <2>9. CASE Begin(w)
      BY <1>2, <2>9 DEF Begin, BeginSubmission, MoveTo
    <2>10. CASE Broadcast(w)
      BY <1>2, <2>10 DEF Broadcast, Transmit
    <2>11. CASE Answer(w)
      BY <1>2, <2>11 DEF Answer, Admitted
    <2>12. CASE NoAnswer(w)
      BY <1>2, <2>12 DEF NoAnswer
    <2>13. CASE RecordUnknown(w)
      BY <1>2, <2>13 DEF RecordUnknown, MarkUnknown, MoveTo
    <2>14. CASE RecordAnswer(w)
      <3>1. CASE pc[w] = "admitted" /\ Accept(job[w]) /\ Return(w)
        BY <1>2, <2>14, <3>1 DEF RecordAnswer, Accept, MoveTo
      <3>2. CASE pc[w] = "refused" /\ Reject(job[w]) /\ Goto(w, "rejected")
        BY <1>2, <2>14, <3>2 DEF RecordAnswer, Reject, Close
      <3> QED BY <2>14, <3>1, <3>2 DEF RecordAnswer
    <2>15. CASE Recover(w)
      BY <1>2, <2>15 DEF Recover, MarkUnknown, MoveTo
    <2>16. CASE Observe(w)
      BY <1>2, <2>16 DEF Observe, Included, Commit, MoveTo
    <2>17. CASE FinishMarker(w)
      BY <1>2, <2>17 DEF FinishMarker, JournalFinish
    <2>18. CASE CrashInFinish(w)
      BY <1>2, <2>18 DEF CrashInFinish, JournalHalfFinish
    <2> QED BY <1>2, <2>1, <2>2, <2>3, <2>4, <2>5, <2>6, <2>7, <2>8, <2>9, <2>10, <2>11, <2>12, <2>13, <2>14, <2>15, <2>16, <2>17, <2>18 DEF WorkerStep
  <1>3. ASSUME NEW i \in Sessions, InventoryStep(i) PROVE VerdictInv'
    BY <1>3, InventoryFrame
  <1>4. CASE Node /\ UNCHANGED <<sqlVars, outboxVars, workerVars, inventoryVars>>
    BY <1>4 DEF Node, Admit, Refuse, Include, Current
  <1>5. CASE LoseDatabase
    <2>1. UNCHANGED <<chainVars, outboxVars, pc, saved>> /\ \A t \in Txs : submission'[t] = None
      BY <1>5 DEF LoseDatabase, LoseTables
    <2>2. \A h \in Hashes : Permitted(h)' <=> Permitted(h)
      BY <2>1
    <2> QED BY <2>1, <2>2, SMTT(20)
  <1>6. CASE UNCHANGED vars
    BY <1>6 DEF vars
  <1> QED BY <1>1, <1>2, <1>3, <1>4, <1>5, <1>6 DEF Next

\* One worker gets the permit, after the marker and while SQL says prepared.
LEMMA PermitStep ==
  ASSUME TypeOK, RowInv, UniqueInv, FreshInv, SendsInv, LeaseInv, SqlTruth, AgreeInv,
     VerdictInv, PermitInv, [Next]_vars
  PROVE  PermitInv'
  <1> USE IdentityAssumption DEF RowInv, UniqueInv, FreshInv, SendsInv, LeaseInv,
     RowFits, SqlTruth, AgreeInv, VerdictInv, PermitInv, Permitted, Sent, TypeOK,
     ChainTypeOK, SqlTypeOK, OutboxTypeOK, WorkerTypeOK, InventoryTypeOK
  <1>1. CASE Queue
    BY <1>1 DEF Queue, Enqueue, Claim
  <1>2. ASSUME NEW w \in Workers, WorkerStep(w), UNCHANGED inventoryVars PROVE PermitInv'
    <2>1. CASE \E t \in Txs : Open(w, t)
      BY <1>2, <2>1 DEF Open, Resume, Recoverable, Leased, Holding
    <2>2. CASE \E h \in Hashes : Prepare(w, h)
      BY <1>2, <2>2 DEF Prepare, Sign, SaveSigned
    <2>3. CASE Stop(w)
      BY <1>2, <2>3 DEF Stop
    <2>4. CASE Disconnect(w)
      BY <1>2, <2>4 DEF Disconnect
    <2>5. CASE Preflight(w)
      BY <1>2, <2>5 DEF Preflight
    <2>6. CASE Invalid(w)
      BY <1>2, <2>6 DEF Invalid
    <2>7. CASE Abort(w)
      BY <1>2, <2>7, SMTT(20) DEF Abort, AbortUnsent, Close
    <2>8. CASE Mark(w)
      BY <1>2, <2>8 DEF Mark, JournalBegin
    <2>9. CASE Begin(w)
      BY <1>2, <2>9 DEF Begin, BeginSubmission, MoveTo
    <2>10. CASE Broadcast(w)
      BY <1>2, <2>10 DEF Broadcast, Transmit
    <2>11. CASE Answer(w)
      BY <1>2, <2>11 DEF Answer, Admitted
    <2>12. CASE NoAnswer(w)
      BY <1>2, <2>12 DEF NoAnswer
    <2>13. CASE RecordUnknown(w)
      BY <1>2, <2>13 DEF RecordUnknown, MarkUnknown, MoveTo
    <2>14. CASE RecordAnswer(w)
      <3>1. CASE pc[w] = "admitted" /\ Accept(job[w]) /\ Return(w)
        BY <1>2, <2>14, <3>1 DEF RecordAnswer, Accept, MoveTo
      <3>2. CASE pc[w] = "refused" /\ Reject(job[w]) /\ Goto(w, "rejected")
        BY <1>2, <2>14, <3>2 DEF RecordAnswer, Reject, Close
      <3> QED BY <2>14, <3>1, <3>2 DEF RecordAnswer
    <2>15. CASE Recover(w)
      BY <1>2, <2>15 DEF Recover, MarkUnknown, MoveTo
    <2>16. CASE Observe(w)
      BY <1>2, <2>16 DEF Observe, Included, Commit, MoveTo
    <2>17. CASE FinishMarker(w)
      BY <1>2, <2>17 DEF FinishMarker, JournalFinish
    <2>18. CASE CrashInFinish(w)
      BY <1>2, <2>18 DEF CrashInFinish, JournalHalfFinish
    <2> QED BY <1>2, <2>1, <2>2, <2>3, <2>4, <2>5, <2>6, <2>7, <2>8, <2>9, <2>10, <2>11, <2>12, <2>13, <2>14, <2>15, <2>16, <2>17, <2>18 DEF WorkerStep
  <1>3. ASSUME NEW i \in Sessions, InventoryStep(i) PROVE PermitInv'
    <2>1. UNCHANGED <<chainVars, workerVars, row, account, submission, state>>
      BY <1>3, InventoryFrame
    <2>2. CASE UNCHANGED outboxVars
      BY <2>1, <2>2
    <2>3. CASE UNCHANGED completed /\ pending' = Unresolved
      BY <2>1, <2>3 DEF Unresolved
    <2>4. ASSUME NEW h \in Hashes, NEW outcome \in Outcomes, Completion(h, outcome)
          PROVE  PermitInv'
      BY <2>1, <2>4 DEF Completion, Included
    <2> QED BY <1>3, <2>2, <2>3, <2>4, JournalFrame
  <1>4. CASE Node /\ UNCHANGED <<sqlVars, outboxVars, workerVars, inventoryVars>>
    BY <1>4 DEF Node, Admit, Refuse, Include, Current
  <1>5. CASE LoseDatabase
    <2>1. /\ UNCHANGED <<chainVars, outboxVars, pc, saved>>
          /\ \A t \in Txs : submission'[t] = None
          /\ \A w \in Workers : ~live'[w]
      BY <1>5 DEF LoseDatabase, LoseTables
    <2>2. \A h \in Hashes : Permitted(h)' <=> Permitted(h)
      BY <2>1
    <2> QED BY <2>1, <2>2
  <1>6. CASE UNCHANGED vars
    BY <1>6 DEF vars
  <1> QED BY <1>1, <1>2, <1>3, <1>4, <1>5, <1>6 DEF Next

\* The journal follows SQL, and SQL never leaves an outcome.
LEMMA AgreeStep ==
  ASSUME TypeOK, RowInv, UniqueInv, FreshInv, LeaseInv, VerdictInv, AgreeInv,
     [Next]_vars
  PROVE  AgreeInv'
  <1> USE IdentityAssumption DEF RowInv, UniqueInv, FreshInv, LeaseInv, RowFits,
     VerdictInv, AgreeInv, TypeOK, ChainTypeOK, SqlTypeOK, OutboxTypeOK, WorkerTypeOK,
     InventoryTypeOK
  <1>1. CASE Queue
    BY <1>1 DEF Queue, Enqueue, Claim
  <1>2. ASSUME NEW w \in Workers, WorkerStep(w), UNCHANGED inventoryVars PROVE AgreeInv'
    <2>1. CASE \E t \in Txs : Open(w, t)
      BY <1>2, <2>1 DEF Open, Resume, Recoverable, Leased, Holding
    <2>2. CASE \E h \in Hashes : Prepare(w, h)
      BY <1>2, <2>2 DEF Prepare, Sign, SaveSigned
    <2>3. CASE Stop(w)
      BY <1>2, <2>3 DEF Stop
    <2>4. CASE Disconnect(w)
      BY <1>2, <2>4 DEF Disconnect
    <2>5. CASE Preflight(w)
      BY <1>2, <2>5 DEF Preflight
    <2>6. CASE Invalid(w)
      BY <1>2, <2>6 DEF Invalid
    <2>7. CASE Abort(w)
      <3>1. CASE saved[w] = None
        <4>1. submission[job[w]] = None /\ state[job[w]] = "none"
          BY <1>2, <2>7, <3>1 DEF Abort
        <4> QED BY <1>2, <2>7, <3>1, <4>1 DEF Abort, AbortUnsent, Close
      <3>2. CASE saved[w] # None
        BY <1>2, <2>7, <3>2 DEF Abort, AbortUnsent, Close
      <3> QED BY <3>1, <3>2
    <2>8. CASE Mark(w)
      BY <1>2, <2>8 DEF Mark, JournalBegin
    <2>9. CASE Begin(w)
      <3>1. \A t \in Txs : t # job[w] => state'[t] = state[t]
        BY <2>9 DEF Begin, BeginSubmission, MoveTo
      <3>2. state[job[w]] = "prepared" /\ job[w] \in Txs
        BY <2>9 DEF Begin, BeginSubmission
      <3>3. \A h \in Hashes : completed[h] # "none" => submission[job[w]] # h
        BY <3>2
      <3> QED BY <2>9, <3>1, <3>3 DEF Begin, BeginSubmission, MoveTo
    <2>10. CASE Broadcast(w)
      BY <1>2, <2>10 DEF Broadcast, Transmit
    <2>11. CASE Answer(w)
      BY <1>2, <2>11 DEF Answer, Admitted
    <2>12. CASE NoAnswer(w)
      BY <1>2, <2>12 DEF NoAnswer
    <2>13. CASE RecordUnknown(w)
      <3>1. \A t \in Txs : t # job[w] => state'[t] = state[t]
        BY <2>13 DEF RecordUnknown, MarkUnknown, MoveTo
      <3>2. state[job[w]] = "sending" /\ job[w] \in Txs
        BY <2>13 DEF RecordUnknown, MarkUnknown
      <3>3. \A h \in Hashes : completed[h] # "none" => submission[job[w]] # h
        BY <3>2
      <3> QED BY <2>13, <3>1, <3>3 DEF RecordUnknown, MarkUnknown, MoveTo
    <2>14. CASE RecordAnswer(w)
      <3>1. CASE pc[w] = "admitted" /\ Accept(job[w]) /\ Return(w)
        BY <1>2, <2>14, <3>1 DEF RecordAnswer, Accept, MoveTo
      <3>2. CASE pc[w] = "refused" /\ Reject(job[w]) /\ Goto(w, "rejected")
        BY <1>2, <2>14, <3>2 DEF RecordAnswer, Reject, Close
      <3> QED BY <2>14, <3>1, <3>2 DEF RecordAnswer
    <2>15. CASE Recover(w)
      <3>1. \A t \in Txs : t # job[w] => state'[t] = state[t]
        BY <2>15 DEF Recover, MarkUnknown, MoveTo
      <3>2. state[job[w]] = "sending" /\ job[w] \in Txs
        BY <2>15 DEF Recover, MarkUnknown
      <3>3. \A h \in Hashes : completed[h] # "none" => submission[job[w]] # h
        BY <3>2
      <3> QED BY <2>15, <3>1, <3>3 DEF Recover, MarkUnknown, MoveTo
    <2>16. CASE Observe(w)
      BY <1>2, <2>16, SMTT(20) DEF Observe, Included, Commit, MoveTo
    <2>17. CASE FinishMarker(w)
      BY <1>2, <2>17 DEF FinishMarker, JournalFinish
    <2>18. CASE CrashInFinish(w)
      BY <1>2, <2>18 DEF CrashInFinish, JournalHalfFinish
    <2> QED BY <1>2, <2>1, <2>2, <2>3, <2>4, <2>5, <2>6, <2>7, <2>8, <2>9, <2>10, <2>11, <2>12, <2>13, <2>14, <2>15, <2>16, <2>17, <2>18 DEF WorkerStep
  <1>3. ASSUME NEW i \in Sessions, InventoryStep(i) PROVE AgreeInv'
    <2>1. UNCHANGED <<chainVars, workerVars, row, account, submission, state>>
      BY <1>3, InventoryFrame
    <2>2. CASE UNCHANGED outboxVars
      BY <2>1, <2>2
    <2>3. CASE UNCHANGED completed /\ pending' = Unresolved
      BY <2>1, <2>3 DEF Unresolved
    <2>4. ASSUME NEW h \in Hashes, NEW outcome \in Outcomes, Completion(h, outcome)
          PROVE  AgreeInv'
      BY <2>1, <2>4 DEF Completion, Included
    <2> QED BY <1>3, <2>2, <2>3, <2>4, JournalFrame
  <1>4. CASE Node /\ UNCHANGED <<sqlVars, outboxVars, workerVars, inventoryVars>>
    BY <1>4 DEF Node, Admit, Refuse, Include, Current
  <1>5. CASE LoseDatabase
    BY <1>5 DEF LoseDatabase, LoseTables, EndAll
  <1>6. CASE UNCHANGED vars
    BY <1>6 DEF vars
  <1> QED BY <1>1, <1>2, <1>3, <1>4, <1>5, <1>6 DEF Next

\* A marker precedes the send and is completed from true evidence only.
LEMMA JournalStep ==
  ASSUME TypeOK, RowInv, FreshInv, SendsInv, LeaseInv, VerdictInv, PermitInv, AgreeInv,
     SqlTruth, JournalTruth, [Next]_vars
  PROVE  JournalTruth'
  <1> USE IdentityAssumption DEF RowInv, FreshInv, SendsInv, LeaseInv, RowFits,
     VerdictInv, PermitInv, AgreeInv, SqlTruth, JournalTruth, Permitted, Sent, TypeOK,
     ChainTypeOK, SqlTypeOK, OutboxTypeOK, WorkerTypeOK, InventoryTypeOK
  <1>1. CASE Queue
    BY <1>1 DEF Queue, Enqueue, Claim
  <1>2. ASSUME NEW w \in Workers, WorkerStep(w), UNCHANGED inventoryVars PROVE JournalTruth'
    <2>1. CASE \E t \in Txs : Open(w, t)
      BY <1>2, <2>1 DEF Open, Resume, Recoverable, Leased, Holding
    <2>2. CASE \E h \in Hashes : Prepare(w, h)
      BY <1>2, <2>2 DEF Prepare, Sign, SaveSigned
    <2>3. CASE Stop(w)
      BY <1>2, <2>3 DEF Stop
    <2>4. CASE Disconnect(w)
      BY <1>2, <2>4 DEF Disconnect
    <2>5. CASE Preflight(w)
      BY <1>2, <2>5 DEF Preflight
    <2>6. CASE Invalid(w)
      BY <1>2, <2>6 DEF Invalid
    <2>7. CASE Abort(w)
      BY <1>2, <2>7 DEF Abort, AbortUnsent, Close
    <2>8. CASE Mark(w)
      BY <1>2, <2>8 DEF Mark, JournalBegin
    <2>9. CASE Begin(w)
      BY <1>2, <2>9 DEF Begin, BeginSubmission, MoveTo
    <2>10. CASE Broadcast(w)
      BY <1>2, <2>10 DEF Broadcast, Transmit
    <2>11. CASE Answer(w)
      BY <1>2, <2>11 DEF Answer, Admitted
    <2>12. CASE NoAnswer(w)
      BY <1>2, <2>12 DEF NoAnswer
    <2>13. CASE RecordUnknown(w)
      BY <1>2, <2>13 DEF RecordUnknown, MarkUnknown, MoveTo
    <2>14. CASE RecordAnswer(w)
      BY <1>2, <2>14 DEF RecordAnswer, Accept, Reject, MoveTo, Close
    <2>15. CASE Recover(w)
      BY <1>2, <2>15 DEF Recover, MarkUnknown, MoveTo
    <2>16. CASE Observe(w)
      BY <1>2, <2>16 DEF Observe, Included, Commit, MoveTo
    <2>17. CASE FinishMarker(w)
      BY <1>2, <2>17 DEF FinishMarker, JournalFinish
    <2>18. CASE CrashInFinish(w)
      BY <1>2, <2>18 DEF CrashInFinish, JournalHalfFinish
    <2> QED BY <1>2, <2>1, <2>2, <2>3, <2>4, <2>5, <2>6, <2>7, <2>8, <2>9, <2>10, <2>11, <2>12, <2>13, <2>14, <2>15, <2>16, <2>17, <2>18 DEF WorkerStep
  <1>3. ASSUME NEW i \in Sessions, InventoryStep(i) PROVE JournalTruth'
    <2>1. UNCHANGED <<chainVars, workerVars, row, account, submission, state>>
      BY <1>3, InventoryFrame
    <2>2. CASE UNCHANGED outboxVars
      BY <2>1, <2>2
    <2>3. CASE UNCHANGED completed /\ pending' = Unresolved
      BY <2>1, <2>3 DEF Unresolved
    <2>4. ASSUME NEW h \in Hashes, NEW outcome \in Outcomes, Completion(h, outcome)
          PROVE  JournalTruth'
      BY <2>1, <2>4 DEF Completion, Included
    <2> QED BY <1>3, <2>2, <2>3, <2>4, JournalFrame
  <1>4. CASE Node /\ UNCHANGED <<sqlVars, outboxVars, workerVars, inventoryVars>>
    BY <1>4 DEF Node, Admit, Refuse, Include, Current
  <1>5. CASE LoseDatabase
    BY <1>5 DEF LoseDatabase, LoseTables, EndAll
  <1>6. CASE UNCHANGED vars
    BY <1>6 DEF vars
  <1> QED BY <1>1, <1>2, <1>3, <1>4, <1>5, <1>6 DEF Next

\* SQL closes a row from true evidence, and cancels only what was not sent.
LEMMA SqlTruthStep ==
  ASSUME TypeOK, RowInv, UniqueInv, FreshInv, SendsInv, LeaseInv, VerdictInv,
     PermitInv, SqlTruth, [Next]_vars
  PROVE  SqlTruth'
  <1> USE IdentityAssumption DEF RowInv, UniqueInv, FreshInv, SendsInv, LeaseInv,
     RowFits, VerdictInv, PermitInv, SqlTruth, Permitted, Sent, TypeOK, ChainTypeOK,
     SqlTypeOK, OutboxTypeOK, WorkerTypeOK, InventoryTypeOK
  <1>1. CASE Queue
    BY <1>1 DEF Queue, Enqueue, Claim
  <1>2. ASSUME NEW w \in Workers, WorkerStep(w), UNCHANGED inventoryVars PROVE SqlTruth'
    <2>1. CASE \E t \in Txs : Open(w, t)
      BY <1>2, <2>1 DEF Open, Resume, Recoverable, Leased, Holding
    <2>2. CASE \E h \in Hashes : Prepare(w, h)
      BY <1>2, <2>2 DEF Prepare, Sign, SaveSigned
    <2>3. CASE Stop(w)
      BY <1>2, <2>3 DEF Stop
    <2>4. CASE Disconnect(w)
      BY <1>2, <2>4 DEF Disconnect
    <2>5. CASE Preflight(w)
      BY <1>2, <2>5 DEF Preflight
    <2>6. CASE Invalid(w)
      BY <1>2, <2>6 DEF Invalid
    <2>7. CASE Abort(w)
      BY <1>2, <2>7 DEF Abort, AbortUnsent, Close
    <2>8. CASE Mark(w)
      BY <1>2, <2>8 DEF Mark, JournalBegin
    <2>9. CASE Begin(w)
      BY <1>2, <2>9 DEF Begin, BeginSubmission, MoveTo
    <2>10. CASE Broadcast(w)
      BY <1>2, <2>10 DEF Broadcast, Transmit
    <2>11. CASE Answer(w)
      BY <1>2, <2>11 DEF Answer, Admitted
    <2>12. CASE NoAnswer(w)
      BY <1>2, <2>12 DEF NoAnswer
    <2>13. CASE RecordUnknown(w)
      BY <1>2, <2>13 DEF RecordUnknown, MarkUnknown, MoveTo
    <2>14. CASE RecordAnswer(w)
      BY <1>2, <2>14 DEF RecordAnswer, Accept, Reject, MoveTo, Close
    <2>15. CASE Recover(w)
      BY <1>2, <2>15 DEF Recover, MarkUnknown, MoveTo
    <2>16. CASE Observe(w)
      BY <1>2, <2>16 DEF Observe, Included, Commit, MoveTo
    <2>17. CASE FinishMarker(w)
      BY <1>2, <2>17 DEF FinishMarker, JournalFinish
    <2>18. CASE CrashInFinish(w)
      BY <1>2, <2>18 DEF CrashInFinish, JournalHalfFinish
    <2> QED BY <1>2, <2>1, <2>2, <2>3, <2>4, <2>5, <2>6, <2>7, <2>8, <2>9, <2>10, <2>11, <2>12, <2>13, <2>14, <2>15, <2>16, <2>17, <2>18 DEF WorkerStep
  <1>3. ASSUME NEW i \in Sessions, InventoryStep(i) PROVE SqlTruth'
    BY <1>3, InventoryFrame
  <1>4. CASE Node /\ UNCHANGED <<sqlVars, outboxVars, workerVars, inventoryVars>>
    BY <1>4 DEF Node, Admit, Refuse, Include, Current
  <1>5. CASE LoseDatabase
    BY <1>5 DEF LoseDatabase, LoseTables, EndAll
  <1>6. CASE UNCHANGED vars
    BY <1>6 DEF vars
  <1> QED BY <1>1, <1>2, <1>3, <1>4, <1>5, <1>6 DEF Next

-----------------------------------------------------------------------------
(* What it means for bytes that they may still reach a block.              *)

\* Their marker has not been completed.
LEMMA OutstandingIsUnresolved ==
  ASSUME TypeOK, SendsInv, PermitInv, JournalTruth, NEW h \in Hashes, Outstanding(h)
  PROVE  h \in Unresolved
<1>1. CASE Permitted(h)
  <2>1. sends[h] = 0 /\ fate[h] = "unsent"
    BY <1>1 DEF Permitted, PermitInv, SendsInv
  <2> QED BY <1>1, <2>1 DEF TypeOK, OutboxTypeOK, JournalTruth, Unresolved
<1>2. CASE fate[h] \in {"wire", "mempool"}
  BY <1>2 DEF TypeOK, OutboxTypeOK, ChainTypeOK, SendsInv, JournalTruth, Sent, Unresolved
<1> QED BY <1>1, <1>2 DEF Outstanding

\* The row they were saved for, if SQL still has it, is undecided.
LEMMA OutstandingIsUndecided ==
  ASSUME TypeOK, RowInv, SendsInv, PermitInv, SqlTruth,
         NEW h \in Hashes, Outstanding(h), NEW t \in Txs, submission[t] = h
  PROVE  state[t] \in Undecided /\ row[t] = "active" /\ signer[h] = account[t]
<1>1. state[t] \notin {"none", "prepared", "cancelled", "committed", "rejected"}
  <2>1. CASE Permitted(h)
    <3>1. sends[h] = 0 /\ fate[h] = "unsent"
      BY <2>1 DEF Permitted, PermitInv, SendsInv
    <3> QED BY IdentityAssumption, <2>1, <3>1 DEF SqlTruth
  <2>2. CASE fate[h] \in {"wire", "mempool"}
    BY IdentityAssumption, <2>2 DEF TypeOK, ChainTypeOK, SendsInv, SqlTruth, Sent
  <2> QED BY <2>1, <2>2 DEF Outstanding
<1> QED BY IdentityAssumption, <1>1 DEF TypeOK, SqlTypeOK, RowInv

\* Bytes that wait for their permit reserve the account that signed them.
LEMMA PreparedIsReserved ==
  ASSUME TypeOK, RowInv, NEW t \in Txs, state[t] = "prepared"
  PROVE  Reserved(t) /\ signer[submission[t]] = account[t]
  BY DEF RowInv, Reserved

\* Bytes on their way were signed by a key of the keyring.
LEMMA FreshSigner ==
  ASSUME TypeOK, FreshInv, NEW h \in Hashes, Outstanding(h)
  PROVE  signer[h] \in Keys
  BY DEF TypeOK, ChainTypeOK, FreshInv, Outstanding, Permitted

\* While a row reserves an account, no other bytes of its key are outstanding.
LEMMA ReservedExcludes ==
  ASSUME TypeOK, RowInv, UniqueInv, SendsInv, PermitInv, SqlTruth, OrphanInv,
         NEW t \in Txs, Reserved(t), NEW h \in Hashes, Outstanding(h), signer[h] = account[t]
  PROVE  submission[t] = h
<1>1. Busy(signer[h])
  BY DEF Busy
<1>2. PICK s \in Txs : submission[s] = h
  BY <1>1 DEF OrphanInv, MatchingSubmission
<1>3. Reserved(s) /\ account[s] = account[t]
  BY <1>2, OutstandingIsUndecided DEF Reserved
<1> QED BY <1>2, <1>3 DEF UniqueInv

\* Only the evidence of a block takes a marker from the records that hold its key.
LEMMA OrphanStep ==
  ASSUME TypeOK, RowInv, UniqueInv, FreshInv, SendsInv, LeaseInv, PermitInv,
     JournalTruth, SqlTruth, OrphanInv, [Next]_vars
  PROVE  OrphanInv'
  <1> USE IdentityAssumption DEF RowInv, FreshInv, SendsInv, LeaseInv, RowFits,
     PermitInv, SqlTruth, OrphanInv, MatchingSubmission, Busy, Reserved, Outstanding,
     Permitted, Sent, TypeOK, ChainTypeOK, SqlTypeOK, OutboxTypeOK, WorkerTypeOK,
     InventoryTypeOK
  <1>1. CASE Queue
    BY <1>1 DEF Queue, Enqueue, Claim
  <1>2. ASSUME NEW w \in Workers, WorkerStep(w), UNCHANGED inventoryVars PROVE OrphanInv'
    <2>1. CASE \E t \in Txs : Open(w, t)
      BY <1>2, <2>1, SMTT(20) DEF Open, Resume, Recoverable, Leased, Holding
    <2>2. CASE \E h \in Hashes : Prepare(w, h)
      BY <1>2, <2>2, SMTT(20) DEF Prepare, Sign, SaveSigned
    <2>3. CASE Stop(w)
      BY <1>2, <2>3 DEF Stop
    <2>4. CASE Disconnect(w)
      BY <1>2, <2>4 DEF Disconnect
    <2>5. CASE Preflight(w)
      BY <1>2, <2>5 DEF Preflight
    <2>6. CASE Invalid(w)
      BY <1>2, <2>6 DEF Invalid
    <2>7. CASE Abort(w)
      BY <1>2, <2>7 DEF Abort, AbortUnsent, Close
    <2>8. CASE Mark(w)
      BY <1>2, <2>8 DEF Mark, JournalBegin
    <2>9. CASE Begin(w)
      BY <1>2, <2>9 DEF Begin, BeginSubmission, MoveTo
    <2>10. CASE Broadcast(w)
      BY <1>2, <2>10, SMTT(20) DEF Broadcast, Transmit
    <2>11. CASE Answer(w)
      BY <1>2, <2>11 DEF Answer, Admitted
    <2>12. CASE NoAnswer(w)
      BY <1>2, <2>12 DEF NoAnswer
    <2>13. CASE RecordUnknown(w)
      BY <1>2, <2>13 DEF RecordUnknown, MarkUnknown, MoveTo
    <2>14. CASE RecordAnswer(w)
      BY <1>2, <2>14, SMTT(20) DEF RecordAnswer, Accept, Reject, MoveTo, Close
    <2>15. CASE Recover(w)
      BY <1>2, <2>15 DEF Recover, MarkUnknown, MoveTo
    <2>16. CASE Observe(w)
      BY <1>2, <2>16, SMTT(20) DEF Observe, Included, Commit, MoveTo
    <2>17. CASE FinishMarker(w)
      BY <1>2, <2>17 DEF FinishMarker, JournalFinish
    <2>18. CASE CrashInFinish(w)
      BY <1>2, <2>18 DEF CrashInFinish, JournalHalfFinish
    <2> QED BY <1>2, <2>1, <2>2, <2>3, <2>4, <2>5, <2>6, <2>7, <2>8, <2>9, <2>10, <2>11, <2>12, <2>13, <2>14, <2>15, <2>16, <2>17, <2>18 DEF WorkerStep
  <1>3. ASSUME NEW i \in Sessions, InventoryStep(i) PROVE OrphanInv'
    <2>1. CASE StartInventory(i)
      <3>1. UNCHANGED <<chainVars, workerVars, row, account, submission, state>>
        BY <2>1 DEF StartInventory, SyncKeys
      <3>2. \A a \in Keys : key'[a] = "ready" => key[a] = "ready"
        BY <2>1 DEF StartInventory, SyncKeys
      <3>3. held'[i] = Unresolved /\ \A j \in Sessions : j # i => held'[j] = held[j] /\ stage'[j] = stage[j]
        BY <2>1 DEF StartInventory
      <3>4. ASSUME NEW h \in Hashes, Outstanding(h)' PROVE Outstanding(h) /\ signer[h] \in Keys /\ h \in held'[i]
        <4>1. Outstanding(h)
          BY <3>1, <3>4
        <4>2. signer[h] \in Keys
          BY <4>1
        <4>3. h \in Unresolved
          BY <4>1, OutstandingIsUnresolved
        <4> QED BY <3>3, <4>1, <4>2, <4>3
      <3> QED BY <3>1, <3>2, <3>3, <3>4, SMTT(20)
    <2>2. CASE EndRecords(i)
      BY <2>2 DEF EndRecords
    <2>3. CASE EndInventory(i)
      BY <2>3, SMTT(20) DEF EndInventory, End
    <2>4. CASE StopInventory(i)
      BY <2>4 DEF StopInventory, End
    <2>5. CASE \E h \in Hashes : ResolveRecord(i, h)
      BY <2>5 DEF ResolveRecord, Looked, Decided, Orphan, Included, JournalFinish,
         Release
    <2>6. CASE \E h \in Hashes : SkipReserved(i, h)
      BY <2>6 DEF SkipReserved, Looked, Release
    <2>7. CASE \E h \in Hashes : HoldOrphan(i, h)
      BY <2>7 DEF HoldOrphan, Looked
    <2>8. CASE \E h \in Hashes : CrashInResolve(i, h)
      BY <2>8 DEF CrashInResolve, Decided, Orphan, Included, JournalHalfFinish, End
    <2>9. CASE \E a \in Keys : ReconcileKey(i, a)
      BY <2>9, SMTT(20) DEF ReconcileKey, Checked, SetKey, HeldKeys
    <2>10. CASE \E a \in Keys : InvalidateKey(i, a)
      BY <2>10 DEF InvalidateKey, Checked, SetKey
    <2> QED BY <1>3, <2>1, <2>2, <2>3, <2>4, <2>5, <2>6, <2>7, <2>8, <2>9, <2>10 DEF InventoryStep
  <1>4. CASE Node /\ UNCHANGED <<sqlVars, outboxVars, workerVars, inventoryVars>>
    BY <1>4 DEF Node, Admit, Refuse, Include, Current
  <1>5. CASE LoseDatabase
    BY <1>5 DEF LoseDatabase, LoseTables, EndAll
  <1>6. CASE UNCHANGED vars
    BY <1>6 DEF vars
  <1> QED BY <1>1, <1>2, <1>3, <1>4, <1>5, <1>6 DEF Next

\* Only BeginSubmission gives a permit.
LEMMA PermitFrame ==
  ASSUME TypeOK, [Next]_vars
  PROVE  (\A h \in Hashes : Permitted(h)' => Permitted(h)) \/ \E w \in Workers : Begin(w)
<1>1. ASSUME NEW w \in Workers, WorkerStep(w), ~Begin(w),
             NEW v \in Workers, pc'[v] = "send"
      PROVE  pc[v] = "send" /\ saved'[v] = saved[v]
  <2> USE DEF TypeOK, WorkerTypeOK
  <2>1. CASE Return(w)
    BY <1>1, <2>1
  <2>2. ASSUME NEW next, next # "send", Goto(w, next) PROVE pc[v] = "send" /\ saved'[v] = saved[v]
    BY <1>1, <2>2
  <2>3. CASE \E t \in Txs : Open(w, t)
    BY <1>1, <2>3 DEF Open, Resume
  <2>4. CASE \E h \in Hashes : Prepare(w, h)
    BY <1>1, <2>4 DEF Prepare
  <2>5. CASE Disconnect(w)
    BY <1>1, <2>5 DEF Disconnect
  <2>6. CASE FinishMarker(w) \/ CrashInFinish(w) \/ Stop(w) \/ RecordUnknown(w)
    BY <2>1, <2>6 DEF FinishMarker, CrashInFinish, Stop, RecordUnknown
  <2>7. CASE Abort(w) \/ RecordAnswer(w)
    BY <2>1, <2>2, <2>7 DEF Abort, RecordAnswer
  <2>8. CASE Preflight(w) \/ Invalid(w) \/ Mark(w)
    BY <2>2, <2>8 DEF Preflight, Invalid, Mark
  <2>9. CASE Broadcast(w) \/ Answer(w) \/ NoAnswer(w)
    BY <2>2, <2>9 DEF Broadcast, Answer, NoAnswer
  <2>10. CASE Recover(w) \/ Observe(w)
    BY <2>2, <2>10 DEF Recover, Observe
  <2> QED BY <1>1, <2>3, <2>4, <2>5, <2>6, <2>7, <2>8, <2>9, <2>10 DEF WorkerStep
<1>2. CASE UNCHANGED <<pc, saved>>
  BY <1>2 DEF Permitted
<1>3. CASE \E w \in Workers : WorkerStep(w)
  BY <1>1, <1>3 DEF Permitted
<1>4. CASE \E i \in Sessions : InventoryStep(i)
  BY <1>2, <1>4, InventoryFrame
<1> QED BY <1>2, <1>3, <1>4 DEF Next, Queue, Node, LoseDatabase, vars

\* A permit is granted to the row that reserves the key.
LEMMA KeyStep ==
  ASSUME TypeOK, RowInv, UniqueInv, FreshInv, SendsInv, LeaseInv, PermitInv, SqlTruth,
         OrphanInv, KeyExclusive, [Next]_vars
  PROVE  KeyExclusive'
<1>1. ASSUME NEW w \in Workers, Begin(w) PROVE KeyExclusive'
  <2>1. /\ job[w] \in Txs /\ Reserved(job[w]) /\ saved[w] = submission[job[w]]
        /\ saved[w] \in Hashes /\ account[job[w]] = signer[saved[w]]
    BY <1>1, PreparedIsReserved DEF Begin, BeginSubmission, LeaseInv, TypeOK, WorkerTypeOK
  <2>2. UNCHANGED chainVars /\ \A h \in Hashes : Outstanding(h)' => Outstanding(h) \/ h = saved[w]
    BY <1>1 DEF Begin, Outstanding, Permitted
  <2>3. \A h \in Hashes : Outstanding(h) /\ signer[h] = signer[saved[w]] => h = saved[w]
    BY <2>1, ReservedExcludes
  <2> QED BY <2>1, <2>2, <2>3 DEF KeyExclusive
<1>2. ASSUME \A h \in Hashes : Permitted(h)' => Permitted(h)
      PROVE  \A h \in Hashes : Outstanding(h)' => Outstanding(h) /\ signer'[h] = signer[h]
  <2>1. CASE UNCHANGED chainVars
    BY <1>2, <2>1 DEF Outstanding
  <2>2. ASSUME NEW w \in Workers, NEW g \in Hashes, Prepare(w, g),
               NEW h \in Hashes, Outstanding(h)'
        PROVE  Outstanding(h) /\ signer'[h] = signer[h]
    <3>1. Outstanding(h)
      BY <1>2, <2>2 DEF Prepare, Sign, Outstanding
    <3>2. h # g
      BY <2>2, <3>1, FreshSigner, IdentityAssumption DEF Prepare, Sign
    <3> QED BY <2>2, <3>1, <3>2 DEF Prepare, Sign
  <2>3. ASSUME NEW w \in Workers, Broadcast(w), NEW h \in Hashes, Outstanding(h)'
        PROVE  Outstanding(h) /\ signer'[h] = signer[h]
    <3>1. Permitted(saved[w])
      BY <2>3 DEF Broadcast, Permitted
    <3>2. h # saved[w] => fate'[h] = fate[h]
      BY <2>3 DEF Broadcast, Transmit
    <3> QED BY <1>2, <2>3, <3>1, <3>2 DEF Broadcast, Transmit, Outstanding
  <2>4. ASSUME NEW g \in Hashes, Admit(g) \/ Refuse(g) \/ Include(g),
               NEW h \in Hashes, Outstanding(h)'
        PROVE  Outstanding(h) /\ signer'[h] = signer[h]
    BY <1>2, <2>4 DEF Admit, Refuse, Include, Outstanding, TypeOK, ChainTypeOK
  <2> QED BY <2>1, <2>2, <2>3, <2>4, ChainFrame
<1> QED BY <1>1, <1>2, PermitFrame DEF KeyExclusive

\* The sequence of a key moves only when its one outstanding attempt is included.
LEMMA SequenceStep ==
  ASSUME TypeOK, RowInv, UniqueInv, FreshInv, SendsInv, LeaseInv, PermitInv, SqlTruth,
     OrphanInv, KeyExclusive, SequenceInv, [Next]_vars
  PROVE  SequenceInv'
  <1> USE IdentityAssumption DEF RowInv, UniqueInv, FreshInv, SendsInv, LeaseInv,
     RowFits, PermitInv, SqlTruth, KeyExclusive, SequenceInv, MatchingSubmission,
     Outstanding, Permitted, Sent, TypeOK, ChainTypeOK, SqlTypeOK, OutboxTypeOK,
     WorkerTypeOK, InventoryTypeOK
  <1>1. CASE Queue
    BY <1>1 DEF Queue, Enqueue, Claim
  <1>2. ASSUME NEW w \in Workers, WorkerStep(w), UNCHANGED inventoryVars PROVE SequenceInv'
    <2>1. CASE \E t \in Txs : Open(w, t)
      BY <1>2, <2>1 DEF Open, Resume, Recoverable, Leased, Holding
    <2>2. CASE \E h \in Hashes : Prepare(w, h)
      BY <1>2, <2>2 DEF Prepare, Sign, SaveSigned
    <2>3. CASE Stop(w)
      BY <1>2, <2>3 DEF Stop
    <2>4. CASE Disconnect(w)
      BY <1>2, <2>4 DEF Disconnect
    <2>5. CASE Preflight(w)
      BY <1>2, <2>5 DEF Preflight
    <2>6. CASE Invalid(w)
      BY <1>2, <2>6 DEF Invalid
    <2>7. CASE Abort(w)
      BY <1>2, <2>7 DEF Abort, AbortUnsent, Close
    <2>8. CASE Mark(w)
      BY <1>2, <2>8 DEF Mark, JournalBegin
    <2>9. CASE Begin(w)
      BY <1>2, <2>9 DEF Begin, BeginSubmission, MoveTo
    <2>10. CASE Broadcast(w)
      BY <1>2, <2>10 DEF Broadcast, Transmit
    <2>11. CASE Answer(w)
      BY <1>2, <2>11 DEF Answer, Admitted
    <2>12. CASE NoAnswer(w)
      BY <1>2, <2>12 DEF NoAnswer
    <2>13. CASE RecordUnknown(w)
      BY <1>2, <2>13 DEF RecordUnknown, MarkUnknown, MoveTo
    <2>14. CASE RecordAnswer(w)
      BY <1>2, <2>14 DEF RecordAnswer, Accept, Reject, MoveTo, Close
    <2>15. CASE Recover(w)
      BY <1>2, <2>15 DEF Recover, MarkUnknown, MoveTo
    <2>16. CASE Observe(w)
      BY <1>2, <2>16 DEF Observe, Included, Commit, MoveTo
    <2>17. CASE FinishMarker(w)
      BY <1>2, <2>17 DEF FinishMarker, JournalFinish
    <2>18. CASE CrashInFinish(w)
      BY <1>2, <2>18 DEF CrashInFinish, JournalHalfFinish
    <2> QED BY <1>2, <2>1, <2>2, <2>3, <2>4, <2>5, <2>6, <2>7, <2>8, <2>9, <2>10, <2>11, <2>12, <2>13, <2>14, <2>15, <2>16, <2>17, <2>18 DEF WorkerStep
  <1>3. ASSUME NEW i \in Sessions, InventoryStep(i) PROVE SequenceInv'
    BY <1>3, InventoryFrame
  <1>4. CASE Node /\ UNCHANGED <<sqlVars, outboxVars, workerVars, inventoryVars>>
    <2>1. CASE \E h \in Hashes : Admit(h) \/ Refuse(h)
      BY <1>4, <2>1 DEF Admit, Refuse, Current
    <2>2. ASSUME NEW h \in Hashes, Include(h) PROVE SequenceInv'
      <3>1. Outstanding(h) /\ signer[h] \in Keys /\ fate[h] = "mempool" /\ ~Permitted(h)
        BY <2>2 DEF Include
      <3>2. \A g \in Hashes : Outstanding(g)' => Outstanding(g) /\ signer[g] # signer[h]
        BY <1>4, <2>2, <3>1 DEF Include
      <3>3. ASSUME NEW g \in Hashes, NEW t \in Txs, submission[t] = g, state[t] = "prepared"
            PROVE  signer[g] # signer[h]
        <4>1. Reserved(t) /\ signer[g] = account[t]
          BY <3>3, PreparedIsReserved
        <4>2. signer[h] = account[t] => submission[t] = h
          BY <3>1, <4>1, ReservedExcludes
        <4> QED BY <3>1, <3>3, <4>1, <4>2, OutstandingIsUndecided
      <3>4. sequence' = [sequence EXCEPT ![signer[h]] = @ + 1] /\ UNCHANGED <<signer, number>>
        BY <2>2 DEF Include
      <3>5. \A g \in Hashes : fate'[g] = IF g = h THEN "included" ELSE fate[g]
        BY <2>2 DEF Include
      <3>6. number[h] = sequence[signer[h]]
        BY <3>1
      <3> QED BY <1>4, <3>1, <3>2, <3>3, <3>4, <3>5, <3>6
    <2> QED BY <1>4, <2>1, <2>2 DEF Node
  <1>5. CASE LoseDatabase
    BY <1>5 DEF LoseDatabase, LoseTables, EndAll
  <1>6. CASE UNCHANGED vars
    BY <1>6 DEF vars
  <1> QED BY <1>1, <1>2, <1>3, <1>4, <1>5, <1>6 DEF Next

\* Bytes that are sent carry a sequence that only refused bytes had before.
LEMMA ReuseStep ==
  ASSUME TypeOK, FreshInv, SendsInv, KeyExclusive, SequenceInv, NoSequenceReuse, [Next]_vars
  PROVE  NoSequenceReuse'
<1> USE DEF TypeOK, ChainTypeOK, NoSequenceReuse, Sent
<1>1. CASE UNCHANGED chainVars
  BY <1>1
<1>2. ASSUME NEW w \in Workers, NEW h \in Hashes, Prepare(w, h) PROVE NoSequenceReuse'
  <2>1. sends[h] = 0
    BY <1>2 DEF Prepare, Sign, FreshInv, SendsInv
  <2>2. UNCHANGED <<sends, fate>>
    BY <1>2 DEF Prepare, Sign
  <2>3. \A g \in Hashes : g # h => signer'[g] = signer[g] /\ number'[g] = number[g]
    BY <1>2 DEF Prepare, Sign
  <2> QED BY <2>1, <2>2, <2>3
<1>3. ASSUME NEW w \in Workers, Broadcast(w) PROVE NoSequenceReuse'
  <2>1. saved[w] \in Hashes => Outstanding(saved[w])
    BY <1>3 DEF Broadcast, Outstanding, Permitted
  <2>2. /\ UNCHANGED <<signer, number>>
        /\ \A g \in Hashes : g # saved[w] => sends'[g] = sends[g] /\ fate'[g] = fate[g]
    BY <1>3 DEF Broadcast, Transmit
  <2>3. ASSUME NEW g \in Hashes, g # saved[w], saved[w] \in Hashes, Sent(g),
               signer[g] = signer[saved[w]], number[g] = number[saved[w]]
        PROVE  fate[g] = "refused"
    <3>1. ~Outstanding(g)
      BY <2>1, <2>3 DEF KeyExclusive
    <3>2. fate[g] # "included"
      BY <2>1, <2>3, FreshSigner DEF SequenceInv
    <3> QED BY <2>3, <3>1, <3>2 DEF Outstanding, SendsInv, Fates
  <2> QED BY <2>2, <2>3
<1>4. ASSUME NEW h \in Hashes, Admit(h) \/ Refuse(h) \/ Include(h) PROVE NoSequenceReuse'
  BY <1>4 DEF Admit, Refuse, Include
<1> QED BY <1>1, <1>2, <1>3, <1>4, ChainFrame

-----------------------------------------------------------------------------
(* Types, one part of the state at a time *)

\* Type correctness, one module at a time.
LEMMA ChainTypeStep ==
  ASSUME TypeOK, RowInv, FreshInv, SendsInv, LeaseInv, [Next]_vars
  PROVE  ChainTypeOK'
<1> USE DEF TypeOK, ChainTypeOK
<1>1. CASE UNCHANGED chainVars
  BY <1>1
<1>2. ASSUME NEW w \in Workers, NEW h \in Hashes, Prepare(w, h) PROVE ChainTypeOK'
  <2>1. account[job[w]] \in Keys
    BY <1>2 DEF Prepare, LeaseInv, RowFits, RowInv
  <2> QED BY <1>2, <2>1 DEF Prepare, Sign
<1>3. ASSUME NEW w \in Workers, Broadcast(w) PROVE ChainTypeOK'
  <2>1. saved[w] \in Hashes
    BY <1>3 DEF Broadcast, LeaseInv
  <2> QED BY <1>3, <2>1 DEF Broadcast, Transmit, Fates
<1>4. ASSUME NEW h \in Hashes, Admit(h) \/ Refuse(h) PROVE ChainTypeOK'
  BY <1>4 DEF Admit, Refuse, Fates
<1>5. ASSUME NEW h \in Hashes, Include(h) PROVE ChainTypeOK'
  <2>1. signer[h] \in Keys /\ sequence[signer[h]] + 1 \in Nat
    BY <1>5 DEF Include, FreshInv
  <2> QED BY <1>5, <2>1 DEF Include, Fates
<1> QED BY <1>1, <1>2, <1>3, <1>4, <1>5, ChainFrame

LEMMA SqlTypeStep ==
  ASSUME TypeOK, LeaseInv, [Next]_vars
  PROVE  SqlTypeOK'
<1> USE DEF TypeOK, SqlTypeOK, WorkerTypeOK
<1>1. CASE Queue
  BY <1>1 DEF Queue, Enqueue, Claim
<1>2. ASSUME NEW w \in Workers, WorkerStep(w) PROVE SqlTypeOK'
  <2>1. CASE UNCHANGED sqlVars
    BY <2>1
  <2>2. ASSUME NEW h \in Hashes, Prepare(w, h) PROVE SqlTypeOK'
    <3>1. SaveSigned(job[w], h)
      BY <2>2 DEF Prepare
    <3> QED BY <3>1 DEF SaveSigned
  <2>3. CASE Abort(w)
    BY <2>3 DEF Abort, AbortUnsent, Close
  <2>4. CASE Begin(w)
    BY <2>4 DEF Begin, BeginSubmission, MoveTo
  <2>5. CASE RecordUnknown(w) \/ Recover(w)
    BY <2>5 DEF RecordUnknown, Recover, MarkUnknown, MoveTo
  <2>6. CASE RecordAnswer(w)
    <3>1. Accept(job[w]) \/ Reject(job[w])
      BY <2>6 DEF RecordAnswer
    <3> QED BY <3>1 DEF Accept, Reject, MoveTo, Close
  <2>7. CASE Observe(w)
    BY <2>7 DEF Observe, Commit, MoveTo
  <2> QED BY <1>2, <2>1, <2>2, <2>3, <2>4, <2>5, <2>6, <2>7, WorkerFrame DEF Mark, Broadcast, FinishMarker, CrashInFinish
<1>3. ASSUME NEW i \in Sessions, InventoryStep(i) PROVE SqlTypeOK'
  <2>1. UNCHANGED key \/ SyncKeys \/ \E a \in Keys, s \in {"unverified", "ready", "held"} : SetKey(a, s)
    BY <1>3 DEF InventoryStep, StartInventory, EndRecords, EndInventory, StopInventory, ResolveRecord,
       SkipReserved, HoldOrphan, CrashInResolve, Looked, ReconcileKey, InvalidateKey
  <2> QED BY <1>3, <2>1, InventoryFrame DEF SyncKeys, SetKey
<1>4. CASE LoseDatabase
  BY <1>4, LossAssumption DEF LoseDatabase, LoseTables
<1> QED BY <1>1, <1>2, <1>3, <1>4 DEF Next, Node, vars

LEMMA OutboxTypeStep ==
  ASSUME TypeOK, RowInv, LeaseInv, [Next]_vars
  PROVE  OutboxTypeOK'
<1> USE DEF OutboxTypeOK
<1>0. OutboxTypeOK
  BY DEF TypeOK
<1>1. CASE UNCHANGED outboxVars
  BY <1>0, <1>1
<1>2. ASSUME NEW w \in Workers, WorkerStep(w) PROVE OutboxTypeOK'
  <2>1. CASE Mark(w)
    BY <1>0, <2>1 DEF Mark, JournalBegin, LeaseInv
  <2>2. CASE FinishMarker(w)
    BY <1>0, <2>2 DEF FinishMarker, JournalFinish
  <2>3. CASE CrashInFinish(w)
    BY <1>0, <2>3 DEF CrashInFinish, JournalHalfFinish
  <2> QED BY <1>1, <1>2, <2>1, <2>2, <2>3, WorkerFrame DEF Prepare, Abort, Begin, Broadcast, RecordUnknown, RecordAnswer, Recover, Observe
<1>3. ASSUME NEW i \in Sessions, InventoryStep(i) PROVE OutboxTypeOK'
  BY <1>0, <1>1, <1>3, JournalFrame DEF Unresolved, Completion
<1> QED BY <1>1, <1>2, <1>3 DEF Next, Queue, Node, LoseDatabase, vars

LEMMA WorkerTypeStep ==
  ASSUME TypeOK, [Next]_vars
  PROVE  WorkerTypeOK'
<1> USE DEF WorkerTypeOK
<1>0. WorkerTypeOK
  BY DEF TypeOK
<1>1. CASE UNCHANGED workerVars
  BY <1>0, <1>1
<1>2. ASSUME NEW w \in Workers, WorkerStep(w) PROVE WorkerTypeOK'
  <2>1. CASE \E t \in Txs : Open(w, t)
    BY <1>0, <2>1 DEF Open, Resume, TypeOK, SqlTypeOK
  <2>2. CASE \E h \in Hashes : Prepare(w, h)
    BY <1>0, <2>2 DEF Prepare
  <2>3. CASE Disconnect(w)
    BY <1>0, <2>3 DEF Disconnect
  <2>4. CASE Return(w)
    BY <1>0, <2>4
  <2>5. ASSUME NEW next \in {"abort", "mark", "begin", "send", "wait", "timedOut", "admitted",
                             "refused", "observe"} \cup Outcomes, Goto(w, next)
        PROVE  WorkerTypeOK'
    BY <1>0, <2>5
  <2> QED
    BY <1>2, <2>1, <2>2, <2>3, <2>4, <2>5 DEF WorkerStep, Stop, Preflight, Invalid, Abort, Mark,
       Begin, Broadcast, Answer, NoAnswer, RecordUnknown, RecordAnswer, Recover, Observe,
       FinishMarker, CrashInFinish
<1>3. ASSUME NEW i \in Sessions, InventoryStep(i) PROVE WorkerTypeOK'
  BY <1>1, <1>3, InventoryFrame
<1>4. CASE LoseDatabase
  BY <1>0, <1>4 DEF LoseDatabase
<1> QED BY <1>1, <1>2, <1>3, <1>4 DEF Next, Queue, Node, vars

LEMMA InventoryTypeStep ==
  ASSUME TypeOK, [Next]_vars
  PROVE  InventoryTypeOK'
<1> USE DEF InventoryTypeOK
<1>0. InventoryTypeOK /\ pending \in SUBSET Hashes
  BY DEF TypeOK, OutboxTypeOK
<1>1. CASE UNCHANGED inventoryVars
  BY <1>0, <1>1
<1>2. ASSUME NEW i \in Sessions, InventoryStep(i) PROVE InventoryTypeOK'
  <2>1. CASE StartInventory(i)
    <3>1. Unresolved \in SUBSET Hashes /\ Pages(Unresolved) \subseteq SUBSET Hashes
      BY <1>0 DEF Unresolved, Pages
    <3> QED BY <1>0, <2>1, <3>1 DEF StartInventory
  <2>2. CASE End(i)
    BY <1>0, <2>2 DEF End
  <2>3. CASE EndRecords(i)
    BY <1>0, <2>3 DEF EndRecords
  <2>4. CASE \E h \in Hashes : Looked(i, h) /\ (Release(i, h) \/ UNCHANGED held)
    BY <1>0, <2>4 DEF Looked, Release
  <2>5. CASE \E a \in Keys : Checked(i, a)
    BY <1>0, <2>5 DEF Checked
  <2> QED BY <1>2, <2>1, <2>2, <2>3, <2>4, <2>5 DEF InventoryStep, EndInventory, StopInventory, ResolveRecord, SkipReserved, HoldOrphan, CrashInResolve, ReconcileKey, InvalidateKey
<1>3. CASE LoseDatabase
  BY <1>3 DEF LoseDatabase, EndAll
<1> QED BY <1>1, <1>2, <1>3 DEF Next, Queue, Node, vars


-----------------------------------------------------------------------------
(* The invariant *)

\* The invariant holds at the start.
LEMMA InitInv == Init => IInv
<1> SUFFICES ASSUME Init PROVE IInv
  OBVIOUS
<1> USE IdentityAssumption DEF Init, ChainInit, SqlInit, OutboxInit, WorkerInit, InventoryInit,
        TypeOK, ChainTypeOK, SqlTypeOK, OutboxTypeOK, WorkerTypeOK, InventoryTypeOK
<1>1. TypeOK
  BY LossAssumption
<1>2. RowInv /\ FreshInv /\ SendsInv
  BY DEF RowInv, FreshInv, SendsInv
<1>3. UniqueInv /\ AgreeInv /\ SqlTruth
  BY DEF UniqueInv, Reserved, AgreeInv, SqlTruth
<1>4. LeaseInv /\ VerdictInv /\ PermitInv
  BY DEF LeaseInv, VerdictInv, PermitInv
<1>5. \A h \in Hashes : ~Outstanding(h) /\ ~Sent(h) /\ ~Permitted(h)
  <2> SUFFICES ASSUME NEW h \in Hashes PROVE ~Outstanding(h) /\ ~Sent(h) /\ ~Permitted(h)
    OBVIOUS
  <2>1. fate[h] = "unsent" /\ sends[h] = 0
    OBVIOUS
  <2>2. ~Permitted(h)
    BY DEF Permitted
  <2> QED BY <2>1, <2>2 DEF Outstanding, Sent
<1>6. JournalTruth /\ OrphanInv /\ KeyExclusive /\ NoSequenceReuse
  BY <1>5 DEF JournalTruth, OrphanInv, KeyExclusive, NoSequenceReuse
<1>7. SequenceInv
  BY <1>5 DEF SequenceInv, MatchingSubmission
<1> QED BY <1>1, <1>2, <1>3, <1>4, <1>6, <1>7 DEF IInv

\* Every step of the composition keeps the invariant.
LEMMA StepInv == IInv /\ [Next]_vars => IInv'
<1> SUFFICES ASSUME IInv, [Next]_vars PROVE IInv'
  OBVIOUS
<1> USE DEF IInv
<1>1. TypeOK'
  BY ChainTypeStep, SqlTypeStep, OutboxTypeStep, WorkerTypeStep, InventoryTypeStep DEF TypeOK
<1>2. RowInv' /\ UniqueInv' /\ FreshInv' /\ SendsInv' /\ LeaseInv'
  BY RowStep, UniqueStep, FreshStep, SendsStep, LeaseStep
<1>3. VerdictInv' /\ PermitInv' /\ AgreeInv' /\ JournalTruth' /\ SqlTruth'
  BY VerdictStep, PermitStep, AgreeStep, JournalStep, SqlTruthStep
<1>4. OrphanInv' /\ KeyExclusive' /\ SequenceInv' /\ NoSequenceReuse'
  BY OrphanStep, KeyStep, SequenceStep, ReuseStep
<1> QED BY <1>1, <1>2, <1>3, <1>4

\* The inductive invariant holds in every reachable state.
THEOREM Invariance == Spec => []IInv
  BY InitInv, StepInv, PTL DEF Spec

-----------------------------------------------------------------------------
(* What the invariant gives *)

\* Every variable keeps its type.
THEOREM TypeCorrect == Spec => []TypeOK
<1>1. IInv => TypeOK
  BY DEF IInv
<1> QED BY Invariance, <1>1, PTL

\* Whatever is lost, killed or retried, signed bytes are put on the wire at
\* most once (worker.py:90-98).
THEOREM SentAtMostOnce == Spec => []AtMostOneSend
<1>1. IInv => AtMostOneSend
  BY DEF IInv, SendsInv, AtMostOneSend
<1> QED BY Invariance, <1>1, PTL

\* Bytes that were or may be sent have a marker on the key volume, and a
\* completed marker names what happened to them (durable.py:79-112).
THEOREM JournalIsTrue == Spec => []JournalTruth
<1>1. IInv => JournalTruth
  BY DEF IInv
<1> QED BY Invariance, <1>1, PTL

\* SQL's terminal states are true of the bytes they are recorded for
\* (worker.py:47-59, 80-106).
THEOREM SqlIsTrue == Spec => []SqlTruth
<1>1. IInv => SqlTruth
  BY DEF IInv
<1> QED BY Invariance, <1>1, PTL

\* A key has at most one attempt that may still reach a block, also across the
\* loss of the database (durable.py:114-169, store.py:134-140).
THEOREM KeyIsExclusive == Spec => []KeyExclusive
<1>1. IInv => KeyExclusive
  BY DEF IInv
<1> QED BY Invariance, <1>1, PTL

\* The worker never races itself for an account sequence: of two sends with
\* one sequence the node refused one (signer.py:236-243).
THEOREM SequenceNotReused == Spec => []NoSequenceReuse
<1>1. IInv => NoSequenceReuse
  BY DEF IInv
<1> QED BY Invariance, <1>1, PTL

\* A completion is written with the outcome that the fate of the bytes allows.
LEMMA CompletionStays ==
  ASSUME IInv, [Next]_vars, NEW h \in Hashes, completed[h] # "none"
  PROVE  completed[h]' = completed[h]
<1>1. IInv'
  BY StepInv
<1>2. ASSUME UNCHANGED chainVars, completed'[h] \in Outcomes
      PROVE  completed[h]' = completed[h]
  <2>1. completed[h] \in Outcomes
    BY DEF IInv, TypeOK, OutboxTypeOK
  <2>2. /\ completed[h] = "committed" => fate[h] = "included"
        /\ completed[h] = "rejected" => fate[h] = "refused"
        /\ completed[h] = "cancelled" => sends[h] = 0
    BY DEF IInv, JournalTruth, Sent, TypeOK, ChainTypeOK
  <2>3. /\ completed'[h] = "committed" => fate'[h] = "included"
        /\ completed'[h] = "rejected" => fate'[h] = "refused"
        /\ completed'[h] = "cancelled" => sends'[h] = 0
    BY <1>1 DEF IInv, JournalTruth, Sent, TypeOK, ChainTypeOK
  <2>4. sends[h] = 0 => fate[h] = "unsent"
    BY DEF IInv, SendsInv
  <2> QED BY <1>2, <2>1, <2>2, <2>3, <2>4
<1>3. CASE \E w \in Workers : FinishMarker(w) \/ CrashInFinish(w)
  <2>1. UNCHANGED chainVars /\ completed'[h] \in Outcomes
    BY <1>1, <1>3 DEF FinishMarker, CrashInFinish, JournalFinish, JournalHalfFinish,
       IInv, TypeOK, OutboxTypeOK
  <2> QED BY <1>2, <2>1
<1>4. CASE \E i \in Sessions : InventoryStep(i)
  <2>1. UNCHANGED chainVars /\ completed'[h] \in Outcomes
    BY <1>1, <1>4, InventoryFrame, JournalFrame DEF Completion, IInv, TypeOK, OutboxTypeOK
  <2> QED BY <1>2, <2>1
<1>5. CASE ~\E i \in Sessions : InventoryStep(i)
  <2>1. UNCHANGED completed \/ \E w \in Workers : FinishMarker(w) \/ CrashInFinish(w)
    BY <1>5, WorkerFrame DEF Next, Queue, Node, LoseDatabase, vars, Prepare, Abort, Mark,
       JournalBegin, Begin, Broadcast, RecordUnknown, RecordAnswer, Recover, Observe
  <2> QED BY <1>3, <2>1
<1> QED BY <1>4, <1>5

\* A completed record keeps its outcome, and its bytes are neither permitted
\* nor sent again (durable.py:92-93, 99-112).
THEOREM VerdictStays == Spec => VerdictIsFinal
<1> DEFINE Over(h) == completed[h] # "none" =>
                        /\ completed[h]' = completed[h]
                        /\ sends[h]' = sends[h] /\ ~Permitted(h)'
<1>1. IInv /\ IInv' /\ [Next]_vars => [\A h \in Hashes : Over(h)]_vars
  <2> SUFFICES ASSUME IInv, IInv', [Next]_vars, NEW h \in Hashes, completed[h] # "none"
               PROVE  /\ completed[h]' = completed[h]
                      /\ sends[h]' = sends[h] /\ ~Permitted(h)'
    OBVIOUS
  <2>1. completed[h]' = completed[h]
    BY CompletionStays
  <2>2. ~Permitted(h) /\ ~Permitted(h)'
    BY <2>1 DEF IInv, JournalTruth, TypeOK, OutboxTypeOK, PermitInv, SendsInv, Permitted
  <2>3. sends[h]' = sends[h]
    <3>1. ASSUME NEW w \in Workers, Broadcast(w) PROVE saved[w] \in Hashes /\ saved[w] # h
      BY <2>2, <3>1 DEF Broadcast, Permitted, IInv, LeaseInv
    <3> QED
      BY <3>1, ChainFrame
      DEF Broadcast, Transmit, Prepare, Sign, Admit, Refuse, Include, IInv, TypeOK, ChainTypeOK
  <2> QED BY <2>1, <2>2, <2>3
<1> QED BY <1>1, Invariance, PTL DEF Spec, VerdictIsFinal

\* A key that SQL would hand out has no attempt that may still reach a block
\* (inventory.py:26-52).
THEOREM FreeKeyIsFree == Spec => []FreeKeyIsQuiet
<1>1. IInv => FreeKeyIsQuiet
  <2> SUFFICES ASSUME IInv, NEW h \in Hashes, Outstanding(h), key[signer[h]] = "ready"
               PROVE  Busy(signer[h])
    BY DEF FreeKeyIsQuiet
  <2>1. PICK t \in Txs : submission[t] = h
    BY DEF IInv, OrphanInv, MatchingSubmission
  <2>2. state[t] \in Undecided /\ row[t] = "active" /\ signer[h] = account[t]
    BY <2>1, OutstandingIsUndecided DEF IInv
  <2> QED BY <2>2 DEF Busy, Reserved
<1> QED BY Invariance, <1>1, PTL
==============================================================================
