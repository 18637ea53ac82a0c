--------------------------- MODULE SendRefinement ---------------------------
(***************************************************************************)
(* The send path implements OneAttempt, for any number of bytes, keys,     *)
(* rows, workers, inventory runs and database losses.                      *)
(***************************************************************************)
EXTENDS SendProofs

USE DEF Outcomes, Undecided, Fates, Goto, Return,
        chainVars, sqlVars, outboxVars, workerVars, inventoryVars

\* The four cases of an attempt exclude each other.
LEMMA AttemptCases ==
  ASSUME IInv, NEW h \in Hashes
  PROVE  /\ Permitted(h) => fate[h] = "unsent" /\ sends[h] = 0 /\ AttemptOf(h) = "granted"
         /\ ~Permitted(h) /\ fate[h] = "unsent" => AttemptOf(h) = "none"
         /\ fate[h] \in {"wire", "mempool"} => AttemptOf(h) = "sent"
         /\ fate[h] \in {"refused", "included"} => AttemptOf(h) = "over"
<1>1. Permitted(h) => sends[h] = 0 /\ fate[h] = "unsent"
  BY DEF IInv, PermitInv, SendsInv, Permitted
<1>2. fate[h] \in Fates
  BY DEF IInv, TypeOK, ChainTypeOK
<1> QED BY <1>1, <1>2 DEF AttemptOf

\* Bytes that may still reach a block are an open attempt.
LEMMA OpenIsOutstanding ==
  ASSUME IInv, NEW h \in Hashes, AttemptOf(h) \in {"granted", "sent"}
  PROVE  Outstanding(h)
<1>1. fate[h] \in Fates
  BY DEF IInv, TypeOK, ChainTypeOK
<1> QED BY <1>1, AttemptCases DEF Outstanding

LEMMA AttemptStays ==
  ASSUME NEW h \in Hashes, Permitted(h)' <=> Permitted(h), fate'[h] = fate[h]
  PROVE  AttemptOf(h)' = AttemptOf(h)
BY DEF AttemptOf

\* A permit is lost by its use or with its holder only.
LEMMA PermitStays ==
  ASSUME IInv, [Next]_vars, NEW h \in Hashes, Permitted(h), ~Permitted(h)'
  PROVE  \E w \in Workers : pc[w] = "send" /\ saved[w] = h /\ (Broadcast(w) \/ Stop(w))
<1>1. PICK w \in Workers : pc[w] = "send" /\ saved[w] = h
  BY DEF Permitted
<1>2. ~(pc'[w] = "send" /\ saved'[w] = h)
  BY DEF Permitted
<1> USE DEF IInv, TypeOK, WorkerTypeOK
<1>3. CASE \E v \in Workers : WorkerStep(v)
  <2>1. PICK v \in Workers : WorkerStep(v)
    BY <1>3
  <2>2. v = w
    BY <1>1, <1>2, <2>1 DEF WorkerStep, Open, Prepare, Stop, Disconnect, Preflight, Invalid, Abort,
       Mark, Begin, Broadcast, Answer, NoAnswer, RecordUnknown, RecordAnswer, Recover, Observe,
       FinishMarker, CrashInFinish
  <2>3. ~Disconnect(w)
    BY <1>1, <1>2 DEF Disconnect
  <2> QED BY <1>1, <2>1, <2>2, <2>3 DEF WorkerStep, Open, Prepare, Preflight, Invalid, Abort,
       Mark, Begin, Answer, NoAnswer, RecordUnknown, RecordAnswer, Recover, Observe,
       FinishMarker, CrashInFinish
<1>4. CASE \E i \in Sessions : InventoryStep(i)
  BY <1>1, <1>2, <1>4, InventoryFrame
<1> QED BY <1>1, <1>2, <1>3, <1>4 DEF Next, Queue, Node, LoseDatabase, vars

-----------------------------------------------------------------------------
(* One lemma for each step of the send path that moves an attempt. *)

LEMMA PrepareSigns ==
  ASSUME IInv, NEW w \in Workers, NEW h \in Hashes, Prepare(w, h)
  PROVE  Attempts!Sign(h, account[job[w]]) /\ account[job[w]] \in Keys
<1>1. account[job[w]] \in Keys
  BY DEF Prepare, SaveSigned, IInv, RowInv, LeaseInv
<1>2. \A g \in Hashes : (Permitted(g)' <=> Permitted(g)) /\ fate'[g] = fate[g]
  BY DEF Prepare, Sign, Permitted, IInv, TypeOK, WorkerTypeOK
<1> QED BY <1>1, <1>2, AttemptStays DEF Prepare, Sign, Attempts!Sign

\* The key is free: a row that reserves it has the only outstanding bytes, and
\* they are this row's.
LEMMA BeginGrants ==
  ASSUME IInv, NEW w \in Workers, Begin(w)
  PROVE  saved[w] \in Hashes /\ Attempts!Grant(saved[w])
<1> DEFINE h == saved[w]
<1>1. /\ job[w] \in Txs /\ Reserved(job[w]) /\ h = submission[job[w]] /\ h \in Hashes
      /\ account[job[w]] = signer[h] /\ state[job[w]] = "prepared"
  BY PreparedIsReserved DEF Begin, BeginSubmission, IInv, LeaseInv, TypeOK, WorkerTypeOK
<1>2. ~Sent(h) /\ ~Permitted(h) /\ sends[h] = 0 /\ fate[h] = "unsent"
  BY <1>1, IdentityAssumption DEF IInv, SqlTruth, SendsInv, Sent, TypeOK, ChainTypeOK
<1>3. AttemptOf(h) = "none" /\ signer[h] # None
  BY <1>1, <1>2, AttemptCases, IdentityAssumption DEF IInv, FreshInv
<1>4. ASSUME NEW g \in Hashes, signer[g] = signer[h], AttemptOf(g) \in {"granted", "sent"}
      PROVE  FALSE
  <2>1. Outstanding(g)
    BY <1>4, OpenIsOutstanding
  <2>2. g = h
    BY <1>1, <1>4, <2>1, ReservedExcludes DEF IInv
  <2> QED BY <1>3, <1>4, <2>2
<1>5. UNCHANGED chainVars /\ pc' = [pc EXCEPT ![w] = "send"] /\ saved' = saved /\ pc[w] = "begin"
  BY DEF Begin, BeginSubmission, MoveTo
<1>6. \A g \in Hashes : Permitted(g)' <=> Permitted(g) \/ g = h
  BY <1>5 DEF Permitted, IInv, TypeOK, WorkerTypeOK
<1>7. \A g \in Hashes \ {h} : AttemptOf(g)' = AttemptOf(g)
  BY <1>5, <1>6, AttemptStays
<1>8. AttemptOf(h)' = "granted"
  BY <1>1, <1>2, <1>5, <1>6 DEF AttemptOf
<1>9. [g \in Hashes |-> AttemptOf(g)]' = [[g \in Hashes |-> AttemptOf(g)] EXCEPT ![h] = "granted"]
  <2>1. \A g \in Hashes : AttemptOf(g)' = IF g = h THEN "granted" ELSE AttemptOf(g)
    BY <1>5, <1>7, <1>8
  <2> QED BY <2>1
<1> QED BY <1>1, <1>2, <1>3, <1>4, <1>5, <1>9 DEF Attempts!Grant, Attempts!Open

LEMMA BroadcastSends ==
  ASSUME IInv, NEW w \in Workers, Broadcast(w), NEW h \in Hashes, h = saved[w]
  PROVE  Attempts!Send(h)
<1>1. /\ pc[w] = "send" /\ Permitted(h) /\ pc' = [pc EXCEPT ![w] = "wait"] /\ saved' = saved
      /\ signer' = signer /\ sends' = [sends EXCEPT ![h] = @ + 1]
      /\ fate' = [fate EXCEPT ![h] = IF @ = "unsent" THEN "wire" ELSE @]
  BY DEF Broadcast, Transmit, Permitted
<1>2. AttemptOf(h) = "granted" /\ fate[h] = "unsent"
  BY <1>1, AttemptCases
<1>3. ~Permitted(h)'
  BY <1>1 DEF Permitted, IInv, PermitInv, TypeOK, WorkerTypeOK
<1>4. \A g \in Hashes \ {h} : Permitted(g)' <=> Permitted(g)
  BY <1>1 DEF Permitted, IInv, TypeOK, WorkerTypeOK
<1>5. fate'[h] = "wire" /\ \A g \in Hashes \ {h} : fate'[g] = fate[g]
  BY <1>1, <1>2 DEF IInv, TypeOK, ChainTypeOK
<1>6. AttemptOf(h)' = "sent"
  BY <1>3, <1>5 DEF AttemptOf
<1>7. \A g \in Hashes : AttemptOf(g)' = IF g = h THEN "sent" ELSE AttemptOf(g)
  BY <1>4, <1>5, <1>6, AttemptStays
<1> QED BY <1>1, <1>2, <1>7 DEF Attempts!Send

LEMMA StopForfeits ==
  ASSUME IInv, NEW w \in Workers, Stop(w), pc[w] = "send", NEW h \in Hashes, h = saved[w]
  PROVE  Attempts!Forfeit(h)
<1>1. /\ Permitted(h) /\ pc' = [pc EXCEPT ![w] = "idle"] /\ saved' = [saved EXCEPT ![w] = None]
      /\ signer' = signer /\ sends' = sends /\ fate' = fate
  BY DEF Stop, Permitted
<1>2. AttemptOf(h) = "granted" /\ fate[h] = "unsent"
  BY <1>1, AttemptCases
<1>3. ~Permitted(h)'
  BY <1>1 DEF Permitted, IInv, PermitInv, TypeOK, WorkerTypeOK
<1>4. \A g \in Hashes \ {h} : Permitted(g)' <=> Permitted(g)
  BY <1>1 DEF Permitted, IInv, TypeOK, WorkerTypeOK
<1>5. AttemptOf(h)' = "none"
  BY <1>1, <1>2, <1>3 DEF AttemptOf
<1>6. \A g \in Hashes : AttemptOf(g)' = IF g = h THEN "none" ELSE AttemptOf(g)
  BY <1>1, <1>4, <1>5, AttemptStays
<1> QED BY <1>1, <1>2, <1>6 DEF Attempts!Forfeit

\* A step of the node is no step of a worker.
LEMMA NodeAlone ==
  ASSUME IInv, [Next]_vars, NEW h \in Hashes, Admit(h) \/ Refuse(h) \/ Include(h)
  PROVE  UNCHANGED workerVars
<1>1. fate' # fate /\ sends' = sends /\ signer' = signer
  BY DEF Admit, Refuse, Include, IInv, TypeOK, ChainTypeOK
<1>2. ASSUME NEW w \in Workers, WorkerStep(w) PROVE FALSE
  <2>1. ~Broadcast(w)
    BY <1>1 DEF Broadcast, Transmit, IInv, TypeOK, ChainTypeOK, LeaseInv
  <2>2. ~\E g \in Hashes : Prepare(w, g)
    BY <1>1 DEF Prepare, Sign
  <2> QED BY <1>1, <1>2, <2>1, <2>2, WorkerFrame
          DEF Abort, Mark, Begin, RecordUnknown, RecordAnswer, Recover, Observe, FinishMarker, CrashInFinish
<1>3. ~\E i \in Sessions : InventoryStep(i)
  BY <1>1, InventoryFrame
<1> QED BY <1>1, <1>2, <1>3 DEF Next, Queue, LoseDatabase, vars

\* An admission is not yet a decision.
LEMMA NodeDecides ==
  ASSUME IInv, NEW h \in Hashes, Admit(h) \/ Refuse(h) \/ Include(h), UNCHANGED workerVars
  PROVE  Attempts!Decide(h) \/ UNCHANGED Attempts!vars
<1>1. \A g \in Hashes : Permitted(g)' <=> Permitted(g)
  BY DEF Permitted
<1>2. /\ signer' = signer /\ sends' = sends /\ fate[h] \in {"wire", "mempool"}
      /\ \A g \in Hashes \ {h} : fate'[g] = fate[g]
      /\ fate'[h] \in {"mempool", "refused", "included"}
  BY DEF Admit, Refuse, Include, IInv, TypeOK, ChainTypeOK
<1>3. AttemptOf(h) = "sent" /\ ~Permitted(h)
  BY <1>2, AttemptCases
<1>4. AttemptOf(h)' = IF fate'[h] = "mempool" THEN "sent" ELSE "over"
  BY <1>1, <1>2, <1>3 DEF AttemptOf
<1>5. \A g \in Hashes : AttemptOf(g)' = IF g = h THEN AttemptOf(h)' ELSE AttemptOf(g)
  BY <1>1, <1>2, AttemptStays
<1>6. CASE fate'[h] = "mempool"
  BY <1>2, <1>3, <1>4, <1>5, <1>6 DEF Attempts!vars
<1>7. CASE fate'[h] # "mempool"
  BY <1>2, <1>3, <1>4, <1>5, <1>7 DEF Attempts!Decide
<1> QED BY <1>6, <1>7

\* What moves neither the bytes nor a permit moves no attempt.
LEMMA OthersStutter ==
  ASSUME IInv, [Next]_vars, UNCHANGED chainVars,
         ~\E w \in Workers : Begin(w), ~\E w \in Workers : Stop(w) /\ pc[w] = "send"
  PROVE  UNCHANGED Attempts!vars
<1>1. ~\E w \in Workers : pc[w] = "send" /\ Broadcast(w)
  BY DEF Broadcast, Transmit, IInv, TypeOK, ChainTypeOK, WorkerTypeOK, LeaseInv, SendsInv
<1>2. \A h \in Hashes : Permitted(h)' <=> Permitted(h)
  BY <1>1, PermitFrame, PermitStays DEF IInv
<1>3. \A h \in Hashes : AttemptOf(h)' = AttemptOf(h)
  BY <1>2, AttemptStays
<1> QED BY <1>3 DEF Attempts!vars

-----------------------------------------------------------------------------
(* The theorem *)

\* Every step of the send path is a step of OneAttempt or leaves it alone: whatever
\* the interleaving, a key is granted to one attempt at a time, and each grant is used
\* once (worker.py:88-98, store.py:134-140).
THEOREM Refinement == Spec => ImplementsOneAttempt
<1>1. Init => Attempts!Init
  BY DEF Init, ChainInit, WorkerInit, Attempts!Init, AttemptOf, Permitted
<1>2. IInv /\ [Next]_vars => [Attempts!Next]_(Attempts!vars)
  <2> SUFFICES ASSUME IInv, [Next]_vars
               PROVE  Attempts!Next \/ UNCHANGED Attempts!vars
    OBVIOUS
  <2>1. ASSUME NEW w \in Workers, NEW h \in Hashes, Prepare(w, h) PROVE Attempts!Next
    BY <2>1, PrepareSigns DEF Attempts!Next
  <2>2. ASSUME NEW w \in Workers, Begin(w) PROVE Attempts!Next
    BY <2>2, BeginGrants DEF Attempts!Next
  <2>3. ASSUME NEW w \in Workers, Broadcast(w) PROVE Attempts!Next
    <3>1. saved[w] \in Hashes
      BY <2>3 DEF Broadcast, IInv, LeaseInv
    <3> QED BY <2>3, <3>1, BroadcastSends DEF Attempts!Next
  <2>4. ASSUME NEW w \in Workers, Stop(w), pc[w] = "send" PROVE Attempts!Next
    <3>1. saved[w] \in Hashes
      BY <2>4 DEF IInv, LeaseInv
    <3> QED BY <2>4, <3>1, StopForfeits DEF Attempts!Next
  <2>5. CASE \E h \in Hashes : Admit(h) \/ Refuse(h) \/ Include(h)
    <3>1. UNCHANGED workerVars
      BY <2>5, NodeAlone
    <3> QED BY <2>5, <3>1, NodeDecides DEF Attempts!Next
  <2> QED BY <2>1, <2>2, <2>3, <2>4, <2>5, OthersStutter, ChainFrame
<1> QED BY <1>1, <1>2, Invariance, PTL DEF Spec, ImplementsOneAttempt, Attempts!Spec
==============================================================================
