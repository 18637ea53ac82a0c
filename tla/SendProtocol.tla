---------------------------- MODULE SendProtocol -----------------------------
(***************************************************************************)
(* The whole send path: the queue, the workers, the journal, the key       *)
(* inventory, the node, and the loss of the database.                      *)
(***************************************************************************)
EXTENDS Inventory

vars == <<chainVars, sqlVars, outboxVars, workerVars, inventoryVars>>

TypeOK ==
    ChainTypeOK /\ SqlTypeOK /\ OutboxTypeOK /\ WorkerTypeOK /\ InventoryTypeOK

Init == ChainInit /\ SqlInit /\ OutboxInit /\ WorkerInit /\ InventoryInit

Queue ==
    /\ \E t \in Txs : Enqueue(t) \/ \E a \in Keys : Claim(t, a)
    /\ UNCHANGED <<chainVars, outboxVars, workerVars, inventoryVars>>

\* Every session dies with the database.  Workers learn it at their next SQL
\* call and may still write markers and bytes before; inventory runs end.
LoseDatabase ==
    /\ LoseTables
    /\ live' = [w \in Workers |-> FALSE]
    /\ EndAll
    /\ UNCHANGED <<chainVars, outboxVars, pc, job, saved>>

Next ==
    \/ Queue
    \/ \E w \in Workers : WorkerStep(w) /\ UNCHANGED inventoryVars
    \/ \E i \in Sessions : InventoryStep(i)
    \/ Node /\ UNCHANGED <<sqlVars, outboxVars, workerVars, inventoryVars>>
    \/ LoseDatabase

Spec == Init /\ [][Next]_vars

-----------------------------------------------------------------------------
(* Safety *)

Sent(h) == sends[h] > 0

\* A worker holds the permit for h and has not used it yet.
Permitted(h) == \E w \in Workers : pc[w] = "send" /\ saved[w] = h

\* The bytes may still reach a block.
Outstanding(h) == fate[h] \in {"wire", "mempool"} \/ Permitted(h)

\* Signed bytes are put on the wire at most once, whatever is lost, killed or
\* retried (worker.py:90-98: only a confirmed TRUE grants this one attempt).
AtMostOneSend == \A h \in Hashes : sends[h] <= 1

\* The journal tells the truth about every send: bytes that were or may be
\* sent have a marker, and a completed record names what really happened to
\* them (durable.py:80-82, 99-103).
JournalTruth ==
    \A h \in Hashes :
        /\ (Sent(h) \/ Permitted(h)) /\ completed[h] = "none" => h \in pending
        /\ completed[h] = "committed" => fate[h] = "included"
        /\ completed[h] = "rejected" => fate[h] = "refused"
        /\ completed[h] = "cancelled" => ~Sent(h) /\ ~Permitted(h)

\* SQL's terminal states are true of the bytes they are recorded for, so the
\* queue never reports a cancelled row whose bytes went out
\* (worker.py:80-86: SQL refuses cancellation after a send marker).
SqlTruth ==
    \A t \in Txs : submission[t] # None =>
        LET h == submission[t] IN
        /\ state[t] = "committed" => fate[h] = "included"
        /\ state[t] = "rejected" => fate[h] = "refused"
        /\ state[t] \in {"none", "prepared", "cancelled"} => ~Sent(h) /\ ~Permitted(h)

\* A key has at most one attempt that may still reach a block, also across the
\* loss of the database (README: keys remain reserved until definitive
\* evidence; unresolved sends survive database loss through the journal).
KeyExclusive ==
    \A g, h \in Hashes :
        Outstanding(g) /\ Outstanding(h) /\ signer[g] = signer[h] => g = h

\* A key SQL would hand out has no attempt that may still reach a block.
FreeKeyIsQuiet ==
    \A a \in Keys : key[a] = "ready" /\ ~Busy(a) =>
        ~\E h \in Hashes : signer[h] = a /\ Outstanding(h)

\* Two byte strings with one account sequence are both sent only if the node
\* refused the first: the worker never races itself for a sequence.
NoSequenceReuse ==
    \A g, h \in Hashes :
        /\ g # h /\ Sent(g) /\ Sent(h)
        /\ signer[g] = signer[h] /\ number[g] = number[h]
        => fate[g] = "refused" \/ fate[h] = "refused"

\* A completed record is the end of its bytes: another outcome never replaces
\* it, and no permit and no send follow, whoever finishes late or after a crash
\* that left the pending file too (durable.py:92-93, 99-112).
VerdictIsFinal ==
    [][\A h \in Hashes : completed[h] # "none" =>
          /\ completed[h]' = completed[h]
          /\ sends[h]' = sends[h] /\ ~Permitted(h)']_vars

\* An identity that SQL still reserves does not by itself hold its key in an
\* inventory pass: reload must not turn a normal busy key into an orphan
\* (durable.py:157-159).
BusyKeyIsNotHeld ==
    \A i \in Sessions : stage[i] = "keys" =>
        \A h \in held[i] : ~\E t \in MatchingSubmission(h) : Reserved(t)

-----------------------------------------------------------------------------
(* Refinement: the attempts behind the bytes, as OneAttempt sees them. *)

AttemptOf(h) ==
    CASE Permitted(h)                       -> "granted"
      [] fate[h] \in {"wire", "mempool"}    -> "sent"
      [] fate[h] \in {"refused", "included"} -> "over"
      [] OTHER                              -> "none"

Attempts == INSTANCE OneAttempt WITH attempt <- [h \in Hashes |-> AttemptOf(h)]

\* Every step of the send path is a step of OneAttempt or leaves it alone:
\* grants never overlap on a key and no grant is used twice, for every
\* interleaving, crash and loss of the database.
ImplementsOneAttempt == Attempts!Spec

-----------------------------------------------------------------------------
(* Liveness.  The supervisor visits every recoverable row and repeats the   *)
(* inventory for as long as it runs (runtime.py:67-116, 133-171), each call *)
(* has a timeout, and node and database answer again eventually.  Nothing   *)
(* is assumed of the queue, of the chain, or of new sends.                  *)

WorkerFairness(w) ==
    /\ WF_vars(pc[w] # "idle" /\ WorkerStep(w) /\ UNCHANGED inventoryVars)
    /\ SF_vars(\E t \in Txs : Open(w, t) /\ UNCHANGED inventoryVars)
    /\ SF_vars(Recover(w) /\ UNCHANGED inventoryVars)
    /\ SF_vars(Observe(w) /\ UNCHANGED inventoryVars)

InventoryFairness(i) ==
    /\ WF_vars(StartInventory(i))
    /\ \A h \in Hashes :
        /\ SF_vars(ResolveRecord(i, h))
        /\ SF_vars(SkipReserved(i, h) \/ HoldOrphan(i, h))
    /\ SF_vars(EndRecords(i))
    /\ \A a \in Keys : SF_vars(ReconcileKey(i, a))
    /\ WF_vars(InventoryStep(i))

LiveSpec ==
    /\ Spec
    /\ \A w \in Workers : WorkerFairness(w)
    /\ \A i \in Sessions : InventoryFairness(i)

\* The marker of bytes that reached a block does not stay pending, whoever
\* sent them and whatever was lost since (durable.py:114-169).
IncludedIsSettled ==
    \A h \in Hashes : (h \in pending /\ Included(h)) ~> (h \notin pending)

\* A row whose bytes reached a block becomes committed, unless its database is
\* lost first (store.py:39-49, worker.py:47-59).
IncludedIsCommitted ==
    \A t \in Txs, n \in 0..MaxLosses :
        (losses = n /\ state[t] \in Undecided /\ Included(submission[t]))
            ~> (losses # n \/ state[t] = "committed")

OnlyIncludedMarkers(a) == \A h \in pending : signer[h] = a => Included(h)

\* A held key comes back once every send its markers stand for is in a block
\* (durable.py:162-169, inventory.py:47-48).
HeldKeyComesBack ==
    \A a \in Keys :
        (key[a] = "held" /\ OnlyIncludedMarkers(a))
            ~> (key[a] = "ready" \/ ~OnlyIncludedMarkers(a))
==============================================================================
