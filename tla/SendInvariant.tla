---------------------------- MODULE SendInvariant ----------------------------
(***************************************************************************)
(* The inductive invariant of SendProtocol: what the three records of a    *)
(* send (SQL, journal, worker) know about each other at every step.        *)
(***************************************************************************)
EXTENDS SendProtocol

\* A row's status, submission and account agree with one another.
RowInv ==
    \A t \in Txs :
        /\ submission[t] = None <=> state[t] = "none"
        /\ row[t] \in {"absent", "pending"} => submission[t] = None
        /\ state[t] \in {"prepared", "committed"} \cup Undecided => row[t] = "active"
        /\ state[t] \in {"rejected", "cancelled"} => row[t] = "closed"
        /\ row[t] = "active" => account[t] \in Keys
        /\ submission[t] # None => signer[submission[t]] = account[t]

\* Bytes belong to one row, and an account is reserved by one row.
UniqueInv ==
    \A s, t \in Txs :
        /\ submission[s] = submission[t] /\ submission[s] # None => s = t
        /\ account[s] = account[t] /\ Reserved(s) /\ Reserved(t) => s = t

\* Nothing refers to bytes that were never signed.
FreshInv ==
    \A h \in Hashes : signer[h] = None =>
        /\ fate[h] = "unsent" /\ h \notin pending /\ completed[h] = "none"
        /\ \A t \in Txs : submission[t] # h
        /\ \A w \in Workers : saved[w] # h

SendsInv ==
    \A h \in Hashes : sends[h] <= 1 /\ (sends[h] = 0 <=> fate[h] = "unsent")

\* The state of the row of a leased worker that is at p.
RowFits(p, t) ==
    /\ p # "idle"
    /\ p \in {"prepare", "abort"} => row[t] = "active"
    /\ p = "prepare" => state[t] = "none"
    /\ p = "abort" => state[t] \in {"none", "prepared"}
    /\ p \in {"preflight", "mark", "begin"} => state[t] = "prepared"
    /\ p \in {"send", "wait", "timedOut", "admitted", "refused", "recover"} =>
        state[t] = "sending"
    /\ p = "observe" => state[t] \in Undecided
    /\ p \in Outcomes => state[t] = p

\* What a worker remembers, and what its lease guarantees.
LeaseInv ==
    /\ \A w \in Workers :
        /\ pc[w] \notin {"idle", "prepare", "abort"} => saved[w] \in Hashes
        /\ live[w] => job[w] \in Txs /\ saved[w] = submission[job[w]] /\ RowFits(pc[w], job[w])
    /\ \A v, w \in Workers : live[v] /\ live[w] /\ job[v] = job[w] => v = w

\* The verdict a worker carries to the journal is true and is SQL's verdict.
VerdictInv ==
    \A w \in Workers :
        /\ pc[w] \in {"refused", "rejected"} => fate[saved[w]] = "refused"
        /\ pc[w] = "committed" => fate[saved[w]] = "included"
        /\ pc[w] = "cancelled" => ~Sent(saved[w]) /\ ~Permitted(saved[w])
        /\ pc[w] \in Outcomes =>
            \A t \in Txs : submission[t] = saved[w] => state[t] = pc[w]

\* A permit is for unsent bytes with a marker, SQL knows of it, and one worker
\* has it.  Before the permit the marker is there.
PermitInv ==
    \A w \in Workers :
        /\ live[w] /\ pc[w] = "begin" => saved[w] \in pending /\ completed[saved[w]] = "none"
        /\ pc[w] = "send" =>
            /\ sends[saved[w]] = 0
            /\ \A t \in Txs : submission[t] = saved[w] => state[t] \in Undecided
            /\ \A v \in Workers : pc[v] = "send" /\ saved[v] = saved[w] => v = w

\* The journal never contradicts SQL about bytes both know.
AgreeInv ==
    \A h \in Hashes, t \in Txs :
        completed[h] # "none" /\ submission[t] = h => state[t] = completed[h]

\* Bytes that may still reach a block and that SQL forgot keep their key out
\* of use: it is not ready, no row has it, every running inventory holds it.
OrphanInv ==
    \A h \in Hashes : Outstanding(h) /\ MatchingSubmission(h) = {} =>
        /\ key[signer[h]] # "ready" /\ ~Busy(signer[h])
        /\ \A i \in Sessions : stage[i] # "idle" => h \in held[i]

\* Bytes that may still be sent or included carry the key's next sequence.
SequenceInv ==
    \A h \in Hashes :
        /\ fate[h] = "included" => number[h] < sequence[signer[h]]
        /\ Outstanding(h) => number[h] = sequence[signer[h]]
        /\ \A t \in MatchingSubmission(h) : state[t] = "prepared" =>
            number[h] = sequence[signer[h]]

IInv ==
    /\ TypeOK /\ RowInv /\ UniqueInv /\ FreshInv /\ SendsInv /\ LeaseInv
    /\ VerdictInv /\ PermitInv /\ AgreeInv /\ JournalTruth /\ SqlTruth
    /\ OrphanInv /\ KeyExclusive /\ SequenceInv /\ NoSequenceReuse
==============================================================================
