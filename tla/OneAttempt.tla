----------------------------- MODULE OneAttempt ------------------------------
(***************************************************************************)
(* What the send path promises, without workers, database or journal: a    *)
(* key carries one attempt at a time, and an attempt is sent once.         *)
(***************************************************************************)
EXTENDS Naturals

CONSTANTS Hashes, Keys, None

VARIABLES
    signer,    \* the key that signed h
    attempt,   \* where the attempt to get h into a block stands
    sends      \* how often h was sent

vars == <<signer, attempt, sends>>

Init ==
    /\ signer = [h \in Hashes |-> None]
    /\ attempt = [h \in Hashes |-> "none"]
    /\ sends = [h \in Hashes |-> 0]

Open(h) == attempt[h] \in {"granted", "sent"}

Sign(h, a) ==
    /\ signer[h] = None
    /\ signer' = [signer EXCEPT ![h] = a]
    /\ UNCHANGED <<attempt, sends>>

\* A key is granted to one attempt at a time.
Grant(h) ==
    /\ attempt[h] = "none" /\ sends[h] = 0 /\ signer[h] # None
    /\ ~\E g \in Hashes : signer[g] = signer[h] /\ Open(g)
    /\ attempt' = [attempt EXCEPT ![h] = "granted"]
    /\ UNCHANGED <<signer, sends>>

\* The holder of the permit died before it used it.
Forfeit(h) ==
    /\ attempt[h] = "granted"
    /\ attempt' = [attempt EXCEPT ![h] = "none"]
    /\ UNCHANGED <<signer, sends>>

Send(h) ==
    /\ attempt[h] = "granted"
    /\ attempt' = [attempt EXCEPT ![h] = "sent"]
    /\ sends' = [sends EXCEPT ![h] = @ + 1]
    /\ UNCHANGED signer

\* Refused by the node, or in a block.
Decide(h) ==
    /\ attempt[h] = "sent"
    /\ attempt' = [attempt EXCEPT ![h] = "over"]
    /\ UNCHANGED <<signer, sends>>

Next ==
    \E h \in Hashes :
        \/ \E a \in Keys : Sign(h, a)
        \/ Grant(h) \/ Forfeit(h) \/ Send(h) \/ Decide(h)

Spec == Init /\ [][Next]_vars
==============================================================================
