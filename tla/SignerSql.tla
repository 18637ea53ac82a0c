------------------------------ MODULE SignerSql ------------------------------
(***************************************************************************)
(* The signer schema behind store.py.  Its functions live in another       *)
(* repository; each is modelled by the contract this worker relies on: it  *)
(* commits before it returns, it checks the state it starts from, and an   *)
(* account serves one unresolved transaction at a time.                    *)
(***************************************************************************)
EXTENDS Chain

CONSTANTS
    Txs,         \* rows of signer.tx
    MaxLosses    \* bound: how often the whole database is destroyed

ASSUME LossAssumption == MaxLosses \in Nat

VARIABLES
    row,          \* signer.tx.status; "active" is claimed or broadcast
    account,      \* the key whose account the row was claimed for
    submission,   \* hash of the row's saved signed bytes
    state,        \* tx_submission.state, "none" without a submission
    key,          \* local_key.state of each address
    losses        \* how many times the database was destroyed so far

sqlVars == <<row, account, submission, state, key, losses>>

Undecided == {"sending", "unknown", "accepted"}

SqlTypeOK ==
    /\ row \in [Txs -> {"absent", "pending", "active", "closed"}]
    /\ account \in [Txs -> Keys \cup {None}]
    /\ submission \in [Txs -> Hashes \cup {None}]
    /\ state \in [Txs -> {"none", "prepared", "committed", "rejected", "cancelled"}
                         \cup Undecided]
    /\ key \in [Keys -> {"unknown", "unverified", "ready", "held"}]
    /\ losses \in 0..MaxLosses

SqlInit ==
    /\ row = [t \in Txs |-> "absent"]
    /\ account = [t \in Txs |-> None]
    /\ submission = [t \in Txs |-> None]
    /\ state = [t \in Txs |-> "none"]
    /\ key = [a \in Keys |-> "unknown"]
    /\ losses = 0

-----------------------------------------------------------------------------
(* Queries *)

Reserved(t) == row[t] = "active" /\ state[t] # "committed"

Busy(a) == \E t \in Txs : account[t] = a /\ Reserved(t)

MatchingSubmission(h) == {t \in Txs : submission[t] = h}

RecoverableIfAdmitted(t) ==
    \/ state[t] \in {"prepared", "sending", "accepted"}
    \/ row[t] = "active" /\ submission[t] = None

\* Rows a worker may be started for: fresh claims and recovered ones.
Recoverable(t) ==
    \/ state[t] \in {"prepared"} \cup Undecided
    \/ row[t] = "active" /\ submission[t] = None

-----------------------------------------------------------------------------
(* Queue *)

Enqueue(t) ==
    /\ row[t] = "absent"
    /\ row' = [row EXCEPT ![t] = "pending"]
    /\ UNCHANGED <<account, submission, state, key, losses>>

Claim(t, a) ==
    /\ row[t] = "pending" /\ key[a] = "ready" /\ ~Busy(a)
    /\ row' = [row EXCEPT ![t] = "active"]
    /\ account' = [account EXCEPT ![t] = a]
    /\ UNCHANGED <<submission, state, key, losses>>

-----------------------------------------------------------------------------
(* Submissions *)

SaveSigned(t, h) ==
    /\ row[t] = "active" /\ submission[t] = None
    /\ submission' = [submission EXCEPT ![t] = h]
    /\ state' = [state EXCEPT ![t] = "prepared"]
    /\ UNCHANGED <<row, account, key, losses>>

MoveTo(t, s) ==
    /\ state' = [state EXCEPT ![t] = s]
    /\ UNCHANGED <<row, account, submission, key, losses>>

BeginSubmission(t) == state[t] = "prepared" /\ MoveTo(t, "sending")

MarkUnknown(t) == state[t] = "sending" /\ MoveTo(t, "unknown")

Accept(t) == state[t] \in Undecided /\ MoveTo(t, "accepted")

Commit(t) == state[t] \in Undecided /\ MoveTo(t, "committed")

Close(t, s) ==
    /\ row' = [row EXCEPT ![t] = "closed"]
    /\ state' = [state EXCEPT ![t] = s]
    /\ UNCHANGED <<account, submission, key, losses>>

Reject(t) == state[t] \in Undecided /\ Close(t, "rejected")

\* Cancellation is refused once a send marker exists in SQL.
AbortUnsent(t) ==
    /\ row[t] = "active" /\ state[t] \in {"none", "prepared"}
    /\ Close(t, IF submission[t] = None THEN "none" ELSE "cancelled")

-----------------------------------------------------------------------------
(* Key inventory *)

SyncKeys ==
    /\ key' = [a \in Keys |-> IF key[a] = "unknown" THEN "unverified" ELSE key[a]]
    /\ UNCHANGED <<row, account, submission, state, losses>>

SetKey(a, s) ==
    /\ key' = [key EXCEPT ![a] = s]
    /\ UNCHANGED <<row, account, submission, state, losses>>

-----------------------------------------------------------------------------
(* The database is destroyed and rebuilt empty from its migrations; the    *)
(* key volume and the chain survive.                                       *)

LoseTables ==
    /\ losses < MaxLosses
    /\ losses' = losses + 1
    /\ row' = [t \in Txs |-> "absent"]
    /\ account' = [t \in Txs |-> None]
    /\ submission' = [t \in Txs |-> None]
    /\ state' = [t \in Txs |-> "none"]
    /\ key' = [a \in Keys |-> "unknown"]
==============================================================================
