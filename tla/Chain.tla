-------------------------------- MODULE Chain --------------------------------
(***************************************************************************)
(* What the worker sees of the signing CLI and of the chain node.  Signed  *)
(* bytes are represented by their hash (rpc.py:37, tx_hash); the node and  *)
(* the chain are external and modelled from the answers rpc.py accepts.    *)
(***************************************************************************)
EXTENDS Naturals

CONSTANTS
    Hashes,   \* hashes of the byte strings that may get signed
    Keys,     \* addresses of the local keyring
    None

ASSUME IdentityAssumption == None \notin Hashes \cup Keys

VARIABLES
    signer,     \* signer[h]: the key that signed h, None while h is unsigned
    number,     \* number[h]: the account sequence inside the signed bytes
    fate,       \* fate[h]: how far the bytes have come outside the worker
    sends,      \* sends[h]: how many times the bytes were put on the wire
    sequence    \* sequence[a]: the chain's account sequence of key a

chainVars == <<signer, number, fate, sends, sequence>>

Fates == {"unsent", "wire", "mempool", "refused", "included"}

ChainTypeOK ==
    /\ signer \in [Hashes -> Keys \cup {None}]
    /\ number \in [Hashes -> Nat]
    /\ fate \in [Hashes -> Fates]
    /\ sends \in [Hashes -> Nat]
    /\ sequence \in [Keys -> Nat]

ChainInit ==
    /\ signer = [h \in Hashes |-> None]
    /\ number = [h \in Hashes |-> 0]
    /\ fate = [h \in Hashes |-> "unsent"]
    /\ sends = [h \in Hashes |-> 0]
    /\ sequence = [a \in Keys |-> 0]

-----------------------------------------------------------------------------
(* The signer.  Every signature is a new byte string: requests differ in   *)
(* message, sequence or timeout height.                                    *)

Sign(h, a) ==
    /\ signer[h] = None
    /\ signer' = [signer EXCEPT ![h] = a]
    /\ number' = [number EXCEPT ![h] = sequence[a]]
    /\ UNCHANGED <<fate, sends, sequence>>

\* The preflight accepts bytes only while their sequence is the current one.
Current(h) == number[h] = sequence[signer[h]]

\* One POST of broadcast_tx_sync; the transport never repeats it.
Transmit(h) ==
    /\ sends' = [sends EXCEPT ![h] = @ + 1]
    /\ fate' = [fate EXCEPT ![h] = IF @ = "unsent" THEN "wire" ELSE @]
    /\ UNCHANGED <<signer, number, sequence>>

\* The only inclusion evidence: the saved bytes inside a block, with the
\* block's own result.  A bare admission, or bytes the node is still holding,
\* is not evidence.
Admitted(h) == fate[h] \in {"mempool", "included"}
Included(h) == fate[h] = "included"

-----------------------------------------------------------------------------
(* The node.  Bytes on the wire arrive at any later time or never, also    *)
(* after the worker stopped waiting; admitted bytes may never be included. *)

Admit(h) ==
    /\ fate[h] = "wire" /\ Current(h)
    /\ fate' = [fate EXCEPT ![h] = "mempool"]
    /\ UNCHANGED <<signer, number, sends, sequence>>

Refuse(h) ==
    /\ fate[h] = "wire"
    /\ fate' = [fate EXCEPT ![h] = "refused"]
    /\ UNCHANGED <<signer, number, sends, sequence>>

Include(h) ==
    /\ fate[h] = "mempool" /\ Current(h)
    /\ fate' = [fate EXCEPT ![h] = "included"]
    /\ sequence' = [sequence EXCEPT ![signer[h]] = @ + 1]
    /\ UNCHANGED <<signer, number, sends>>

Node == \E h \in Hashes : Admit(h) \/ Refuse(h) \/ Include(h)
==============================================================================
