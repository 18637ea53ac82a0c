----------------------------- MODULE IdentityKeys -----------------------------
(***************************************************************************)
(* What provisioning promises, without processes, locks or a database: a   *)
(* request makes one key, from a phrase that is saved first; an identity   *)
(* has one key, which is chosen once and is the only one given out for it. *)
(***************************************************************************)
EXTENDS Naturals

CONSTANTS
    Ids,          \* request ids
    Identities,   \* those who want to be onboarded
    Phrases,      \* a phrase stands for its key
    Others,       \* keys that no request made
    None

VARIABLES
    phrase,     \* the saved phrase of a request
    key,        \* the key of a request
    chosen,     \* the key of an identity
    given,      \* keys given out for it
    player,     \* the key of its player on the chain
    enrolled    \* keys on the chain because of a request

vars == <<phrase, key, chosen, given, player, enrolled>>

Init ==
    /\ phrase = [r \in Ids |-> None] /\ key = [r \in Ids |-> None]
    /\ chosen = [i \in Identities |-> None] /\ given = [i \in Identities |-> {}]
    /\ player \in [Identities -> Others \cup {None}] /\ enrolled = {}

\* A phrase nobody has yet; nothing else ever replaces it.
Save(r, k) ==
    /\ phrase[r] = None /\ \A s \in Ids : phrase[s] # k
    /\ phrase' = [phrase EXCEPT ![r] = k]
    /\ UNCHANGED <<key, given, player, enrolled>>

SaveForRequest(r, k) == Save(r, k) /\ UNCHANGED chosen

\* Only an identity without a key and without a player gets a new key.
SaveForIdentity(r, k, i) ==
    /\ chosen[i] = None /\ player[i] = None
    /\ Save(r, k) /\ chosen' = [chosen EXCEPT ![i] = k]

MakeKey(r) ==
    /\ key[r] = None /\ phrase[r] # None
    /\ key' = [key EXCEPT ![r] = phrase[r]]
    /\ UNCHANGED <<phrase, chosen, given, player, enrolled>>

\* An identity that has a player already keeps the player's key.
Adopt(i) ==
    /\ chosen[i] = None /\ player[i] # None
    /\ chosen' = [chosen EXCEPT ![i] = player[i]]
    /\ UNCHANGED <<phrase, key, given, player, enrolled>>

Give(i) ==
    /\ chosen[i] # None
    /\ given' = [given EXCEPT ![i] = {chosen[i]}]
    /\ UNCHANGED <<phrase, key, chosen, player, enrolled>>

Join(i) ==
    /\ player[i] = None
    /\ \E k \in given[i] : player' = [player EXCEPT ![i] = k]
    /\ UNCHANGED <<phrase, key, chosen, given, enrolled>>

Enrol(r) ==
    /\ key[r] # None
    /\ enrolled' = enrolled \cup {key[r]}
    /\ UNCHANGED <<phrase, key, chosen, given, player>>

Next ==
    \/ \E r \in Ids :
         \/ MakeKey(r) \/ Enrol(r)
         \/ \E k \in Phrases :
              SaveForRequest(r, k) \/ \E i \in Identities : SaveForIdentity(r, k, i)
    \/ \E i \in Identities : Adopt(i) \/ Give(i) \/ Join(i)

Spec == Init /\ [][Next]_vars
==============================================================================
