--------------------------- MODULE MCSendProtocol ----------------------------
(* Small instances of SendProtocol for TLC. *)
EXTENDS SendInvariant, TLC

Symmetry ==
    Permutations(Hashes) \cup Permutations(Keys) \cup Permutations(Txs)
        \cup Permutations(Workers) \cup Permutations(Sessions)
==============================================================================
