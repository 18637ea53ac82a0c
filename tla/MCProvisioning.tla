--------------------------- MODULE MCProvisioning ---------------------------
(* Provisioning for TLC: processes, phrases and onboarding ids are           *)
(* interchangeable.                                                          *)
EXTENDS Provisioning, TLC

Symmetry == Permutations(Processes) \cup Permutations(Phrases) \cup Permutations(RoleIds)
=============================================================================
