------------------------------- MODULE MCVault -------------------------------
(* Vault for TLC. *)
EXTENDS Vault, TLC

Symmetry == Permutations(Sessions) \cup Permutations(Requests) \cup Permutations(Objects)
              \cup Permutations(Deks) \cup Permutations(Passphrases)
=============================================================================
