----------------------------- MODULE MCRecording -----------------------------
(* Instances of Recording for TLC. *)
EXTENDS Recording, TLC

Symmetry == Permutations(Sessions) \cup Permutations(Logs)

=============================================================================
