---------------------------- MODULE MCConnect ----------------------------
(* Two keys of one algorithm and one of another. *)
EXTENDS Connect, TLC

CONSTANTS k1, k2, k3

MCKeys   == {k1, k2, k3}
MCTypeOf == [k \in MCKeys |-> IF k = k3 THEN "rsa" ELSE "ed25519"]
Symmetry == Permutations(Attempts) \cup Permutations({k1, k2})
==========================================================================
