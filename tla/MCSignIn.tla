------------------------------ MODULE MCSignIn ------------------------------
(* SignIn for TLC: two wrong answers for an account and three for an address; *)
(* seven workloads, each about one or two of the properties.                  *)
EXTENDS SignIn, TLC

AllIdentifiers == {"address", "account", "mfa", "recovery"}
AttemptLimits == [k \in AllIdentifiers |-> IF k = "address" THEN 3 ELSE 2]

Quiet == [k \in Kinds |-> 0]
AllWorkloads == {
  [Quiet EXCEPT !["guess"] = 5, !["restart"] = 2],
  [Quiet EXCEPT !["guess"] = 5, !["restart"] = 1, !["time"] = 2],
  [Quiet EXCEPT !["operator"] = 2, !["sso"] = 1, !["revoke"] = 1],
  [Quiet EXCEPT !["operator"] = 2, !["time"] = 1, !["revoke"] = 1],
  [Quiet EXCEPT !["sso"] = 1, !["restart"] = 1, !["time"] = 1, !["revoke"] = 1],
  [Quiet EXCEPT !["factor"] = 1, !["guess"] = 1],
  [Quiet EXCEPT !["factor"] = 1, !["time"] = 1]}

Symmetry == Permutations(Sessions) \cup Permutations(Requests)
=============================================================================
