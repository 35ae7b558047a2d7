------------------------------- MODULE MCTree -------------------------------
(* The tree and its imports for TLC: a user and an administrator, a team, and *)
(* eight workloads.                                                           *)
EXTENDS Imports, TLC

Named(i) == <<"n", i>>
HandNames == {Named(1)}

(* A folder in a folder with a connection in each, hopping through one       *)
(* another; two folders each inside the other; and two with one id.          *)
Nested == [folders |-> ("x" :> [parent |-> None, name |-> Named(1)]
                     @@ "y" :> [parent |-> "x", name |-> <<"m", 1>>]),
           twice |-> FALSE,
           conns |-> <<[id |-> "p", folder |-> "x", name |-> Named(1), chain |-> <<"q">>, ssh |-> TRUE],
                       [id |-> "q", folder |-> "y", name |-> Named(1), chain |-> <<"z", "p">>, ssh |-> TRUE]>>]
Looped == [folders |-> ("x" :> [parent |-> "y", name |-> Named(1)]
                     @@ "y" :> [parent |-> "x", name |-> <<"m", 1>>]),
           twice |-> FALSE, conns |-> <<>>]
Doubled == [folders |-> "x" :> [parent |-> None, name |-> Named(1)],
            twice |-> TRUE, conns |-> <<>>]
AllBundles == {Nested, Looped, Doubled}

Quiet == [k \in Kinds |-> 0]
AllWorkloads == {
  [Quiet EXCEPT !["folder"] = 3, !["move"] = 2, !["conn"] = 1, !["deleteTree"] = 1],
  [Quiet EXCEPT !["folder"] = 2, !["conn"] = 1, !["delete"] = 1, !["edit"] = 1],
  [Quiet EXCEPT !["conn"] = 3, !["edit"] = 2],
  [Quiet EXCEPT !["conn"] = 5],
  [Quiet EXCEPT !["conn"] = 3, !["edit"] = 1, !["remove"] = 1],
  [Quiet EXCEPT !["team"] = 3, !["folder"] = 2, !["conn"] = 1, !["move"] = 1],
  [Quiet EXCEPT !["import"] = 1, !["folder"] = 1, !["delete"] = 1],
  [Quiet EXCEPT !["import"] = 1, !["conn"] = 1, !["edit"] = 1]}

Symmetry == Permutations(Requests)
=============================================================================
