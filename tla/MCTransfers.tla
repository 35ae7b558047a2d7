----------------------------- MODULE MCTransfers -----------------------------
(* An instance of Transfers for TLC: on c1 a directory a with a file and a  *)
(* link to the directory z; on c2 the same directory with another file, and *)
(* the same again within it.                                                *)
EXTENDS Transfers

CONSTANTS c1, c2, x, y

Link(p) == [kind |-> "link", data |-> <<>>, mode |-> None, to |-> p]

TwoHosts ==
  (c1 :> ((<<>> :> Dir) @@ (<<"a">> :> Dir) @@ (<<"a", "b">> :> File(<<"1">>, x))
          @@ (<<"a", "l">> :> Link(<<"z">>)) @@ (<<"z">> :> Dir)
          @@ (<<"z", "b">> :> File(<<"2">>, y)))) @@
  (c2 :> ((<<>> :> Dir) @@ (<<"a">> :> Dir)
          @@ (<<"a", "a">> :> Dir) @@ (<<"a", "a", "b">> :> File(<<"4">>, y))))

Paths == {<<"a">>, <<"a", "b">>}
OneDir == {<<"a">>}

(* "/a/", "/a/b", "/a/." and "/z/./"; a slash at the end changes nothing. *)
Spelled(p, base, surplus) == [path |-> p, base |-> base, surplus |-> surplus]
FourSpellings ==
  {Spelled(<<"a">>, "a", 1), Spelled(<<"a", "b">>, "b", 0),
   Spelled(<<"a">>, ".", 2), Spelled(<<"z">>, ".", 3)}
NewPlaces == {<<"z", "b">>}
=============================================================================
