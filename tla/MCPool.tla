-------------------------------- MODULE MCPool --------------------------------
(* An instance of Pool: a bastion a, a switch b behind it, and a host c      *)
(* behind both.                                                              *)
EXTENDS Pool, TLC

CONSTANTS a, b, c

Chain == (a :> <<>>) @@ (b :> <<a>>) @@ (c :> <<a, b>>)
=============================================================================
