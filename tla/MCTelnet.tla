------------------------------ MODULE MCTelnet ------------------------------
(* Telnet for TLC: a script that waits for the same prompt twice. *)
EXTENDS Telnet

MCSteps == <<"login", "login">>
=============================================================================
