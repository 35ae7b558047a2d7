----------------------------- MODULE MCTerminals -----------------------------
(* Small instances of Terminals for TLC. *)
EXTENDS Terminals

CONSTANT someone

(* The sockets of one person: reattachment and displacement. *)
OneUser == [b \in Browsers |-> someone]

=============================================================================
