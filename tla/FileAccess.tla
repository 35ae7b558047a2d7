----------------------------- MODULE FileAccess -----------------------------
(***************************************************************************)
(* What the manager of file sessions promises those who work over one: a   *)
(* saved connection has at most one session that Get can find, a session   *)
(* is closed only after Get has stopped finding it, and a closed one never *)
(* comes back.  Transfers works over these sessions; FileSessions is the   *)
(* manager of internal/files/manager.go, shown to implement them.          *)
(***************************************************************************)
EXTENDS Integers, FiniteSets

CONSTANTS Conns,      \* saved connections, each of a host of its own
          Sessions,   \* Session objects; each is made once
          None

VARIABLES owner, \* the connection a session was opened for; None before that
          life   \* "none", then "open", then "leaving" the map, then "dead"

accessVars == <<owner, life>>

AccessInit == /\ owner = [s \in Sessions |-> None]
              /\ life  = [s \in Sessions |-> "none"]

OpenOn(c) == {s \in Sessions : owner[s] = c /\ life[s] = "open"}

(* A session becomes the one its connection is found by. *)
Opens(s, c) ==
  /\ life[s] = "none" /\ OpenOn(c) = {}
  /\ life' = [life EXCEPT ![s] = "open"]
  /\ owner' = [owner EXCEPT ![s] = c]

(* A session made while another was made for the same connection: nobody    *)
(* ever finds it.                                                           *)
Loses(s, c) ==
  /\ life[s] = "none" /\ OpenOn(c) # {}
  /\ life' = [life EXCEPT ![s] = "leaving"]
  /\ owner' = [owner EXCEPT ![s] = c]

(* Some of the open sessions are no longer found; who holds one may go on.  *)
Leave(S) ==
  /\ S # {} /\ \A s \in S : life[s] = "open"
  /\ life' = [s \in Sessions |-> IF s \in S THEN "leaving" ELSE life[s]]
  /\ UNCHANGED owner

(* A session is closed: every operation over it fails from now on. *)
Dies(s) ==
  /\ life[s] = "leaving"
  /\ life' = [life EXCEPT ![s] = "dead"]
  /\ UNCHANGED owner

AccessNext ==
  \/ \E s \in Sessions, c \in Conns : Opens(s, c) \/ Loses(s, c)
  \/ \E S \in SUBSET Sessions : Leave(S)
  \/ \E s \in Sessions : Dies(s)

AccessSpec == AccessInit /\ [][AccessNext]_accessVars
=============================================================================
