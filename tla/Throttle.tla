------------------------------ MODULE Throttle ------------------------------
(***************************************************************************)
(* The limit on wrong passwords, codes and passphrases:                    *)
(* internal/auth/ratelimit.go.  Failures are kept twice, in the database   *)
(* and in a cache in front of it; a restart loses the cache alone.         *)
(*                                                                         *)
(* An identifier is the account, "mfa:" or "recovery:" of the user, or the *)
(* address; they differ in their limit only.  Failures that have left the  *)
(* window count for nothing anywhere and are dropped as the clock moves.   *)
(***************************************************************************)
EXTENDS Integers, FiniteSets

CONSTANTS Identifiers,
          Limit,      \* MaxPerAccount, or MaxPerAddress of an address
          Window, LockoutDuration,
          MaxTime     \* bound on the clock

(* Validate asks for positive settings and relates none to another: the     *)
(* lockout may be shorter than the window, though by default it is not.     *)
ASSUME ThrottleAssumption ==
  /\ Limit \in [Identifiers -> Nat \ {0}]
  /\ Window \in Nat \ {0} /\ MaxTime \in Nat
  /\ LockoutDuration \in Nat \ {0}

VARIABLES clock,
          recent,    \* the cache: the failures of an identifier
          attempts,  \* the rows of login_attempts with outcome failure
          restarts   \* how often the server has been restarted

throttleVars == <<clock, recent, attempts, restarts>>

ThrottleInit ==
  /\ clock = 0 /\ restarts = 0
  /\ recent   = [k \in Identifiers |-> {}]
  /\ attempts = [k \in Identifiers |-> {}]

(* A failure: when it was, and which of the identifier's at that instant.     *)
(* The rows in the database have an id of their own.                          *)
Failure(k) == [at |-> clock, nth |-> Cardinality({a \in attempts[k] : a.at = clock})]

InWindow(failures) == {f \in failures : f.at > clock - Window}

(* countFailures: the cache answers alone as soon as it has anything. *)
CountFailures(k) == IF InWindow(recent[k]) # {} THEN InWindow(recent[k])
                                                ELSE InWindow(attempts[k])

(* The lockout runs from the oldest failure counted, so it is over as soon as *)
(* it is over for any of them.                                                *)
LockoutOver(failures) == \E f \in failures : f.at + LockoutDuration <= clock

(* Slip: the lockout begins one failure late. *)
Check_OffByOne(k) ==
  LET failures == CountFailures(k)
  IN  Cardinality(failures) > Limit[k] => LockoutOver(failures)

(* Check: whether an attempt may go on. *)
Check(k) ==
  LET failures == CountFailures(k)
  IN  Cardinality(failures) >= Limit[k] => LockoutOver(failures)

RecordFailure(K) ==
  /\ recent'   = [k \in Identifiers |-> IF k \in K THEN recent[k] \cup {Failure(k)}
                                                   ELSE recent[k]]
  /\ attempts' = [k \in Identifiers |-> IF k \in K THEN attempts[k] \cup {Failure(k)}
                                                   ELSE attempts[k]]
  /\ UNCHANGED <<clock, restarts>>

RecordSuccess(K) ==
  /\ recent'   = [k \in Identifiers |-> IF k \in K THEN {} ELSE recent[k]]
  /\ attempts' = [k \in Identifiers |-> IF k \in K THEN {} ELSE attempts[k]]
  /\ UNCHANGED <<clock, restarts>>

(* A restart: the cache is made empty again, the database is as it was. *)
CacheLost ==
  /\ recent' = [k \in Identifiers |-> {}]
  /\ restarts' = restarts + 1
  /\ UNCHANGED <<clock, attempts>>

Recent(failures) == {f \in failures : f.at > clock + 1 - Window}

TimePasses ==
  /\ clock < MaxTime
  /\ clock' = clock + 1
  /\ recent'   = [k \in Identifiers |-> Recent(recent[k])]
  /\ attempts' = [k \in Identifiers |-> Recent(attempts[k])]
  /\ UNCHANGED restarts

ThrottleTypeOK ==
  /\ clock \in Nat /\ restarts \in Nat
  /\ recent \in [Identifiers -> SUBSET [at : Nat, nth : Nat]]
  /\ attempts \in [Identifiers -> SUBSET [at : Nat, nth : Nat]]
=============================================================================
