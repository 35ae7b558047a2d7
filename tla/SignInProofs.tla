---------------------------- MODULE SignInProofs ----------------------------
(***************************************************************************)
(* Proofs about SignIn and the Throttle in front of it: for any limits,    *)
(* window and lives of a session, any number of requests in flight, of     *)
(* sessions, of recovery codes and of restarts.                            *)
(***************************************************************************)
EXTENDS SignIn, FiniteSetTheorems, TLAPS

(***************************************************************************)
(* The inductive invariant.                                                *)
(***************************************************************************)

(* Where a request waits for the answer that counts against an identifier. *)
Asked(k) == IF k \in {"address", "account"} THEN "login"
            ELSE IF k = "mfa" THEN "totp" ELSE "recovery"

(* The requests that Check has let through and that have not answered yet. *)
Pending(k) == {r \in Requests : req[r].pc = Asked(k)}

(* Requests past withAuth have a session, and a verification has its row. *)
RequestsSound ==
  \A r \in Requests :
    /\ req[r].pc \in {"in", "totp", "recovery"} => req[r].s \in Sessions
    /\ req[r].pc = "totp" => req[r].last \in Nat

(* The rows of an identifier: all in the window, those of this instant       *)
(* numbered below their count; the cache knows some of them, and all of them *)
(* until the first restart.                                                  *)
Now(S) == {f \in S : f.at = clock}

RowsSound(k) ==
  /\ IsFiniteSet(attempts[k]) /\ recent[k] \subseteq attempts[k]
  /\ \A f \in attempts[k] : f.at > clock - Window /\ f.at <= clock
  /\ \A f \in Now(attempts[k]) : f.nth < Cardinality(Now(attempts[k]))
  /\ restarts = 0 => attempts[k] = recent[k]

(* What a restart adds to the limit. *)
Extra(k) == IF restarts = 0 THEN 0 ELSE Limit[k] - 1

(* The cached failures and the requests in flight stay within the limit and  *)
(* the overlap.  While there are any, the rows the cache has forgotten stay  *)
(* below the limit; when there are none they may be as many as all the rows. *)
RowsFit(k) ==
  /\ Cardinality(recent[k]) + Cardinality(Pending(k)) <= Limit[k] - 1 + Cardinality(Requests)
  /\ recent[k] # {} \/ Pending(k) # {} => Cardinality(attempts[k] \ recent[k]) <= Extra(k)
  /\ Cardinality(attempts[k]) <= Extra(k) + Limit[k] - 1 + Cardinality(Requests)

(* So they do when no lockout ends while the failures it is about count. *)
RowsBounded(k) == LockoutDuration >= Window => RowsFit(k)

Counted == \A k \in Identifiers : RowsSound(k) /\ RowsBounded(k)

(* Until two verifications overlap, the last step is above every code        *)
(* accepted and a recovery code accepted is marked.                          *)
CodesMarked ==
  ~raced =>
    /\ \A c \in spent : c \in Nat => totp # None /\ c <= totp
    /\ \A c \in spent : c \in Codes => codes[c] # "unused"

IInv == /\ TypeOK /\ RequestsSound /\ Counted /\ CodesMarked
        /\ CodesOnce /\ SuspensionEndsSessions
-----------------------------------------------------------------------------
(* The constants, as the proofs use them. *)
LEMMA Constants ==
  /\ Identifiers = {"address", "account", "mfa", "recovery"}
  /\ Idle \in Nat /\ Absolute \in Nat /\ Window \in Nat
  /\ LockoutDuration \in Nat
  /\ None \notin Sessions /\ None \notin Nat
  /\ Codes \cap Nat = {}
  /\ IsFiniteSet(Requests) /\ Cardinality(Requests) \in Nat
  BY ThrottleAssumption, SignInAssumption, FS_CardinalityType

(* A limit is at least one. *)
LEMMA Limits ==
  ASSUME NEW k \in Identifiers
  PROVE  Limit[k] \in Nat /\ Limit[k] >= 1
  BY ThrottleAssumption

(* A subset counts for no more. *)
LEMMA Smaller ==
  ASSUME NEW S, NEW T, IsFiniteSet(S), T \subseteq S
  PROVE  /\ IsFiniteSet(T) /\ Cardinality(T) \in Nat /\ Cardinality(S) \in Nat
         /\ Cardinality(T) <= Cardinality(S)
<1>1. T \in SUBSET S
  OBVIOUS
<1>2. QED
  BY <1>1, FS_Subset, FS_CardinalityType

(* The rows are the ones the cache has and the ones it does not have. *)
LEMMA Split ==
  ASSUME NEW S, NEW T, IsFiniteSet(S), T \subseteq S
  PROVE  /\ Cardinality(S \ T) \in Nat /\ Cardinality(T) \in Nat
         /\ Cardinality(S) = Cardinality(S \ T) + Cardinality(T)
<1>1. IsFiniteSet(T) /\ IsFiniteSet(S \ T)
  BY Smaller
<1>2. (S \ T) \cup T = S /\ (S \ T) \cap T = {}
  OBVIOUS
<1>3. Cardinality(S) = Cardinality(S \ T) + Cardinality(T) - 0
  BY <1>1, <1>2, FS_Union, FS_EmptySet
<1>4. Cardinality(S \ T) \in Nat /\ Cardinality(T) \in Nat
  BY <1>1, FS_CardinalityType
<1>5. QED
  BY <1>3, <1>4

(* The requests in flight are counted. *)
LEMMA PendingFinite ==
  ASSUME NEW k
  PROVE  /\ IsFiniteSet(Pending(k)) /\ Cardinality(Pending(k)) \in Nat
         /\ Cardinality(Pending(k)) <= Cardinality(Requests)
<1>1. Pending(k) \subseteq Requests
  BY DEF Pending
<1>2. QED
  BY <1>1, Smaller, Constants

(* What counts is what there is: nothing outside the window is left, so a    *)
(* lockout no shorter does not end before its failures are dropped.          *)
LEMMA CheckBelow ==
  ASSUME LockoutDuration >= Window,
         NEW k \in Identifiers, clock \in Nat, RowsSound(k),
         attempts[k] \subseteq [at : Nat, nth : Nat], Check(k)
  PROVE  IF recent[k] # {} THEN Cardinality(recent[k]) < Limit[k]
                           ELSE Cardinality(attempts[k]) < Limit[k]
<1>1. \A f \in attempts[k] : f.at \in Nat /\ f.at > clock - Window
  BY DEF RowsSound
<1>2. InWindow(attempts[k]) = attempts[k] /\ InWindow(recent[k]) = recent[k]
  BY <1>1 DEF InWindow, RowsSound
<1>3. CountFailures(k) \subseteq attempts[k]
  BY <1>2 DEF CountFailures, RowsSound
<1>4. ~LockoutOver(CountFailures(k))
  <2>1. ASSUME NEW f \in CountFailures(k), f.at + LockoutDuration <= clock PROVE FALSE
    BY <1>1, <1>3, <2>1, Constants
  <2>2. QED
    BY <2>1 DEF LockoutOver
<1>5. ~(Cardinality(CountFailures(k)) >= Limit[k])
  BY <1>4 DEF Check
<1>6. Cardinality(CountFailures(k)) \in Nat
  BY <1>3, Smaller DEF RowsSound
<1>7. QED
  BY <1>2, <1>5, <1>6, Limits DEF CountFailures

(* A step that leaves an identifier's rows alone and lets nobody through. *)
LEMMA RowsKept ==
  ASSUME NEW k \in Identifiers, RowsSound(k), RowsBounded(k),
         recent'[k] = recent[k], attempts'[k] = attempts[k],
         clock' = clock, restarts' = restarts, Pending(k)' \subseteq Pending(k)
  PROVE  RowsSound(k)' /\ RowsBounded(k)'
<1>1. RowsSound(k)'
  BY DEF RowsSound, Now
<1>2. Cardinality(Pending(k)') \in Nat /\ Cardinality(Pending(k)') <= Cardinality(Pending(k))
  BY PendingFinite, Smaller
<1>3. Cardinality(recent[k]) \in Nat
  BY Smaller DEF RowsSound
<1>4. Cardinality(Pending(k)) \in Nat
  BY PendingFinite
<1>5. RowsBounded(k)'
  <2> SUFFICES ASSUME LockoutDuration >= Window, RowsFit(k) PROVE RowsFit(k)'
    BY DEF RowsBounded
  <2>1. QED
    BY <1>2, <1>3, <1>4, Limits, Constants DEF RowsFit, Extra
<1>6. QED
  BY <1>1, <1>5

(* Check lets a request through: there is room for it. *)
LEMMA RowsAsked ==
  ASSUME NEW k \in Identifiers, clock \in Nat, RowsSound(k), RowsBounded(k),
         attempts[k] \subseteq [at : Nat, nth : Nat], Check(k),
         recent' = recent, attempts' = attempts, clock' = clock, restarts' = restarts,
         NEW r \in Requests, r \notin Pending(k), Pending(k)' = Pending(k) \cup {r}
  PROVE  RowsSound(k)' /\ RowsBounded(k)'
<1>1. RowsSound(k)'
  BY DEF RowsSound, Now
<1> DEFINE P == Pending(k)
<1>2. P \cup {r} \subseteq Requests
  BY DEF Pending
<1>3. /\ Cardinality(P \cup {r}) \in Nat
      /\ Cardinality(P \cup {r}) <= Cardinality(Requests)
  BY <1>2, Smaller, Constants
<1>4. Cardinality(recent[k]) \in Nat /\ Cardinality(attempts[k]) \in Nat
  BY Smaller DEF RowsSound
<1>5. LockoutDuration >= Window => Cardinality(recent[k]) <= Limit[k] - 1
  <2>1. CASE recent[k] # {}
    BY <1>4, <2>1, CheckBelow, Limits
  <2>2. CASE recent[k] = {}
    BY <2>2, Limits, FS_EmptySet
  <2>3. QED
    BY <2>1, <2>2
<1>6. LockoutDuration >= Window => Cardinality(attempts[k] \ recent[k]) <= Extra(k)
  <2>1. CASE recent[k] # {}
    BY <2>1 DEF RowsBounded, RowsFit
  <2>2. CASE recent[k] = {} /\ restarts = 0
    BY <2>2, FS_EmptySet DEF RowsSound, Extra
  <2>3. CASE recent[k] = {} /\ restarts # 0
    <3>1. LockoutDuration >= Window => Cardinality(attempts[k]) < Limit[k]
      BY <2>3, CheckBelow
    <3>2. attempts[k] \ recent[k] = attempts[k]
      BY <2>3
    <3>3. QED
      BY <1>4, <2>3, <3>1, <3>2, Limits DEF Extra
  <2>4. QED
    BY <2>1, <2>2, <2>3
<1>7. (Pending(k)') = P \cup {r}
  OBVIOUS
<1> HIDE DEF P
<1>8. RowsBounded(k)'
  <2> SUFFICES ASSUME LockoutDuration >= Window, RowsFit(k) PROVE RowsFit(k)'
    BY DEF RowsBounded
  <2>1. Extra(k)' = Extra(k)
    BY DEF Extra
  <2>2. Cardinality(attempts[k]) <= Extra(k) + Limit[k] - 1 + Cardinality(Requests)
    BY DEF RowsFit
  <2>3. Cardinality(recent[k]) + Cardinality(P \cup {r}) <= Limit[k] - 1 + Cardinality(Requests)
    BY <1>3, <1>4, <1>5, Limits, Constants
  <2>4. QED
    BY <1>6, <1>7, <2>1, <2>2, <2>3 DEF RowsFit
<1>9. QED
  BY <1>1, <1>8

(* The answer was wrong: a row more, and a request less. *)
LEMMA RowsFailed ==
  ASSUME NEW k \in Identifiers, clock \in Nat, RowsSound(k), RowsBounded(k),
         attempts[k] \subseteq [at : Nat, nth : Nat],
         recent'[k] = recent[k] \cup {Failure(k)},
         attempts'[k] = attempts[k] \cup {Failure(k)},
         clock' = clock, restarts' = restarts,
         NEW r \in Pending(k), Pending(k)' = Pending(k) \ {r}
  PROVE  RowsSound(k)' /\ RowsBounded(k)'
<1> DEFINE A == attempts[k]
           R == recent[k]
           P == Pending(k)
           f == Failure(k)
           n == Cardinality(Now(A))
<1>1. IsFiniteSet(A) /\ R \subseteq A /\ IsFiniteSet(R) /\ IsFiniteSet(P)
  BY Smaller, PendingFinite DEF RowsSound
<1>2. Now(A) \subseteq A /\ IsFiniteSet(Now(A)) /\ n \in Nat
  <2>1. Now(A) \subseteq A
    BY DEF Now
  <2>2. QED
    BY <1>1, <2>1, Smaller
<1>3. f = [at |-> clock, nth |-> n]
  BY DEF Failure, Now
<1>4. f \notin A
  BY <1>3, <1>2 DEF RowsSound, Now
<1>5. Now(A \cup {f}) = Now(A) \cup {f}
  BY <1>3 DEF Now
<1>6. f \notin Now(A) /\ f \notin R
  BY <1>1, <1>2, <1>4
<1> HIDE DEF f
<1>7. Cardinality(Now(A) \cup {f}) = n + 1
  BY <1>2, <1>6, FS_AddElement
<1>8. RowsSound(k)'
  <2>1. IsFiniteSet(A \cup {f}) /\ R \cup {f} \subseteq A \cup {f}
    BY <1>1, FS_AddElement
  <2>2. \A g \in A \cup {f} : g.at > clock - Window /\ g.at <= clock
    BY <1>3, Constants, ThrottleAssumption DEF RowsSound
  <2>3. ASSUME NEW g \in Now(A) \cup {f} PROVE g.nth < n + 1
    <3>1. CASE g = f
      BY <1>2, <1>3, <3>1
    <3>2. CASE g \in Now(A)
      <4>1. g.nth < n /\ g.nth \in Nat
        BY <1>2, <3>2 DEF RowsSound
      <4>2. QED
        BY <1>2, <4>1
    <3>3. QED
      BY <2>3, <3>1, <3>2
  <2>4. attempts'[k] = A \cup {f} /\ recent'[k] = R \cup {f}
    BY DEF f
  <2>5. Now(attempts[k])' = Now(A) \cup {f}
    BY <1>5, <2>4 DEF Now
  <2>6. restarts' = 0 => A = R
    BY DEF RowsSound
  <2> HIDE DEF A, R, P, n
  <2>7. QED
    BY <1>7, <2>1, <2>2, <2>3, <2>4, <2>5, <2>6 DEF RowsSound
<1>9. RowsBounded(k)'
  <2> SUFFICES ASSUME LockoutDuration >= Window, RowsFit(k) PROVE RowsFit(k)'
    BY DEF RowsBounded
  <2>1. Cardinality(R \cup {f}) = Cardinality(R) + 1 /\ Cardinality(R) \in Nat
    BY <1>1, <1>6, FS_AddElement, FS_CardinalityType
  <2>2. Cardinality(P \ {r}) = Cardinality(P) - 1 /\ Cardinality(P) \in Nat
    BY <1>1, FS_RemoveElement, FS_CardinalityType
  <2>3. (A \cup {f}) \ (R \cup {f}) = A \ R
    BY <1>4
  <2>4. Cardinality(A \ R) <= Extra(k) /\ Extra(k)' = Extra(k)
    BY DEF RowsFit, Extra
  <2>5. Cardinality(R) + Cardinality(P) <= Limit[k] - 1 + Cardinality(Requests)
    BY DEF RowsFit
  <2>6. /\ Cardinality(A \cup {f}) = Cardinality(A \ R) + Cardinality(R \cup {f})
        /\ Cardinality(A \ R) \in Nat
    <3>1. IsFiniteSet(A \cup {f}) /\ R \cup {f} \subseteq A \cup {f}
      BY <1>1, FS_AddElement
    <3>2. QED
      BY <2>3, <3>1, Split
  <2>7. attempts'[k] = A \cup {f} /\ recent'[k] = R \cup {f} /\ Pending(k)' = P \ {r}
    BY DEF f
  <2>8. Extra(k) \in Nat
    BY Limits DEF Extra
  <2> HIDE DEF A, R, P, n
  <2>9. Limit[k] \in Nat /\ Cardinality(Requests) \in Nat
    BY Limits, Constants
  <2>10. Cardinality(R \cup {f}) + Cardinality(P \ {r}) <= Limit[k] - 1 + Cardinality(Requests)
    BY <2>1, <2>2, <2>5, <2>9
  <2>11. Cardinality(A \cup {f}) <= Extra(k) + Limit[k] - 1 + Cardinality(Requests)
    <3>1. Cardinality(P) >= 1
      BY <1>1, <2>2, FS_EmptySet DEF P
    <3>2. QED
      BY <2>1, <2>2, <2>4, <2>5, <2>6, <2>8, <2>9, <3>1
  <2>12. QED
    BY <2>3, <2>4, <2>7, <2>10, <2>11 DEF RowsFit
<1>10. QED
  BY <1>8, <1>9

(* The answer was right: the identifier starts again. *)
LEMMA RowsCleared ==
  ASSUME NEW k \in Identifiers, restarts' = restarts,
         recent'[k] = {}, attempts'[k] = {}
  PROVE  RowsSound(k)' /\ RowsBounded(k)'
<1>1. RowsSound(k)'
  BY FS_EmptySet DEF RowsSound, Now
<1>2. Cardinality(Pending(k))' \in Nat /\ Cardinality(Pending(k))' <= Cardinality(Requests)
  <2>1. Pending(k)' \subseteq Requests
    BY DEF Pending
  <2>2. QED
    BY <2>1, Smaller, Constants
<1>3. Extra(k)' \in Nat
  BY Limits DEF Extra
<1>4. {} \ {} = {}
  OBVIOUS
<1>5. RowsBounded(k)'
  BY <1>2, <1>3, <1>4, FS_EmptySet, Limits, Constants DEF RowsBounded, RowsFit
<1>6. QED
  BY <1>1, <1>5

(* A restart forgets the cache and whoever was let through. *)
LEMMA RowsForgotten ==
  ASSUME NEW k \in Identifiers, RowsSound(k), RowsBounded(k), restarts \in Nat,
         recent'[k] = {}, attempts' = attempts, clock' = clock,
         restarts' = restarts + 1, Pending(k)' = {}
  PROVE  RowsSound(k)' /\ RowsBounded(k)'
<1>1. restarts' # 0
  OBVIOUS
<1>2. RowsSound(k)'
  BY <1>1 DEF RowsSound, Now
<1>3. Extra(k) \in Nat /\ Extra(k)' \in Nat /\ Extra(k) <= Extra(k)'
  BY <1>1, Limits DEF Extra
<1>4. Cardinality(attempts[k]) \in Nat
  BY Smaller DEF RowsSound
<1>5. RowsBounded(k)'
  <2> SUFFICES ASSUME LockoutDuration >= Window, RowsFit(k) PROVE RowsFit(k)'
    BY DEF RowsBounded
  <2>1. QED
    BY <1>3, <1>4, FS_EmptySet, Limits, Constants DEF RowsFit
<1>6. QED
  BY <1>2, <1>5

(* Time passes: what leaves the window is dropped on both sides. *)
LEMMA RowsAged ==
  ASSUME NEW k \in Identifiers, clock \in Nat, RowsSound(k), RowsBounded(k),
         attempts[k] \subseteq [at : Nat, nth : Nat],
         recent'[k] = Recent(recent[k]), attempts'[k] = Recent(attempts[k]),
         clock' = clock + 1, restarts' = restarts, Pending(k)' = Pending(k)
  PROVE  RowsSound(k)' /\ RowsBounded(k)'
<1> DEFINE A == attempts[k]
           R == recent[k]
<1>1. IsFiniteSet(A) /\ R \subseteq A
  BY DEF RowsSound
<1>2. Recent(R) \subseteq R /\ Recent(A) \subseteq A /\ Recent(R) \subseteq Recent(A)
  BY <1>1 DEF Recent
<1>3. Recent(A) \ Recent(R) \subseteq A \ R
  BY <1>1 DEF Recent
<1>4. IsFiniteSet(R) /\ IsFiniteSet(A \ R) /\ IsFiniteSet(Recent(A))
  BY <1>1, <1>2, Smaller
<1>5. RowsSound(k)'
  <2>1. \A g \in Recent(A) : g.at > clock + 1 - Window /\ g.at < clock + 1
    BY <1>2, Constants DEF Recent, RowsSound
  <2>2. (Now(attempts[k]))' = {}
    BY <2>1, <1>2, Constants DEF Now
  <2>3. \A g \in attempts'[k] : g.at > clock' - Window /\ g.at <= clock'
    BY <2>1, <1>2, Constants
  <2>4. QED
    BY <1>2, <1>4, <2>2, <2>3 DEF RowsSound
<1>6. RowsBounded(k)'
  <2> SUFFICES ASSUME LockoutDuration >= Window, RowsFit(k) PROVE RowsFit(k)'
    BY DEF RowsBounded
  <2>1. /\ Cardinality(Recent(R)) \in Nat /\ Cardinality(R) \in Nat
        /\ Cardinality(Recent(R)) <= Cardinality(R)
    BY <1>2, <1>4, Smaller
  <2>2. /\ Cardinality(Recent(A)) \in Nat /\ Cardinality(A) \in Nat
        /\ Cardinality(Recent(A)) <= Cardinality(A)
    BY <1>1, <1>2, Smaller
  <2>3. /\ Cardinality(Recent(A) \ Recent(R)) \in Nat /\ Cardinality(A \ R) \in Nat
        /\ Cardinality(Recent(A) \ Recent(R)) <= Cardinality(A \ R)
    BY <1>3, <1>4, Smaller
  <2>4. Cardinality(Pending(k)) \in Nat
    BY PendingFinite
  <2>5. Extra(k)' = Extra(k) /\ Extra(k) \in Nat
    BY Limits DEF Extra
  <2>6. Recent(R) # {} => R # {}
    BY <1>2
  <2> HIDE DEF A, R
  <2>7. attempts'[k] = Recent(A) /\ recent'[k] = Recent(R)
    BY DEF A, R
  <2>8. /\ Cardinality(R) + Cardinality(Pending(k)) <= Limit[k] - 1 + Cardinality(Requests)
        /\ R # {} \/ Pending(k) # {} => Cardinality(A \ R) <= Extra(k)
        /\ Cardinality(A) <= Extra(k) + Limit[k] - 1 + Cardinality(Requests)
    BY DEF A, R, RowsFit
  <2>9. QED
    BY <2>1, <2>2, <2>3, <2>4, <2>5, <2>6, <2>7, <2>8, Limits, Constants
    DEF RowsFit
<1>7. QED
  BY <1>5, <1>6

(* A request moves on with what it has read. *)
LEMMA RequestMoves ==
  ASSUME NEW q \in RequestRecords, NEW l \in Nat \cup {None}, NEW u \in SUBSET Codes
  PROVE  /\ [q EXCEPT !.pc = "totp", !.last = l] \in RequestRecords
         /\ [q EXCEPT !.pc = "recovery", !.unused = u] \in RequestRecords
<1>1. \A p \in RequestRecords : /\ [p EXCEPT !.pc = "totp"] \in RequestRecords
                               /\ [p EXCEPT !.pc = "recovery"] \in RequestRecords
  BY DEF RequestRecords
<1>2. \A p \in RequestRecords : [p EXCEPT !.last = l] \in RequestRecords
  BY DEF RequestRecords
<1>3. \A p \in RequestRecords : [p EXCEPT !.unused = u] \in RequestRecords
  BY DEF RequestRecords
<1>4. [q EXCEPT !.pc = "totp", !.last = l] = [[q EXCEPT !.pc = "totp"] EXCEPT !.last = l]
  OBVIOUS
<1>5. [q EXCEPT !.pc = "recovery", !.unused = u] =
        [[q EXCEPT !.pc = "recovery"] EXCEPT !.unused = u]
  OBVIOUS
<1>6. QED
  BY <1>1, <1>2, <1>3, <1>4, <1>5

(* The row a wrong answer adds. *)
LEMMA FailureType ==
  ASSUME NEW k \in Identifiers, clock \in Nat, RowsSound(k)
  PROVE  Failure(k) \in [at : Nat, nth : Nat]
<1>1. {a \in attempts[k] : a.at = clock} \subseteq attempts[k]
  OBVIOUS
<1>2. QED
  BY <1>1, Smaller DEF RowsSound, Failure

(* The clock, the cache and the rows keep their types. *)
LEMMA ThrottleTypesStep ==
  ASSUME IInv, [Next]_vars
  PROVE  (ThrottleTypeOK)'
PROOF
<1> DEFINE Goal == ThrottleTypeOK
<1> USE Constants DEF IInv, TypeOK, ThrottleTypeOK, throttleVars, fixed,
        accountVars, factorVars, ghostVars, opVars
<1>1. ASSUME NEW r \in Requests, LoginCheck(r) PROVE Goal'
  BY <1>1 DEF LoginCheck
<1>2. ASSUME NEW r \in Requests, LoginFails(r) PROVE Goal'
  <2>1. \A k \in Identifiers : Failure(k) \in [at : Nat, nth : Nat]
    BY FailureType DEF Counted
  <2>2. QED
    BY <1>2, <2>1 DEF LoginFails, Wrong, RecordFailure
<1>3. ASSUME NEW r \in Requests, LoginGood(r) PROVE Goal'
  BY <1>3 DEF LoginGood, RecordSuccess
<1>4. ASSUME NEW r \in Requests, VaultUnlock(r) PROVE Goal'
  BY <1>4 DEF VaultUnlock
<1>5. ASSUME NEW r \in Requests, RevokeOthers(r) PROVE Goal'
  BY <1>5 DEF RevokeOthers
<1>6. ASSUME NEW r \in Requests, MFAEnrol(r) PROVE Goal'
  BY <1>6 DEF MFAEnrol
<1>7. ASSUME NEW r \in Requests, MFADisable(r) PROVE Goal'
  BY <1>7 DEF MFADisable
<1>8. ASSUME NEW r \in Requests, Logout(r) PROVE Goal'
  BY <1>8 DEF Logout
<1>9. ASSUME NEW r \in Requests, VerifyLoad(r) PROVE Goal'
  BY <1>9 DEF VerifyLoad
<1>10. ASSUME NEW r \in Requests, VerifyFails(r) PROVE Goal'
  <2>1. \A k \in Identifiers : Failure(k) \in [at : Nat, nth : Nat]
    BY FailureType DEF Counted
  <2>2. QED
    BY <1>10, <2>1 DEF VerifyFails, Wrong, RecordFailure
<1>11. ASSUME NEW r \in Requests, RecoveryLoad(r) PROVE Goal'
  BY <1>11 DEF RecoveryLoad
<1>12. ASSUME NEW r \in Requests, RecoveryFails(r) PROVE Goal'
  <2>1. \A k \in Identifiers : Failure(k) \in [at : Nat, nth : Nat]
    BY FailureType DEF Counted
  <2>2. QED
    BY <1>12, <2>1 DEF RecoveryFails, Wrong, RecordFailure
<1>13. ASSUME NEW r \in Requests, Refused(r) PROVE Goal'
  BY <1>13 DEF Refused
<1>14. ASSUME NEW r \in Requests, ResolveSSOUser(r) PROVE Goal'
  BY <1>14 DEF ResolveSSOUser
<1>15. ASSUME NEW r \in Requests, NEW mfa \in Claims, SSOCallback(r, mfa)
      PROVE  Goal'
  BY <1>15 DEF SSOCallback
<1>16. ASSUME NEW r \in Requests, NEW s \in Sessions, IssueSession(r, s)
      PROVE  Goal'
  BY <1>16 DEF IssueSession
<1>17. ASSUME NEW r \in Requests, NEW s \in Sessions, Authenticate(r, s)
      PROVE  Goal'
  BY <1>17 DEF Authenticate
<1>18. ASSUME NEW r \in Requests, NEW s \in Sessions, RevokeSession(r, s)
      PROVE  Goal'
  BY <1>18 DEF RevokeSession
<1>19. ASSUME NEW r \in Requests, NEW c \in (Step - 1)..(Step + 1), MFAConfirm(r, c)
      PROVE  Goal'
  BY <1>19 DEF MFAConfirm, Step
<1>20. ASSUME NEW r \in Requests, NEW c \in (Step - 1)..(Step + 1), VerifyGood(r, c)
      PROVE  Goal'
  BY <1>20 DEF VerifyGood, RecordSuccess, Step
<1>21. ASSUME NEW r \in Requests, NEW k \in Codes, RecoveryGood(r, k)
      PROVE  Goal'
  BY <1>21 DEF RecoveryGood, RecordSuccess
<1>22. ASSUME NEW s \in Sessions, LookupExpired(s) PROVE Goal'
  BY <1>22 DEF LookupExpired
<1>23. ASSUME NEW s \in Sessions, VaultLocked(s) PROVE Goal'
  BY <1>23 DEF VaultLocked
<1>24. ASSUME SSOStart PROVE Goal'
  BY <1>24 DEF SSOStart
<1>25. ASSUME Suspend PROVE Goal'
  BY <1>25 DEF Suspend
<1>26. ASSUME RevokeAll PROVE Goal'
  BY <1>26 DEF RevokeAll
<1>27. ASSUME Reinstate PROVE Goal'
  BY <1>27 DEF Reinstate
<1>28. ASSUME Grant PROVE Goal'
  BY <1>28 DEF Grant
<1>29. ASSUME Restart PROVE Goal'
  BY <1>29 DEF Restart, CacheLost
<1>30. ASSUME Tick PROVE Goal'
  BY <1>30 DEF Tick, TimePasses, Recent
<1>31. ASSUME UNCHANGED vars PROVE Goal'
  BY <1>31 DEF vars
<1> HIDE Constants DEF Goal, IInv, TypeOK, ThrottleTypeOK, throttleVars,
        fixed, accountVars, factorVars, ghostVars, opVars
<1>32. Goal'
  BY <1>1, <1>2, <1>3, <1>4, <1>5, <1>6, <1>7, <1>8, <1>9, <1>10, <1>11,
     <1>12, <1>13, <1>14, <1>15, <1>16, <1>17, <1>18, <1>19, <1>20, <1>21,
     <1>22, <1>23, <1>24, <1>25, <1>26, <1>27, <1>28, <1>29, <1>30, <1>31
  DEF Next
<1>33. QED
  BY <1>32 DEF Goal

(* Revoking sessions leaves rows, and so does pushing an expiry on. *)
LEMMA RowsStay ==
  ASSUME sess \in [Sessions -> SessionRows]
  PROVE  /\ \A S : Revoked(S) \in [Sessions -> SessionRows]
         /\ \A s \in Sessions, t \in Nat :
              [sess EXCEPT ![s].idle = Earlier(t, sess[s].exp)] \in [Sessions -> SessionRows]
<1>1. \A s \in Sessions : [sess[s] EXCEPT !.state = "revoked"] \in SessionRows
  BY DEF SessionRows
<1>2. \A s \in Sessions, t \in Nat : [sess[s] EXCEPT !.idle = t] \in SessionRows
  BY DEF SessionRows
<1>3. \A s \in Sessions, t \in Nat : Earlier(t, sess[s].exp) \in Nat
  BY DEF SessionRows, Earlier
<1>4. QED
  BY <1>1, <1>2, <1>3 DEF Revoked

(* So do the sessions. *)
LEMMA SessionsStep ==
  ASSUME IInv, [Next]_vars
  PROVE  (sess \in [Sessions -> SessionRows])'
PROOF
<1> DEFINE Goal == sess \in [Sessions -> SessionRows]
<1> USE Constants DEF IInv, TypeOK, ThrottleTypeOK, SessionRows,
        RequestRecords, RequestsSound, throttleVars, fixed, accountVars,
        factorVars, ghostVars, opVars
<1>1. ASSUME NEW r \in Requests, LoginCheck(r) PROVE Goal'
  BY <1>1 DEF LoginCheck
<1>2. ASSUME NEW r \in Requests, LoginFails(r) PROVE Goal'
  BY <1>2 DEF LoginFails
<1>3. ASSUME NEW r \in Requests, LoginGood(r) PROVE Goal'
  BY <1>3 DEF LoginGood
<1>4. ASSUME NEW r \in Requests, VaultUnlock(r) PROVE Goal'
  BY <1>4 DEF VaultUnlock, In
<1>5. ASSUME NEW r \in Requests, RevokeOthers(r) PROVE Goal'
  BY <1>5 DEF RevokeOthers, In, Revoked
<1>6. ASSUME NEW r \in Requests, MFAEnrol(r) PROVE Goal'
  BY <1>6 DEF MFAEnrol, In
<1>7. ASSUME NEW r \in Requests, MFADisable(r) PROVE Goal'
  BY <1>7 DEF MFADisable, In
<1>8. ASSUME NEW r \in Requests, Logout(r) PROVE Goal'
  BY <1>8 DEF Logout, PreMFA, Revoked
<1>9. ASSUME NEW r \in Requests, VerifyLoad(r) PROVE Goal'
  BY <1>9 DEF VerifyLoad, PreMFA
<1>10. ASSUME NEW r \in Requests, VerifyFails(r) PROVE Goal'
  BY <1>10 DEF VerifyFails
<1>11. ASSUME NEW r \in Requests, RecoveryLoad(r) PROVE Goal'
  BY <1>11 DEF RecoveryLoad, PreMFA
<1>12. ASSUME NEW r \in Requests, RecoveryFails(r) PROVE Goal'
  BY <1>12 DEF RecoveryFails
<1>13. ASSUME NEW r \in Requests, Refused(r) PROVE Goal'
  BY <1>13 DEF Refused
<1>14. ASSUME NEW r \in Requests, ResolveSSOUser(r) PROVE Goal'
  BY <1>14 DEF ResolveSSOUser
<1>15. ASSUME NEW r \in Requests, NEW mfa \in Claims, SSOCallback(r, mfa)
      PROVE  Goal'
  BY <1>15 DEF SSOCallback
<1>16. ASSUME NEW r \in Requests, NEW s \in Sessions, IssueSession(r, s)
      PROVE  Goal'
  BY <1>16 DEF IssueSession
<1>17. ASSUME NEW r \in Requests, NEW s \in Sessions, Authenticate(r, s)
      PROVE  Goal'
  <2>1. sess \in [Sessions -> SessionRows] /\ clock + Idle \in Nat
    OBVIOUS
  <2>2. \/ sess' = Revoked(Sessions)
        \/ sess' = [sess EXCEPT ![s].idle = Earlier(clock + Idle, sess[s].exp)]
    BY <1>17 DEF Authenticate
  <2> HIDE DEF SessionRows
  <2>3. QED
    BY <2>1, <2>2, RowsStay
<1>18. ASSUME NEW r \in Requests, NEW s \in Sessions, RevokeSession(r, s)
      PROVE  Goal'
  <2>1. sess \in [Sessions -> SessionRows] /\ \E S : sess' = Revoked(S)
    BY <1>18 DEF RevokeSession, In
  <2> HIDE DEF SessionRows
  <2>2. QED
    BY <2>1, RowsStay
<1>19. ASSUME NEW r \in Requests, NEW c \in (Step - 1)..(Step + 1), MFAConfirm(r, c)
      PROVE  Goal'
  <2>1. req[r].s \in Sessions
    BY <1>19 DEF MFAConfirm, In
  <2>2. sess[req[r].s] \in SessionRows
    BY <2>1
  <2>3. [sess[req[r].s] EXCEPT !.mfa = TRUE] \in SessionRows
    BY <2>2
  <2>4. sess' = [sess EXCEPT ![req[r].s] = [sess[req[r].s] EXCEPT !.mfa = TRUE]]
    BY <1>19 DEF MFAConfirm
  <2> HIDE DEF SessionRows
  <2>5. QED
    BY <2>3, <2>4
<1>20. ASSUME NEW r \in Requests, NEW c \in (Step - 1)..(Step + 1), VerifyGood(r, c)
      PROVE  Goal'
  <2>1. req[r].s \in Sessions
    BY <1>20 DEF VerifyGood
  <2>2. sess[req[r].s] \in SessionRows
    BY <2>1
  <2>3. [sess[req[r].s] EXCEPT !.mfa = TRUE] \in SessionRows
    BY <2>2
  <2>4. sess' = [sess EXCEPT ![req[r].s] = [sess[req[r].s] EXCEPT !.mfa = TRUE]]
    BY <1>20 DEF VerifyGood
  <2> HIDE DEF SessionRows
  <2>5. QED
    BY <2>3, <2>4
<1>21. ASSUME NEW r \in Requests, NEW k \in Codes, RecoveryGood(r, k)
      PROVE  Goal'
  <2>1. req[r].s \in Sessions
    BY <1>21 DEF RecoveryGood
  <2>2. sess[req[r].s] \in SessionRows
    BY <2>1
  <2>3. [sess[req[r].s] EXCEPT !.mfa = TRUE] \in SessionRows
    BY <2>2
  <2>4. sess' = [sess EXCEPT ![req[r].s] = [sess[req[r].s] EXCEPT !.mfa = TRUE]]
    BY <1>21 DEF RecoveryGood
  <2> HIDE DEF SessionRows
  <2>5. QED
    BY <2>3, <2>4
<1>22. ASSUME NEW s \in Sessions, LookupExpired(s) PROVE Goal'
  BY <1>22 DEF LookupExpired
<1>23. ASSUME NEW s \in Sessions, VaultLocked(s) PROVE Goal'
  BY <1>23 DEF VaultLocked
<1>24. ASSUME SSOStart PROVE Goal'
  BY <1>24 DEF SSOStart
<1>25. ASSUME Suspend PROVE Goal'
  BY <1>25 DEF Suspend
<1>26. ASSUME RevokeAll PROVE Goal'
  BY <1>26 DEF RevokeAll, Revoked
<1>27. ASSUME Reinstate PROVE Goal'
  BY <1>27 DEF Reinstate
<1>28. ASSUME Grant PROVE Goal'
  BY <1>28 DEF Grant
<1>29. ASSUME Restart PROVE Goal'
  BY <1>29 DEF Restart
<1>30. ASSUME Tick PROVE Goal'
  BY <1>30 DEF Tick
<1>31. ASSUME UNCHANGED vars PROVE Goal'
  BY <1>31 DEF vars
<1> HIDE Constants DEF Goal, IInv, TypeOK, ThrottleTypeOK, SessionRows,
        RequestRecords, RequestsSound, throttleVars, fixed, accountVars,
        factorVars, ghostVars, opVars
<1>32. Goal'
  BY <1>1, <1>2, <1>3, <1>4, <1>5, <1>6, <1>7, <1>8, <1>9, <1>10, <1>11,
     <1>12, <1>13, <1>14, <1>15, <1>16, <1>17, <1>18, <1>19, <1>20, <1>21,
     <1>22, <1>23, <1>24, <1>25, <1>26, <1>27, <1>28, <1>29, <1>30, <1>31
  DEF Next
<1>33. QED
  BY <1>32 DEF Goal

(* And the requests. *)
LEMMA RequestsStep ==
  ASSUME IInv, [Next]_vars
  PROVE  (req \in [Requests -> RequestRecords] /\ RequestsSound)'
PROOF
<1> DEFINE Goal == req \in [Requests -> RequestRecords] /\ RequestsSound
<1> USE Constants DEF IInv, TypeOK, ThrottleTypeOK, RequestRecords,
        RequestsSound, Idler, throttleVars, fixed, accountVars, factorVars,
        ghostVars, opVars
<1>1. ASSUME NEW r \in Requests, LoginCheck(r) PROVE Goal'
  BY <1>1 DEF LoginCheck
<1>2. ASSUME NEW r \in Requests, LoginFails(r) PROVE Goal'
  BY <1>2 DEF LoginFails, Done
<1>3. ASSUME NEW r \in Requests, LoginGood(r) PROVE Goal'
  BY <1>3 DEF LoginGood
<1>4. ASSUME NEW r \in Requests, VaultUnlock(r) PROVE Goal'
  BY <1>4 DEF VaultUnlock, In, Done
<1>5. ASSUME NEW r \in Requests, RevokeOthers(r) PROVE Goal'
  BY <1>5 DEF RevokeOthers, In, Done
<1>6. ASSUME NEW r \in Requests, MFAEnrol(r) PROVE Goal'
  BY <1>6 DEF MFAEnrol, In, Done
<1>7. ASSUME NEW r \in Requests, MFADisable(r) PROVE Goal'
  BY <1>7 DEF MFADisable, In, Done
<1>8. ASSUME NEW r \in Requests, Logout(r) PROVE Goal'
  BY <1>8 DEF Logout, PreMFA, Done
<1>9. ASSUME NEW r \in Requests, VerifyLoad(r) PROVE Goal'
  <2>1. CASE totp = None
    <3>1. req' = [req EXCEPT ![r] = Idler]
      BY <1>9, <2>1 DEF VerifyLoad, Done
    <3>2. Idler \in RequestRecords /\ Idler.pc = "idle"
      OBVIOUS
    <3> HIDE DEF Idler, RequestRecords
    <3>3. QED
      BY <3>1, <3>2
  <2>2. CASE totp # None
    <3>1. totp \in Nat /\ req[r].pc = "in" /\ req[r].s \in Sessions
      BY <1>9, <2>2 DEF VerifyLoad, PreMFA
    <3>2. req' = [req EXCEPT ![r] = [req[r] EXCEPT !.pc = "totp", !.last = totp]]
      BY <1>9, <2>2 DEF VerifyLoad
    <3> HIDE DEF RequestRecords
    <3>3. [req[r] EXCEPT !.pc = "totp", !.last = totp] \in RequestRecords
      BY ZenonT(20), <3>1, RequestMoves
    <3>4. QED
      BY <3>1, <3>2, <3>3
  <2>3. QED
    BY <2>1, <2>2
<1>10. ASSUME NEW r \in Requests, VerifyFails(r) PROVE Goal'
  BY <1>10 DEF VerifyFails, Done
<1>11. ASSUME NEW r \in Requests, RecoveryLoad(r) PROVE Goal'
  <2>1. req[r].pc = "in" /\ req[r].s \in Sessions
    BY <1>11 DEF RecoveryLoad, PreMFA
  <2>2. req' = [req EXCEPT ![r] = [req[r] EXCEPT !.pc = "recovery", !.unused = Unused]]
    BY <1>11 DEF RecoveryLoad
  <2> HIDE DEF RequestRecords
  <2>3. [req[r] EXCEPT !.pc = "recovery", !.unused = Unused] \in RequestRecords
    BY ZenonT(20), RequestMoves DEF Unused
  <2>4. QED
    BY <2>1, <2>2, <2>3
<1>12. ASSUME NEW r \in Requests, RecoveryFails(r) PROVE Goal'
  BY <1>12 DEF RecoveryFails, Done
<1>13. ASSUME NEW r \in Requests, Refused(r) PROVE Goal'
  BY <1>13 DEF Refused, Done
<1>14. ASSUME NEW r \in Requests, ResolveSSOUser(r) PROVE Goal'
  BY <1>14 DEF ResolveSSOUser
<1>15. ASSUME NEW r \in Requests, NEW mfa \in Claims, SSOCallback(r, mfa)
      PROVE  Goal'
  BY <1>15 DEF SSOCallback, Claims
<1>16. ASSUME NEW r \in Requests, NEW s \in Sessions, IssueSession(r, s)
      PROVE  Goal'
  BY <1>16 DEF IssueSession, Done
<1>17. ASSUME NEW r \in Requests, NEW s \in Sessions, Authenticate(r, s)
      PROVE  Goal'
  <2>1. CASE disabled
    BY <1>17, <2>1 DEF Authenticate
  <2>2. CASE ~disabled
    <3> DEFINE q == [pc |-> "in", s |-> s, mfa |-> sess[s].mfa, enabled |-> enabled,
                     last |-> None, unused |-> {}]
    <3>1. req' = [req EXCEPT ![r] = q]
      BY <1>17, <2>2 DEF Authenticate
    <3>2. sess[s].mfa \in BOOLEAN
      BY DEF SessionRows
    <3>3. q \in RequestRecords /\ q.pc = "in" /\ q.s = s
      BY <3>2
    <3> HIDE DEF q
    <3>4. QED
      BY <3>1, <3>3
  <2>3. QED
    BY <2>1, <2>2
<1>18. ASSUME NEW r \in Requests, NEW s \in Sessions, RevokeSession(r, s)
      PROVE  Goal'
  BY <1>18 DEF RevokeSession, In, Done
<1>19. ASSUME NEW r \in Requests, NEW c \in (Step - 1)..(Step + 1), MFAConfirm(r, c)
      PROVE  Goal'
  BY <1>19 DEF MFAConfirm, In, Done
<1>20. ASSUME NEW r \in Requests, NEW c \in (Step - 1)..(Step + 1), VerifyGood(r, c)
      PROVE  Goal'
  BY <1>20 DEF VerifyGood, Done
<1>21. ASSUME NEW r \in Requests, NEW k \in Codes, RecoveryGood(r, k)
      PROVE  Goal'
  BY <1>21 DEF RecoveryGood, Unused, Done
<1>22. ASSUME NEW s \in Sessions, LookupExpired(s) PROVE Goal'
  BY <1>22 DEF LookupExpired
<1>23. ASSUME NEW s \in Sessions, VaultLocked(s) PROVE Goal'
  BY <1>23 DEF VaultLocked
<1>24. ASSUME SSOStart PROVE Goal'
  BY <1>24 DEF SSOStart
<1>25. ASSUME Suspend PROVE Goal'
  BY <1>25 DEF Suspend
<1>26. ASSUME RevokeAll PROVE Goal'
  BY <1>26 DEF RevokeAll
<1>27. ASSUME Reinstate PROVE Goal'
  BY <1>27 DEF Reinstate
<1>28. ASSUME Grant PROVE Goal'
  BY <1>28 DEF Grant
<1>29. ASSUME Restart PROVE Goal'
  BY <1>29 DEF Restart
<1>30. ASSUME Tick PROVE Goal'
  BY <1>30 DEF Tick
<1>31. ASSUME UNCHANGED vars PROVE Goal'
  BY <1>31 DEF vars
<1> HIDE Constants DEF Goal, IInv, TypeOK, ThrottleTypeOK, RequestRecords,
        RequestsSound, Idler, throttleVars, fixed, accountVars, factorVars,
        ghostVars, opVars
<1>32. Goal'
  BY <1>1, <1>2, <1>3, <1>4, <1>5, <1>6, <1>7, <1>8, <1>9, <1>10, <1>11,
     <1>12, <1>13, <1>14, <1>15, <1>16, <1>17, <1>18, <1>19, <1>20, <1>21,
     <1>22, <1>23, <1>24, <1>25, <1>26, <1>27, <1>28, <1>29, <1>30, <1>31
  DEF Next
<1>33. QED
  BY <1>32 DEF Goal

(* And everything else of the account. *)
LEMMA RestStep ==
  ASSUME IInv, [Next]_vars
  PROVE  (/\ workload \in Workloads /\ policy \in {"required", "optional"}
                     /\ disabled \in BOOLEAN /\ admin \in BOOLEAN /\ enabled \in BOOLEAN
                     /\ keys \subseteq Sessions
                     /\ totp \in Nat \cup {None}
                     /\ codes \in [Codes -> {"absent", "unused", "used"}]
                     /\ sso \in Nat \cup {None} /\ op \in {"idle", "revoke"} /\ changes \in Nat
                     /\ spent \subseteq Codes \cup Nat
                     /\ replayed \in BOOLEAN /\ raced \in BOOLEAN)'
PROOF
<1> DEFINE Goal == /\ workload \in Workloads /\ policy \in {"required", "optional"}
                     /\ disabled \in BOOLEAN /\ admin \in BOOLEAN /\ enabled \in BOOLEAN
                     /\ keys \subseteq Sessions
                     /\ totp \in Nat \cup {None}
                     /\ codes \in [Codes -> {"absent", "unused", "used"}]
                     /\ sso \in Nat \cup {None} /\ op \in {"idle", "revoke"} /\ changes \in Nat
                     /\ spent \subseteq Codes \cup Nat
                     /\ replayed \in BOOLEAN /\ raced \in BOOLEAN
<1> USE Constants DEF IInv, TypeOK, ThrottleTypeOK, RequestsSound,
        throttleVars, fixed, accountVars, factorVars, ghostVars, opVars
<1>1. ASSUME NEW r \in Requests, LoginCheck(r) PROVE Goal'
  BY <1>1 DEF LoginCheck
<1>2. ASSUME NEW r \in Requests, LoginFails(r) PROVE Goal'
  BY <1>2 DEF LoginFails
<1>3. ASSUME NEW r \in Requests, LoginGood(r) PROVE Goal'
  BY <1>3 DEF LoginGood
<1>4. ASSUME NEW r \in Requests, VaultUnlock(r) PROVE Goal'
  BY <1>4 DEF VaultUnlock, In
<1>5. ASSUME NEW r \in Requests, RevokeOthers(r) PROVE Goal'
  BY <1>5 DEF RevokeOthers, In
<1>6. ASSUME NEW r \in Requests, MFAEnrol(r) PROVE Goal'
  BY <1>6 DEF MFAEnrol, In
<1>7. ASSUME NEW r \in Requests, MFADisable(r) PROVE Goal'
  BY <1>7 DEF MFADisable, In
<1>8. ASSUME NEW r \in Requests, Logout(r) PROVE Goal'
  BY <1>8 DEF Logout, PreMFA
<1>9. ASSUME NEW r \in Requests, VerifyLoad(r) PROVE Goal'
  BY <1>9 DEF VerifyLoad, PreMFA
<1>10. ASSUME NEW r \in Requests, VerifyFails(r) PROVE Goal'
  BY <1>10 DEF VerifyFails
<1>11. ASSUME NEW r \in Requests, RecoveryLoad(r) PROVE Goal'
  BY <1>11 DEF RecoveryLoad, PreMFA, Unused
<1>12. ASSUME NEW r \in Requests, RecoveryFails(r) PROVE Goal'
  BY <1>12 DEF RecoveryFails
<1>13. ASSUME NEW r \in Requests, Refused(r) PROVE Goal'
  BY <1>13 DEF Refused
<1>14. ASSUME NEW r \in Requests, ResolveSSOUser(r) PROVE Goal'
  BY <1>14 DEF ResolveSSOUser
<1>15. ASSUME NEW r \in Requests, NEW mfa \in Claims, SSOCallback(r, mfa)
      PROVE  Goal'
  BY <1>15 DEF SSOCallback, Claims
<1>16. ASSUME NEW r \in Requests, NEW s \in Sessions, IssueSession(r, s)
      PROVE  Goal'
  BY <1>16 DEF IssueSession
<1>17. ASSUME NEW r \in Requests, NEW s \in Sessions, Authenticate(r, s)
      PROVE  Goal'
  BY <1>17 DEF Authenticate
<1>18. ASSUME NEW r \in Requests, NEW s \in Sessions, RevokeSession(r, s)
      PROVE  Goal'
  BY <1>18 DEF RevokeSession, In
<1>19. ASSUME NEW r \in Requests, NEW c \in (Step - 1)..(Step + 1), MFAConfirm(r, c)
      PROVE  Goal'
  BY <1>19 DEF MFAConfirm, In, VerifyTOTP, Step
<1>20. ASSUME NEW r \in Requests, NEW c \in (Step - 1)..(Step + 1), VerifyGood(r, c)
      PROVE  Goal'
  BY <1>20 DEF VerifyGood, VerifyTOTP, Step
<1>21. ASSUME NEW r \in Requests, NEW k \in Codes, RecoveryGood(r, k)
      PROVE  Goal'
  BY <1>21 DEF RecoveryGood, Unused
<1>22. ASSUME NEW s \in Sessions, LookupExpired(s) PROVE Goal'
  BY <1>22 DEF LookupExpired
<1>23. ASSUME NEW s \in Sessions, VaultLocked(s) PROVE Goal'
  BY <1>23 DEF VaultLocked
<1>24. ASSUME SSOStart PROVE Goal'
  BY <1>24 DEF SSOStart, sealState
<1>25. ASSUME Suspend PROVE Goal'
  BY <1>25 DEF Suspend, Change
<1>26. ASSUME RevokeAll PROVE Goal'
  BY <1>26 DEF RevokeAll
<1>27. ASSUME Reinstate PROVE Goal'
  <2>1. disabled' = FALSE /\ changes' = changes + 1
    BY <1>27 DEF Reinstate, Change
  <2>2. UNCHANGED <<fixed, admin, enabled, keys, factorVars, sso, op, ghostVars>>
    BY <1>27 DEF Reinstate
  <2>3. disabled' \in BOOLEAN /\ changes' \in Nat
    <3>1. disabled' \in BOOLEAN
      BY <2>1, Zenon
    <3>2. changes \in Nat
      BY Zenon
    <3>3. changes' \in Nat
      BY <2>1, <3>2
    <3>4. QED
      BY <3>1, <3>3
  <2>4. /\ workload' \in Workloads /\ policy' \in {"required", "optional"}
        /\ admin' \in BOOLEAN /\ enabled' \in BOOLEAN
    BY <2>2
  <2>5. /\ keys' \subseteq Sessions /\ totp' \in Nat \cup {None} /\ sso' \in Nat \cup {None}
        /\ codes' \in [Codes -> {"absent", "unused", "used"}]
        /\ op' \in {"idle", "revoke"}
    BY <2>2
  <2>6. spent' \subseteq Codes \cup Nat /\ replayed' \in BOOLEAN /\ raced' \in BOOLEAN
    BY <2>2
  <2>7. QED
    BY <2>3, <2>4, <2>5, <2>6
<1>28. ASSUME Grant PROVE Goal'
  BY <1>28 DEF Grant, Change
<1>29. ASSUME Restart PROVE Goal'
  BY <1>29 DEF Restart
<1>30. ASSUME Tick PROVE Goal'
  BY <1>30 DEF Tick
<1>31. ASSUME UNCHANGED vars PROVE Goal'
  BY <1>31 DEF vars
<1> HIDE Constants DEF Goal, IInv, TypeOK, ThrottleTypeOK, RequestsSound,
        throttleVars, fixed, accountVars, factorVars, ghostVars, opVars
<1>32. Goal'
  BY <1>1, <1>2, <1>3, <1>4, <1>5, <1>6, <1>7, <1>8, <1>9, <1>10, <1>11,
     <1>12, <1>13, <1>14, <1>15, <1>16, <1>17, <1>18, <1>19, <1>20, <1>21,
     <1>22, <1>23, <1>24, <1>25, <1>26, <1>27, <1>28, <1>29, <1>30, <1>31
  DEF Next
<1>33. QED
  BY <1>32 DEF Goal

(* A session that is live in a suspended account was issued after the flag  *)
(* was set, or RevokeAllForUser has still to run.                           *)
LEMMA SuspensionStep ==
  ASSUME IInv, [Next]_vars
  PROVE  (SuspensionEndsSessions)'
PROOF
<1> DEFINE Goal == SuspensionEndsSessions
<1> USE Constants DEF IInv, TypeOK, SuspensionEndsSessions, SessionRows,
        throttleVars, fixed, accountVars, factorVars, ghostVars, opVars
<1>1. ASSUME NEW r \in Requests, LoginCheck(r) PROVE Goal'
  BY <1>1 DEF LoginCheck
<1>2. ASSUME NEW r \in Requests, LoginFails(r) PROVE Goal'
  BY <1>2 DEF LoginFails
<1>3. ASSUME NEW r \in Requests, LoginGood(r) PROVE Goal'
  BY <1>3 DEF LoginGood
<1>4. ASSUME NEW r \in Requests, VaultUnlock(r) PROVE Goal'
  BY <1>4 DEF VaultUnlock, In
<1>5. ASSUME NEW r \in Requests, RevokeOthers(r) PROVE Goal'
  BY <1>5 DEF RevokeOthers, In, Revoked
<1>6. ASSUME NEW r \in Requests, MFAEnrol(r) PROVE Goal'
  BY <1>6 DEF MFAEnrol, In
<1>7. ASSUME NEW r \in Requests, MFADisable(r) PROVE Goal'
  BY <1>7 DEF MFADisable, In
<1>8. ASSUME NEW r \in Requests, Logout(r) PROVE Goal'
  BY <1>8 DEF Logout, PreMFA, Revoked
<1>9. ASSUME NEW r \in Requests, VerifyLoad(r) PROVE Goal'
  BY <1>9 DEF VerifyLoad, PreMFA
<1>10. ASSUME NEW r \in Requests, VerifyFails(r) PROVE Goal'
  BY <1>10 DEF VerifyFails
<1>11. ASSUME NEW r \in Requests, RecoveryLoad(r) PROVE Goal'
  BY <1>11 DEF RecoveryLoad, PreMFA
<1>12. ASSUME NEW r \in Requests, RecoveryFails(r) PROVE Goal'
  BY <1>12 DEF RecoveryFails
<1>13. ASSUME NEW r \in Requests, Refused(r) PROVE Goal'
  BY <1>13 DEF Refused
<1>14. ASSUME NEW r \in Requests, ResolveSSOUser(r) PROVE Goal'
  BY <1>14 DEF ResolveSSOUser
<1>15. ASSUME NEW r \in Requests, NEW mfa \in Claims, SSOCallback(r, mfa)
      PROVE  Goal'
  BY <1>15 DEF SSOCallback
<1>16. ASSUME NEW r \in Requests, NEW s \in Sessions, IssueSession(r, s)
      PROVE  Goal'
  BY <1>16 DEF IssueSession
<1>17. ASSUME NEW r \in Requests, NEW s \in Sessions, Authenticate(r, s)
      PROVE  Goal'
  BY <1>17 DEF Authenticate, Revoked, Earlier
<1>18. ASSUME NEW r \in Requests, NEW s \in Sessions, RevokeSession(r, s)
      PROVE  Goal'
  BY <1>18 DEF RevokeSession, In, Revoked
<1>19. ASSUME NEW r \in Requests, NEW c \in (Step - 1)..(Step + 1), MFAConfirm(r, c)
      PROVE  Goal'
  BY <1>19 DEF MFAConfirm, In
<1>20. ASSUME NEW r \in Requests, NEW c \in (Step - 1)..(Step + 1), VerifyGood(r, c)
      PROVE  Goal'
  BY <1>20 DEF VerifyGood
<1>21. ASSUME NEW r \in Requests, NEW k \in Codes, RecoveryGood(r, k)
      PROVE  Goal'
  BY <1>21 DEF RecoveryGood
<1>22. ASSUME NEW s \in Sessions, LookupExpired(s) PROVE Goal'
  BY <1>22 DEF LookupExpired
<1>23. ASSUME NEW s \in Sessions, VaultLocked(s) PROVE Goal'
  BY <1>23 DEF VaultLocked
<1>24. ASSUME SSOStart PROVE Goal'
  BY <1>24 DEF SSOStart
<1>25. ASSUME Suspend PROVE Goal'
  BY <1>25 DEF Suspend, Change
<1>26. ASSUME RevokeAll PROVE Goal'
  BY <1>26 DEF RevokeAll, Revoked
<1>27. ASSUME Reinstate PROVE Goal'
  BY <1>27 DEF Reinstate, Change
<1>28. ASSUME Grant PROVE Goal'
  BY <1>28 DEF Grant, Change
<1>29. ASSUME Restart PROVE Goal'
  BY <1>29 DEF Restart
<1>30. ASSUME Tick PROVE Goal'
  BY <1>30 DEF Tick
<1>31. ASSUME UNCHANGED vars PROVE Goal'
  BY <1>31 DEF vars
<1> HIDE Constants DEF Goal, IInv, TypeOK, SuspensionEndsSessions,
        SessionRows, throttleVars, fixed, accountVars, factorVars, ghostVars,
        opVars
<1>32. Goal'
  BY <1>1, <1>2, <1>3, <1>4, <1>5, <1>6, <1>7, <1>8, <1>9, <1>10, <1>11,
     <1>12, <1>13, <1>14, <1>15, <1>16, <1>17, <1>18, <1>19, <1>20, <1>21,
     <1>22, <1>23, <1>24, <1>25, <1>26, <1>27, <1>28, <1>29, <1>30, <1>31
  DEF Next
<1>33. QED
  BY <1>32 DEF Goal

(* VerifyTOTP accepts above the last step only, and a recovery code in use  *)
(* was unused when it was loaded.                                           *)
LEMMA CodesStep ==
  ASSUME IInv, [Next]_vars
  PROVE  (CodesOnce /\ CodesMarked)'
PROOF
<1> DEFINE Goal == CodesOnce /\ CodesMarked
<1> USE Constants DEF IInv, TypeOK, ThrottleTypeOK, CodesOnce, CodesMarked,
        RequestsSound, throttleVars, fixed, accountVars, factorVars,
        ghostVars, opVars
<1>1. ASSUME NEW r \in Requests, LoginCheck(r) PROVE Goal'
  BY <1>1 DEF LoginCheck
<1>2. ASSUME NEW r \in Requests, LoginFails(r) PROVE Goal'
  BY <1>2 DEF LoginFails
<1>3. ASSUME NEW r \in Requests, LoginGood(r) PROVE Goal'
  BY <1>3 DEF LoginGood
<1>4. ASSUME NEW r \in Requests, VaultUnlock(r) PROVE Goal'
  BY <1>4 DEF VaultUnlock, In
<1>5. ASSUME NEW r \in Requests, RevokeOthers(r) PROVE Goal'
  BY <1>5 DEF RevokeOthers, In
<1>6. ASSUME NEW r \in Requests, MFAEnrol(r) PROVE Goal'
  BY <1>6 DEF MFAEnrol, In
<1>7. ASSUME NEW r \in Requests, MFADisable(r) PROVE Goal'
  BY <1>7 DEF MFADisable, In
<1>8. ASSUME NEW r \in Requests, Logout(r) PROVE Goal'
  BY <1>8 DEF Logout, PreMFA
<1>9. ASSUME NEW r \in Requests, VerifyLoad(r) PROVE Goal'
  BY <1>9 DEF VerifyLoad, PreMFA
<1>10. ASSUME NEW r \in Requests, VerifyFails(r) PROVE Goal'
  BY <1>10 DEF VerifyFails
<1>11. ASSUME NEW r \in Requests, RecoveryLoad(r) PROVE Goal'
  BY <1>11 DEF RecoveryLoad, PreMFA, Unused
<1>12. ASSUME NEW r \in Requests, RecoveryFails(r) PROVE Goal'
  BY <1>12 DEF RecoveryFails
<1>13. ASSUME NEW r \in Requests, Refused(r) PROVE Goal'
  BY <1>13 DEF Refused
<1>14. ASSUME NEW r \in Requests, ResolveSSOUser(r) PROVE Goal'
  BY <1>14 DEF ResolveSSOUser
<1>15. ASSUME NEW r \in Requests, NEW mfa \in Claims, SSOCallback(r, mfa)
      PROVE  Goal'
  BY <1>15 DEF SSOCallback
<1>16. ASSUME NEW r \in Requests, NEW s \in Sessions, IssueSession(r, s)
      PROVE  Goal'
  BY <1>16 DEF IssueSession
<1>17. ASSUME NEW r \in Requests, NEW s \in Sessions, Authenticate(r, s)
      PROVE  Goal'
  BY <1>17 DEF Authenticate
<1>18. ASSUME NEW r \in Requests, NEW s \in Sessions, RevokeSession(r, s)
      PROVE  Goal'
  BY <1>18 DEF RevokeSession, In
<1>19. ASSUME NEW r \in Requests, NEW c \in (Step - 1)..(Step + 1), MFAConfirm(r, c)
      PROVE  Goal'
  BY <1>19 DEF MFAConfirm, In, VerifyTOTP, Step
<1>20. ASSUME NEW r \in Requests, NEW c \in (Step - 1)..(Step + 1), VerifyGood(r, c)
      PROVE  Goal'
  <2>1. /\ c \in Nat /\ req[r].last \in Nat /\ c > req[r].last
        /\ totp' = IF totp = None THEN None ELSE c
        /\ codes' = codes
    BY <1>20 DEF VerifyGood, VerifyTOTP, Step
  <2>2. raced' = (raced \/ totp # req[r].last)
    BY <1>20 DEF VerifyGood
  <2>3. replayed' = (replayed \/ (c \in spent /\ ~raced'))
    BY <1>20 DEF VerifyGood
  <2>4. CASE raced'
    BY <2>3, <2>4
  <2>5. CASE ~raced'
    <3> spent' = spent \cup {c}
      BY <1>20, <2>5 DEF VerifyGood
    <3>1. ~raced /\ totp = req[r].last
      BY <2>2, <2>5
    <3>2. totp \in Nat /\ totp # None
      BY <2>1, <3>1
    <3>3. c \notin spent
      BY <2>1, <3>1, <3>2
    <3>4. ~replayed'
      BY <2>3, <3>3
    <3>5. \A d \in spent' : d \in Nat => totp' # None /\ d <= totp'
      BY <2>1, <3>1, <3>2
    <3>6. \A d \in spent' : d \in Codes => codes'[d] # "unused"
      BY <2>1, <3>1
    <3>7. QED
      BY <3>4, <3>5, <3>6
  <2>6. QED
    BY <2>4, <2>5
<1>21. ASSUME NEW r \in Requests, NEW k \in Codes, RecoveryGood(r, k)
      PROVE  Goal'
  BY <1>21 DEF RecoveryGood, Unused
<1>22. ASSUME NEW s \in Sessions, LookupExpired(s) PROVE Goal'
  BY <1>22 DEF LookupExpired
<1>23. ASSUME NEW s \in Sessions, VaultLocked(s) PROVE Goal'
  BY <1>23 DEF VaultLocked
<1>24. ASSUME SSOStart PROVE Goal'
  BY <1>24 DEF SSOStart
<1>25. ASSUME Suspend PROVE Goal'
  BY <1>25 DEF Suspend, Change
<1>26. ASSUME RevokeAll PROVE Goal'
  BY <1>26 DEF RevokeAll
<1>27. ASSUME Reinstate PROVE Goal'
  BY <1>27 DEF Reinstate, Change
<1>28. ASSUME Grant PROVE Goal'
  BY <1>28 DEF Grant, Change
<1>29. ASSUME Restart PROVE Goal'
  BY <1>29 DEF Restart
<1>30. ASSUME Tick PROVE Goal'
  BY <1>30 DEF Tick
<1>31. ASSUME UNCHANGED vars PROVE Goal'
  BY <1>31 DEF vars
<1> HIDE Constants DEF Goal, IInv, TypeOK, ThrottleTypeOK, CodesOnce,
        CodesMarked, RequestsSound, throttleVars, fixed, accountVars,
        factorVars, ghostVars, opVars
<1>32. Goal'
  BY <1>1, <1>2, <1>3, <1>4, <1>5, <1>6, <1>7, <1>8, <1>9, <1>10, <1>11,
     <1>12, <1>13, <1>14, <1>15, <1>16, <1>17, <1>18, <1>19, <1>20, <1>21,
     <1>22, <1>23, <1>24, <1>25, <1>26, <1>27, <1>28, <1>29, <1>30, <1>31
  DEF Next
<1>33. QED
  BY <1>32 DEF Goal

(* The types of the next state, together. *)
LEMMA TypesStep ==
  ASSUME IInv, [Next]_vars
  PROVE  TypeOK' /\ RequestsSound'
  BY ThrottleTypesStep, SessionsStep, RequestsStep, RestStep DEF TypeOK

(* However the requests interleave, the rows of an identifier stay within    *)
(* the bound: one of the lemmas above for each of what an action may do.     *)
LEMMA CountedStep ==
  ASSUME IInv, [Next]_vars, NEW i \in Identifiers
  PROVE  RowsSound(i)' /\ RowsBounded(i)'
<1> DEFINE Goal == RowsSound(i) /\ RowsBounded(i)
<1>0. /\ RowsSound(i) /\ RowsBounded(i) /\ clock \in Nat /\ restarts \in Nat
      /\ attempts[i] \subseteq [at : Nat, nth : Nat]
      /\ req \in [Requests -> RequestRecords]
  BY DEF IInv, Counted, TypeOK, ThrottleTypeOK
<1>1. ASSUME NEW r \in Requests, LoginCheck(r) PROVE Goal'
  <2>1. CASE i \in {"address", "account"}
    <3>1. r \notin Pending(i) /\ Pending(i)' = Pending(i) \cup {r}
      BY <1>1, <2>1, <1>0, Constants
      DEF LoginCheck, Pending, Asked, RequestRecords
    <3>2. Check(i)
      BY <1>1, <2>1 DEF LoginCheck
    <3>3. QED
      BY <1>1, <1>0, <3>1, <3>2, RowsAsked DEF LoginCheck, throttleVars
  <2>2. CASE ~(i \in {"address", "account"})
    <3>1. Pending(i)' \subseteq Pending(i)
      BY <1>1, <2>2, <1>0, Constants
      DEF LoginCheck, Pending, Asked, RequestRecords
    <3>2. QED
      BY <1>1, <1>0, <3>1, RowsKept DEF LoginCheck, throttleVars
  <2>3. QED
    BY <2>1, <2>2
<1>2. ASSUME NEW r \in Requests, LoginFails(r) PROVE Goal'
  <2>1. CASE i \in {"address", "account"}
    <3>1. r \in Pending(i) /\ Pending(i)' = Pending(i) \ {r}
      BY <1>2, <2>1, <1>0, Constants
      DEF LoginFails, Done, Idler, Pending, Asked, RequestRecords
    <3>2. /\ recent'[i] = recent[i] \cup {Failure(i)}
          /\ attempts'[i] = attempts[i] \cup {Failure(i)}
      BY <1>2, <2>1 DEF LoginFails, Wrong, RecordFailure
    <3>3. QED
      BY <1>2, <1>0, <3>1, <3>2, RowsFailed
      DEF LoginFails, Wrong, RecordFailure
  <2>2. CASE ~(i \in {"address", "account"})
    <3>1. Pending(i)' \subseteq Pending(i)
      BY <1>2, <1>0 DEF LoginFails, Done, Idler, Pending, Asked, RequestRecords
    <3>2. recent'[i] = recent[i] /\ attempts'[i] = attempts[i]
      BY <1>2, <2>2, <1>0 DEF LoginFails, Wrong, RecordFailure
    <3>3. QED
      BY <1>2, <1>0, <3>1, <3>2, RowsKept DEF LoginFails, Wrong, RecordFailure
  <2>3. QED
    BY <2>1, <2>2
<1>3. ASSUME NEW r \in Requests, LoginGood(r) PROVE Goal'
  <2>1. CASE i \in {"address", "account"}
    <3>1. recent'[i] = {} /\ attempts'[i] = {}
      BY <1>3, <2>1 DEF LoginGood, RecordSuccess
    <3>2. QED
      BY <1>3, <3>1, RowsCleared DEF LoginGood, RecordSuccess
  <2>2. CASE ~(i \in {"address", "account"})
    <3>1. Pending(i)' \subseteq Pending(i)
      BY <1>3, <1>0 DEF LoginGood, Done, Idler, Pending, Asked, RequestRecords
    <3>2. recent'[i] = recent[i] /\ attempts'[i] = attempts[i]
      BY <1>3, <2>2, <1>0 DEF LoginGood, RecordSuccess
    <3>3. QED
      BY <1>3, <1>0, <3>1, <3>2, RowsKept DEF LoginGood, RecordSuccess
  <2>3. QED
    BY <2>1, <2>2
<1>4. ASSUME NEW r \in Requests, VaultUnlock(r) PROVE Goal'
  <2>1. Pending(i)' \subseteq Pending(i)
    BY <1>4, <1>0 DEF VaultUnlock, Done, Idler, Pending, Asked, RequestRecords
  <2>2. QED
    BY <1>4, <1>0, <2>1, RowsKept DEF VaultUnlock, throttleVars
<1>5. ASSUME NEW r \in Requests, RevokeOthers(r) PROVE Goal'
  <2>1. Pending(i)' \subseteq Pending(i)
    BY <1>5, <1>0 DEF RevokeOthers, Done, Idler, Pending, Asked, RequestRecords
  <2>2. QED
    BY <1>5, <1>0, <2>1, RowsKept DEF RevokeOthers, throttleVars
<1>6. ASSUME NEW r \in Requests, MFAEnrol(r) PROVE Goal'
  <2>1. Pending(i)' \subseteq Pending(i)
    BY <1>6, <1>0 DEF MFAEnrol, Done, Idler, Pending, Asked, RequestRecords
  <2>2. QED
    BY <1>6, <1>0, <2>1, RowsKept DEF MFAEnrol, throttleVars
<1>7. ASSUME NEW r \in Requests, MFADisable(r) PROVE Goal'
  <2>1. Pending(i)' \subseteq Pending(i)
    BY <1>7, <1>0 DEF MFADisable, Done, Idler, Pending, Asked, RequestRecords
  <2>2. QED
    BY <1>7, <1>0, <2>1, RowsKept DEF MFADisable, throttleVars
<1>8. ASSUME NEW r \in Requests, Logout(r) PROVE Goal'
  <2>1. Pending(i)' \subseteq Pending(i)
    BY <1>8, <1>0 DEF Logout, Done, Idler, Pending, Asked, RequestRecords
  <2>2. QED
    BY <1>8, <1>0, <2>1, RowsKept DEF Logout, throttleVars
<1>9. ASSUME NEW r \in Requests, VerifyLoad(r) PROVE Goal'
  <2>1. CASE totp = None
    <3>1. Pending(i)' \subseteq Pending(i)
      BY <1>9, <2>1, <1>0
      DEF VerifyLoad, Done, Idler, Pending, Asked, RequestRecords
    <3>2. QED
      BY <1>9, <1>0, <3>1, RowsKept DEF VerifyLoad, throttleVars
  <2>2. CASE totp # None /\ i = "mfa"
    <3>1. r \notin Pending(i) /\ Pending(i)' = Pending(i) \cup {r}
      BY <1>9, <2>2, <1>0
      DEF VerifyLoad, PreMFA, Pending, Asked, RequestRecords
    <3>2. Check(i)
      BY <1>9, <2>2 DEF VerifyLoad
    <3>3. QED
      BY <1>9, <1>0, <3>1, <3>2, RowsAsked DEF VerifyLoad, throttleVars
  <2>3. CASE totp # None /\ i # "mfa"
    <3>1. Pending(i)' \subseteq Pending(i)
      BY <1>9, <2>3, <1>0, Constants
      DEF VerifyLoad, Pending, Asked, RequestRecords
    <3>2. QED
      BY <1>9, <1>0, <3>1, RowsKept DEF VerifyLoad, throttleVars
  <2>4. QED
    BY <2>1, <2>2, <2>3
<1>10. ASSUME NEW r \in Requests, VerifyFails(r) PROVE Goal'
  <2>1. CASE i = "mfa"
    <3>1. r \in Pending(i) /\ Pending(i)' = Pending(i) \ {r}
      BY <1>10, <2>1, <1>0, Constants
      DEF VerifyFails, Done, Idler, Pending, Asked, RequestRecords
    <3>2. /\ recent'[i] = recent[i] \cup {Failure(i)}
          /\ attempts'[i] = attempts[i] \cup {Failure(i)}
      BY <1>10, <2>1 DEF VerifyFails, Wrong, RecordFailure
    <3>3. QED
      BY <1>10, <1>0, <3>1, <3>2, RowsFailed
      DEF VerifyFails, Wrong, RecordFailure
  <2>2. CASE ~(i = "mfa")
    <3>1. Pending(i)' \subseteq Pending(i)
      BY <1>10, <1>0
      DEF VerifyFails, Done, Idler, Pending, Asked, RequestRecords
    <3>2. recent'[i] = recent[i] /\ attempts'[i] = attempts[i]
      BY <1>10, <2>2, <1>0 DEF VerifyFails, Wrong, RecordFailure
    <3>3. QED
      BY <1>10, <1>0, <3>1, <3>2, RowsKept
      DEF VerifyFails, Wrong, RecordFailure
  <2>3. QED
    BY <2>1, <2>2
<1>11. ASSUME NEW r \in Requests, RecoveryLoad(r) PROVE Goal'
  <2>1. CASE i = "recovery"
    <3>1. r \notin Pending(i) /\ Pending(i)' = Pending(i) \cup {r}
      BY <1>11, <2>1, <1>0, Constants
      DEF RecoveryLoad, PreMFA, Pending, Asked, RequestRecords
    <3>2. Check(i)
      BY <1>11, <2>1 DEF RecoveryLoad
    <3>3. QED
      BY <1>11, <1>0, <3>1, <3>2, RowsAsked DEF RecoveryLoad, throttleVars
  <2>2. CASE ~(i = "recovery")
    <3>1. Pending(i)' \subseteq Pending(i)
      BY <1>11, <2>2, <1>0, Constants
      DEF RecoveryLoad, PreMFA, Pending, Asked, RequestRecords
    <3>2. QED
      BY <1>11, <1>0, <3>1, RowsKept DEF RecoveryLoad, throttleVars
  <2>3. QED
    BY <2>1, <2>2
<1>12. ASSUME NEW r \in Requests, RecoveryFails(r) PROVE Goal'
  <2>1. CASE i = "recovery"
    <3>1. r \in Pending(i) /\ Pending(i)' = Pending(i) \ {r}
      BY <1>12, <2>1, <1>0, Constants
      DEF RecoveryFails, Done, Idler, Pending, Asked, RequestRecords
    <3>2. /\ recent'[i] = recent[i] \cup {Failure(i)}
          /\ attempts'[i] = attempts[i] \cup {Failure(i)}
      BY <1>12, <2>1 DEF RecoveryFails, Wrong, RecordFailure
    <3>3. QED
      BY <1>12, <1>0, <3>1, <3>2, RowsFailed
      DEF RecoveryFails, Wrong, RecordFailure
  <2>2. CASE ~(i = "recovery")
    <3>1. Pending(i)' \subseteq Pending(i)
      BY <1>12, <1>0
      DEF RecoveryFails, Done, Idler, Pending, Asked, RequestRecords
    <3>2. recent'[i] = recent[i] /\ attempts'[i] = attempts[i]
      BY <1>12, <2>2, <1>0 DEF RecoveryFails, Wrong, RecordFailure
    <3>3. QED
      BY <1>12, <1>0, <3>1, <3>2, RowsKept
      DEF RecoveryFails, Wrong, RecordFailure
  <2>3. QED
    BY <2>1, <2>2
<1>13. ASSUME NEW r \in Requests, Refused(r) PROVE Goal'
  <2>1. Pending(i)' \subseteq Pending(i)
    BY <1>13, <1>0 DEF Refused, Done, Idler, Pending, Asked, RequestRecords
  <2>2. QED
    BY <1>13, <1>0, <2>1, RowsKept DEF Refused, throttleVars
<1>14. ASSUME NEW r \in Requests, ResolveSSOUser(r) PROVE Goal'
  <2>1. Pending(i)' \subseteq Pending(i)
    BY <1>14, <1>0 DEF ResolveSSOUser, Pending, Asked, RequestRecords
  <2>2. QED
    BY <1>14, <1>0, <2>1, RowsKept DEF ResolveSSOUser, throttleVars
<1>15. ASSUME NEW r \in Requests, NEW mfa \in Claims, SSOCallback(r, mfa)
      PROVE  Goal'
  <2>1. Pending(i)' \subseteq Pending(i)
    BY <1>15, <1>0 DEF SSOCallback, Pending, Asked, RequestRecords
  <2>2. QED
    BY <1>15, <1>0, <2>1, RowsKept DEF SSOCallback, throttleVars
<1>16. ASSUME NEW r \in Requests, NEW s \in Sessions, IssueSession(r, s)
      PROVE  Goal'
  <2>1. Pending(i)' \subseteq Pending(i)
    BY <1>16, <1>0
    DEF IssueSession, Done, Idler, Pending, Asked, RequestRecords
  <2>2. QED
    BY <1>16, <1>0, <2>1, RowsKept DEF IssueSession, throttleVars
<1>17. ASSUME NEW r \in Requests, NEW s \in Sessions, Authenticate(r, s)
      PROVE  Goal'
  <2>1. Pending(i)' \subseteq Pending(i)
    BY <1>17, <1>0 DEF Authenticate, Pending, Asked, RequestRecords
  <2>2. QED
    BY <1>17, <1>0, <2>1, RowsKept DEF Authenticate, throttleVars
<1>18. ASSUME NEW r \in Requests, NEW s \in Sessions, RevokeSession(r, s)
      PROVE  Goal'
  <2>1. Pending(i)' \subseteq Pending(i)
    BY <1>18, <1>0
    DEF RevokeSession, Done, Idler, Pending, Asked, RequestRecords
  <2>2. QED
    BY <1>18, <1>0, <2>1, RowsKept DEF RevokeSession, throttleVars
<1>19. ASSUME NEW r \in Requests, NEW c \in (Step - 1)..(Step + 1), MFAConfirm(r, c)
      PROVE  Goal'
  <2>1. Pending(i)' \subseteq Pending(i)
    BY <1>19, <1>0 DEF MFAConfirm, Done, Idler, Pending, Asked, RequestRecords
  <2>2. QED
    BY <1>19, <1>0, <2>1, RowsKept DEF MFAConfirm, throttleVars
<1>20. ASSUME NEW r \in Requests, NEW c \in (Step - 1)..(Step + 1), VerifyGood(r, c)
      PROVE  Goal'
  <2>1. CASE i = "mfa"
    <3>1. recent'[i] = {} /\ attempts'[i] = {}
      BY <1>20, <2>1 DEF VerifyGood, RecordSuccess
    <3>2. QED
      BY <1>20, <3>1, RowsCleared DEF VerifyGood, RecordSuccess
  <2>2. CASE ~(i = "mfa")
    <3>1. Pending(i)' \subseteq Pending(i)
      BY <1>20, <1>0
      DEF VerifyGood, Done, Idler, Pending, Asked, RequestRecords
    <3>2. recent'[i] = recent[i] /\ attempts'[i] = attempts[i]
      BY <1>20, <2>2, <1>0 DEF VerifyGood, RecordSuccess
    <3>3. QED
      BY <1>20, <1>0, <3>1, <3>2, RowsKept DEF VerifyGood, RecordSuccess
  <2>3. QED
    BY <2>1, <2>2
<1>21. ASSUME NEW r \in Requests, NEW k \in Codes, RecoveryGood(r, k)
      PROVE  Goal'
  <2>1. CASE i = "recovery"
    <3>1. recent'[i] = {} /\ attempts'[i] = {}
      BY <1>21, <2>1 DEF RecoveryGood, RecordSuccess
    <3>2. QED
      BY <1>21, <3>1, RowsCleared DEF RecoveryGood, RecordSuccess
  <2>2. CASE ~(i = "recovery")
    <3>1. Pending(i)' \subseteq Pending(i)
      BY <1>21, <1>0
      DEF RecoveryGood, Done, Idler, Pending, Asked, RequestRecords
    <3>2. recent'[i] = recent[i] /\ attempts'[i] = attempts[i]
      BY <1>21, <2>2, <1>0 DEF RecoveryGood, RecordSuccess
    <3>3. QED
      BY <1>21, <1>0, <3>1, <3>2, RowsKept DEF RecoveryGood, RecordSuccess
  <2>3. QED
    BY <2>1, <2>2
<1>22. ASSUME NEW s \in Sessions, LookupExpired(s) PROVE Goal'
  <2>1. Pending(i)' \subseteq Pending(i)
    BY <1>22, <1>0 DEF LookupExpired, Pending, Asked, RequestRecords
  <2>2. QED
    BY <1>22, <1>0, <2>1, RowsKept DEF LookupExpired, throttleVars
<1>23. ASSUME NEW s \in Sessions, VaultLocked(s) PROVE Goal'
  <2>1. Pending(i)' \subseteq Pending(i)
    BY <1>23, <1>0 DEF VaultLocked, Pending, Asked, RequestRecords
  <2>2. QED
    BY <1>23, <1>0, <2>1, RowsKept DEF VaultLocked, throttleVars
<1>24. ASSUME SSOStart PROVE Goal'
  <2>1. Pending(i)' \subseteq Pending(i)
    BY <1>24, <1>0 DEF SSOStart, Pending, Asked, RequestRecords
  <2>2. QED
    BY <1>24, <1>0, <2>1, RowsKept DEF SSOStart, throttleVars
<1>25. ASSUME Suspend PROVE Goal'
  <2>1. Pending(i)' \subseteq Pending(i)
    BY <1>25, <1>0 DEF Suspend, Pending, Asked, RequestRecords
  <2>2. QED
    BY <1>25, <1>0, <2>1, RowsKept DEF Suspend, throttleVars
<1>26. ASSUME RevokeAll PROVE Goal'
  <2>1. Pending(i)' \subseteq Pending(i)
    BY <1>26, <1>0 DEF RevokeAll, Pending, Asked, RequestRecords
  <2>2. QED
    BY <1>26, <1>0, <2>1, RowsKept DEF RevokeAll, throttleVars
<1>27. ASSUME Reinstate PROVE Goal'
  <2>1. Pending(i)' \subseteq Pending(i)
    BY <1>27, <1>0 DEF Reinstate, Pending, Asked, RequestRecords
  <2>2. QED
    BY <1>27, <1>0, <2>1, RowsKept DEF Reinstate, throttleVars
<1>28. ASSUME Grant PROVE Goal'
  <2>1. Pending(i)' \subseteq Pending(i)
    BY <1>28, <1>0 DEF Grant, Pending, Asked, RequestRecords
  <2>2. QED
    BY <1>28, <1>0, <2>1, RowsKept DEF Grant, throttleVars
<1>29. ASSUME Restart PROVE Goal'
  <2>1. Pending(i)' = {}
    BY <1>29, Constants DEF Restart, Pending, Asked, Idler
  <2>2. QED
    BY <1>29, <1>0, <2>1, RowsForgotten DEF Restart, CacheLost
<1>30. ASSUME Tick PROVE Goal'
  <2>1. Pending(i)' = Pending(i)
    BY <1>30 DEF Tick, Pending, Asked
  <2>2. recent'[i] = Recent(recent[i]) /\ attempts'[i] = Recent(attempts[i])
    BY <1>30 DEF Tick, TimePasses
  <2>3. QED
    BY <1>30, <1>0, <2>1, <2>2, RowsAged DEF Tick, TimePasses
<1>31. ASSUME UNCHANGED vars PROVE Goal'
  <2>1. Pending(i)' \subseteq Pending(i)
    BY <1>31 DEF vars, Pending
  <2>2. QED
    BY <1>31, <1>0, <2>1, RowsKept DEF vars, throttleVars
<1> HIDE DEF Goal
<1>32. Goal'
  BY <1>1, <1>2, <1>3, <1>4, <1>5, <1>6, <1>7, <1>8, <1>9, <1>10, <1>11,
     <1>12, <1>13, <1>14, <1>15, <1>16, <1>17, <1>18, <1>19, <1>20, <1>21,
     <1>22, <1>23, <1>24, <1>25, <1>26, <1>27, <1>28, <1>29, <1>30, <1>31
  DEF Next
<1>33. QED
  BY <1>32 DEF Goal

-----------------------------------------------------------------------------
(* The invariant holds at first. *)
LEMMA InitIInv == Init => IInv
<1> SUFFICES ASSUME Init PROVE IInv
  OBVIOUS
<1>1. TypeOK
  BY Constants
  DEF Init, ThrottleInit, TypeOK, ThrottleTypeOK, SessionRows, RequestRecords,
                   Idler, NoSession
<1>2. RequestsSound
  BY DEF Init, RequestsSound, Idler
<1>3. ASSUME NEW k \in Identifiers PROVE RowsSound(k) /\ RowsBounded(k)
  <2>1. attempts[k] = {} /\ recent[k] = {} /\ Pending(k) = {}
    BY DEF Init, ThrottleInit, Pending, Asked, Idler
  <2>2. Extra(k) \in Nat
    BY Limits DEF Extra
  <2>3. {} \ {} = {}
    OBVIOUS
  <2>4. RowsSound(k)
    BY <2>1, FS_EmptySet DEF RowsSound, Now
  <2>5. RowsBounded(k)
    BY <2>1, <2>2, <2>3, FS_EmptySet, Limits, Constants DEF RowsBounded, RowsFit
  <2>6. QED
    BY <2>4, <2>5
<1>4. CodesMarked /\ CodesOnce /\ SuspensionEndsSessions
  BY DEF Init, CodesMarked, CodesOnce, SuspensionEndsSessions
<1>5. QED
  BY <1>1, <1>2, <1>3, <1>4 DEF IInv, Counted

(* Every step keeps it. *)
LEMMA StepIInv ==
  ASSUME IInv, [Next]_vars
  PROVE  IInv'
<1>1. Counted'
  BY CountedStep DEF Counted
<1>2. QED
  BY <1>1, TypesStep, SuspensionStep, CodesStep DEF IInv

(* So it always holds. *)
LEMMA SpecIInv == Spec => []IInv
<1>1. IInv /\ [Next]_vars => IInv'
  BY StepIInv
<1>2. QED
  BY <1>1, InitIInv, PTL DEF Spec

(* Every variable of the sign-in keeps its type, whatever requests are in    *)
(* flight across a restart or a suspension.                                  *)
THEOREM TypeCorrect == Spec => []TypeOK
<1>1. IInv => TypeOK
  BY DEF IInv
<1>2. QED
  BY <1>1, SpecIInv, PTL

(* For every limit, window and number of requests in flight, and every       *)
(* lockout no shorter than the window, an identifier never has more failures *)
(* in the window than its limit and the overlap allow, and the limit less    *)
(* one again after restarts, of which there may be any number                *)
(* (Throttle.Check, countFailures).                                          *)
THEOREM GuessesBounded == Spec => []GuessBound
<1>1. ASSUME IInv, LockoutDuration >= Window, NEW k \in Identifiers
      PROVE  Cardinality(attempts[k]) <= (IF restarts = 0 THEN 1 ELSE 2) * (Limit[k] - 1)
                                           + Cardinality(Requests)
  <2>1. Cardinality(attempts[k]) <= Extra(k) + Limit[k] - 1 + Cardinality(Requests)
    BY <1>1 DEF IInv, Counted, RowsBounded, RowsFit
  <2>2. CASE restarts = 0
    BY <2>1, <2>2, Limits, Constants DEF Extra
  <2>3. CASE restarts # 0
    BY <2>1, <2>3, Limits, Constants DEF Extra
  <2>4. QED
    BY <2>2, <2>3
<1>2. IInv => GuessBound
  BY <1>1 DEF GuessBound
<1>3. QED
  BY <1>2, SpecIInv, PTL

(* For any recovery codes and any number of requests: unless verifications   *)
(* overlapped, no code is accepted twice (VerifyTOTP's last_step and         *)
(* VerifyRecoveryCode's used_at).                                            *)
THEOREM CodesAcceptedOnce == Spec => []CodesOnce
<1>1. IInv => CodesOnce
  BY DEF IInv
<1>2. QED
  BY <1>1, SpecIInv, PTL

(* For any number of sessions and sign-ins: when Admin.SetDisabled has       *)
(* returned, every live session was issued by a sign-in that had read the    *)
(* account before.                                                           *)
THEOREM SuspensionHolds == Spec => []SuspensionEndsSessions
<1>1. IInv => SuspensionEndsSessions
  BY DEF IInv
<1>2. QED
  BY <1>1, SpecIInv, PTL
=============================================================================
