----------------------------- MODULE VaultProofs -----------------------------
(***************************************************************************)
(* Proofs about Vault, for any sets of sessions, requests, keys,           *)
(* passphrases and credentials and any number of resets.                   *)
(***************************************************************************)
EXTENDS Vault, TLAPS

(***************************************************************************)
(* The inductive invariant.                                                *)
(***************************************************************************)

(* A request is of a session that has signed in, and keys are cached for    *)
(* such sessions only.                                                      *)
Placed ==
  /\ \A r \in Requests : req[r].pc # "idle" => req[r].s \in Sessions
                                               /\ sess[req[r].s] # "new"
  /\ \A r \in Requests : req[r].pc \in {"put", "change", "key", "seal"}
                           => req[r].obj \in Objects
  /\ \A r \in Requests : req[r].pc = "seal" => req[r].dek \in Deks
  /\ \A s \in Sessions : sess[s] = "new" => entries[s] = None

(* No two entries of the cache are one Key, and a Key on its way there is    *)
(* nobody else's.                                                            *)
Unshared ==
  /\ \A s, t \in Sessions : entries[s] # None /\ entries[s] = entries[t] => s = t
  /\ \A r \in Requests : req[r].pc \in {"put", "change"} =>
       /\ \A s \in Sessions : entries[s] # req[r].obj
       /\ \A q \in Requests \ {r} : req[q].obj # req[r].obj

(* A row is empty or wraps a key. *)
RowsWhole ==
  /\ row # NoRow => row.dek \in Deks
  /\ \A r \in Requests : req[r].row # NoRow => req[r].row.dek \in Deks

(* What a request that nothing overtook works with is of the key the row     *)
(* wraps now: the row it read, the Key it made, took or sealed with, and the *)
(* one cached for its session.                                               *)
CurrentOf(r) ==
  /\ req[r].pc = "in" => req[r].row.dek = row.dek
  /\ req[r].pc \in {"put", "change"} => object[req[r].obj] = row.dek
  /\ req[r].pc = "key" => object[req[r].obj] \in {row.dek, Zero}
  /\ req[r].pc = "seal" => req[r].dek = row.dek
  /\ entries[req[r].s] # None => object[entries[req[r].s]] = row.dek

Current ==
  ~clash => \A r \in InFlight \ overtaken : CurrentOf(r)

(* A Key changes between validate and the end of a seal by being wiped only. *)
SealsWhole ==
  \A r \in Requests : req[r].pc = "seal" => wiped \/ object[req[r].obj] = req[r].dek

IInv == /\ TypeOK /\ Placed /\ Unshared /\ RowsWhole /\ Current /\ SealsWhole
        /\ CredentialsOpen /\ KeysAgree /\ KeysWiped
-----------------------------------------------------------------------------
(* A request with a Key, or with the bytes of one, is a request. *)
LEMMA Given ==
  ASSUME NEW q \in Request, NEW o \in Objects \cup {None}, NEW d \in Deks \cup {Zero},
         NEW p \in {"put", "change", "revoke", "key", "seal"}
  PROVE  /\ [q EXCEPT !.pc = p, !.obj = o] \in Request
         /\ [q EXCEPT !.pc = p, !.dek = d] \in Request
  BY DEF Request

(* Every action keeps the types. *)
LEMMA TypesStep ==
  ASSUME IInv, [Next]_vars
  PROVE  (TypeOK)'
PROOF
<1> DEFINE Goal == TypeOK
<1> USE VaultAssumption DEF IInv, TypeOK, Row, Request, RowsWhole, Placed,
        stores, ghosts, operator, Idler, NoRow
<1>1. ASSUME NEW r \in Requests, NEW s \in Sessions, Arrive(r, s)
      PROVE  Goal'
  BY <1>1 DEF Arrive, Live
<1>2. ASSUME NEW r \in Requests, NEW o \in Objects, NEW p \in Passphrases, NEW d \in Deks,
             EnrolSet(r, d, p, o)
      PROVE  Goal'
  <2> HIDE DEF Request
  <2>1. [req[r] EXCEPT !.pc = "put", !.obj = o] \in Request
    BY Given, Zenon
  <2>2. req' \in [Requests -> Request]
    BY <1>2, <2>1 DEF EnrolSet
  <2>3. QED
    BY <1>2, <2>2 DEF EnrolSet, Writes, InFlight
<1>3. ASSUME NEW r \in Requests, NEW o \in Objects, NEW p \in Passphrases, Unlock(r, p, o)
      PROVE  Goal'
  <2> HIDE DEF Request
  <2>1. [req[r] EXCEPT !.pc = "put", !.obj = o] \in Request
    BY Given, Zenon
  <2>2. req' \in [Requests -> Request]
    BY <1>3, <2>1 DEF Unlock
  <2>3. QED
    BY <1>3, <2>2 DEF Unlock
<1>4. ASSUME NEW r \in Requests, NEW o \in Objects, NEW p \in Passphrases, NEW q \in Passphrases,
             ChangeSet(r, p, q, o)
      PROVE  Goal'
  <2> HIDE DEF Request
  <2>1. [req[r] EXCEPT !.pc = "change", !.obj = o] \in Request
    BY Given, Zenon
  <2>2. req' \in [Requests -> Request]
    BY <1>4, <2>1 DEF ChangeSet
  <2>3. QED
    BY <1>4, <2>2 DEF ChangeSet, Writes
<1>5. ASSUME NEW r \in Requests, PutKey(r) PROVE Goal'
  BY <1>5 DEF PutKey, Put, Wiped, Writes, Done
<1>6. ASSUME NEW r \in Requests, ChangePut(r) PROVE Goal'
  BY <1>6 DEF ChangePut, Put, Wiped, Writes
<1>7. ASSUME NEW r \in Requests, ChangeRevoke(r) PROVE Goal'
  BY <1>7 DEF ChangeRevoke, Revoke, Done
<1>8. ASSUME NEW r \in Requests, NEW s \in Sessions, NEW S \in {{}, {s}},
             Lock(r, s, S)
      PROVE  Goal'
  BY <1>8 DEF Lock, Forget, Wiped, Revoke, Done
<1>9. ASSUME NEW r \in Requests, TakeKey(r) PROVE Goal'
  <2> HIDE DEF Request
  <2>1. entries[req[r].s] \in Objects
    BY <1>9 DEF TakeKey
  <2>2. [req[r] EXCEPT !.pc = "key", !.obj = entries[req[r].s]] \in Request
    BY <2>1, Given, Zenon
  <2>3. req' \in [Requests -> Request]
    BY <1>9, <2>2 DEF TakeKey
  <2>4. QED
    BY <1>9, <2>3 DEF TakeKey
<1>10. ASSUME NEW r \in Requests, SealStart(r) PROVE Goal'
  <2> HIDE DEF Request
  <2>1. object[req[r].obj] \in Deks \cup {Zero}
    BY <1>10 DEF SealStart
  <2>2. [req[r] EXCEPT !.pc = "seal", !.dek = object[req[r].obj]] \in Request
    BY <2>1, Given, Zenon
  <2>3. req' \in [Requests -> Request]
    BY <1>10, <2>2 DEF SealStart
  <2>4. QED
    BY <1>10, <2>3 DEF SealStart
<1>11. ASSUME NEW r \in Requests, Finish(r) PROVE Goal'
  BY <1>11 DEF Finish, Done
<1>12. ASSUME NEW r \in Requests, NEW c \in Creds, SealEnd(r, c) PROVE Goal'
  <2>0. req[r].dek \in Deks
    BY <1>12 DEF SealEnd
  <2> HIDE DEF Request, Placed
  <2>1. PICK k \in Deks \cup {Torn} : creds' = [creds EXCEPT ![c] = k]
    BY <1>12, <2>0 DEF SealEnd
  <2> USE DEF Request
  <2>2. creds' \in [Creds -> Deks \cup {None, Torn}]
    BY <2>1
  <2>3. QED
    BY <1>12, <2>2 DEF SealEnd, Writes, Done
<1>13. ASSUME NEW r \in Requests, NEW c \in Creds, DeleteCredential(r, c)
      PROVE  Goal'
  BY <1>13 DEF DeleteCredential, Done
<1>14. ASSUME NEW s \in Sessions, SignIn(s) PROVE Goal'
  BY <1>14 DEF SignIn
<1>15. ASSUME NEW s \in Sessions, Evict(s) PROVE Goal'
  BY <1>15 DEF Evict, Forget, Wiped
<1>16. ASSUME Reset PROVE Goal'
  <2>1. resets' \in Nat
    BY <1>16 DEF Reset
  <2>2. QED
    BY <1>16, <2>1 DEF Reset, InFlight
<1>17. ASSUME ResetRevoke PROVE Goal'
  BY <1>17 DEF ResetRevoke, Revoke
<1>18. ASSUME Restart PROVE Goal'
  BY <1>18 DEF Restart
<1>19. ASSUME UNCHANGED vars PROVE Goal'
  BY <1>19 DEF vars
<1> HIDE VaultAssumption DEF Goal, IInv, TypeOK, Row, Request, RowsWhole,
        Placed, stores, ghosts, operator, Idler, NoRow
<1>20. Goal'
  BY <1>1, <1>2, <1>3, <1>4, <1>5, <1>6, <1>7, <1>8, <1>9, <1>10, <1>11,
     <1>12, <1>13, <1>14, <1>15, <1>16, <1>17, <1>18, <1>19
  DEF Next
<1>21. QED
  BY <1>20 DEF Goal

(* Requests stay with sessions that signed in, and no two holders share a   *)
(* Key: Enrol, Unlock and ChangePassphrase make a Key nobody else has, and  *)
(* Put moves it into the cache.                                             *)
LEMMA PlacedStep ==
  ASSUME IInv, [Next]_vars
  PROVE  (Placed /\ Unshared /\ RowsWhole)'
PROOF
<1> DEFINE Goal == Placed /\ Unshared /\ RowsWhole
<1> USE VaultAssumption DEF IInv, TypeOK, Row, Request, Placed, Unshared,
        RowsWhole, stores, ghosts, operator, Idler, NoRow
<1>1. ASSUME NEW r \in Requests, NEW s \in Sessions, Arrive(r, s)
      PROVE  Goal'
  BY <1>1 DEF Arrive, Live
<1>2. ASSUME NEW r \in Requests, NEW o \in Objects, NEW p \in Passphrases, NEW d \in Deks,
             EnrolSet(r, d, p, o)
      PROVE  Goal'
  BY <1>2 DEF EnrolSet, Free
<1>3. ASSUME NEW r \in Requests, NEW o \in Objects, NEW p \in Passphrases, Unlock(r, p, o)
      PROVE  Goal'
  BY <1>3 DEF Unlock, Free
<1>4. ASSUME NEW r \in Requests, NEW o \in Objects, NEW p \in Passphrases, NEW q \in Passphrases,
             ChangeSet(r, p, q, o)
      PROVE  Goal'
  BY <1>4 DEF ChangeSet, Free
<1>5. ASSUME NEW r \in Requests, PutKey(r) PROVE Goal'
  BY <1>5 DEF PutKey, Put, Wiped, Done
<1>6. ASSUME NEW r \in Requests, ChangePut(r) PROVE Goal'
  BY <1>6 DEF ChangePut, Put, Wiped
<1>7. ASSUME NEW r \in Requests, ChangeRevoke(r) PROVE Goal'
  BY <1>7 DEF ChangeRevoke, Revoke, Done
<1>8. ASSUME NEW r \in Requests, NEW s \in Sessions, NEW S \in {{}, {s}},
             Lock(r, s, S)
      PROVE  Goal'
  BY <1>8 DEF Lock, Forget, Wiped, Revoke, Done
<1>9. ASSUME NEW r \in Requests, TakeKey(r) PROVE Goal'
  BY <1>9 DEF TakeKey
<1>10. ASSUME NEW r \in Requests, SealStart(r) PROVE Goal'
  BY <1>10 DEF SealStart
<1>11. ASSUME NEW r \in Requests, Finish(r) PROVE Goal'
  BY <1>11 DEF Finish, Done
<1>12. ASSUME NEW r \in Requests, NEW c \in Creds, SealEnd(r, c) PROVE Goal'
  BY <1>12 DEF SealEnd, Done
<1>13. ASSUME NEW r \in Requests, NEW c \in Creds, DeleteCredential(r, c)
      PROVE  Goal'
  BY <1>13 DEF DeleteCredential, Done
<1>14. ASSUME NEW s \in Sessions, SignIn(s) PROVE Goal'
  BY <1>14 DEF SignIn
<1>15. ASSUME NEW s \in Sessions, Evict(s) PROVE Goal'
  BY <1>15 DEF Evict, Forget, Wiped
<1>16. ASSUME Reset PROVE Goal'
  BY <1>16 DEF Reset
<1>17. ASSUME ResetRevoke PROVE Goal'
  BY <1>17 DEF ResetRevoke, Revoke
<1>18. ASSUME Restart PROVE Goal'
  BY <1>18 DEF Restart
<1>19. ASSUME UNCHANGED vars PROVE Goal'
  BY <1>19 DEF vars
<1> HIDE VaultAssumption DEF Goal, IInv, TypeOK, Row, Request, Placed,
        Unshared, RowsWhole, stores, ghosts, operator, Idler, NoRow
<1>20. Goal'
  BY <1>1, <1>2, <1>3, <1>4, <1>5, <1>6, <1>7, <1>8, <1>9, <1>10, <1>11,
     <1>12, <1>13, <1>14, <1>15, <1>16, <1>17, <1>18, <1>19
  DEF Next
<1>21. QED
  BY <1>20 DEF Goal

(* What a request nothing overtook works with stays current: a new key for  *)
(* the row comes only with an enrolment or a reset, which overtake every    *)
(* request in flight, and Put only wipes the key it replaces.               *)
LEMMA CurrentStep ==
  ASSUME IInv, [Next]_vars
  PROVE  (Current)'
PROOF
<1> DEFINE Goal == Current
<1> USE VaultAssumption DEF IInv, TypeOK, Row, Request, Placed, Unshared,
        RowsWhole, Current, CurrentOf, InFlight, KeysAgree, Live, stores,
        ghosts, operator, Idler, NoRow
<1>1. ASSUME NEW r \in Requests, NEW s \in Sessions, Arrive(r, s)
      PROVE  Goal'
  BY <1>1 DEF Arrive, Live
<1>2. ASSUME NEW r \in Requests, NEW o \in Objects, NEW p \in Passphrases, NEW d \in Deks,
             EnrolSet(r, d, p, o)
      PROVE  Goal'
  BY <1>2 DEF EnrolSet, Free, Writes
<1>3. ASSUME NEW r \in Requests, NEW o \in Objects, NEW p \in Passphrases, Unlock(r, p, o)
      PROVE  Goal'
  BY <1>3 DEF Unlock, Free
<1>4. ASSUME NEW r \in Requests, NEW o \in Objects, NEW p \in Passphrases, NEW q \in Passphrases,
             ChangeSet(r, p, q, o)
      PROVE  Goal'
  BY <1>4 DEF ChangeSet, Free, Writes
<1>5. ASSUME NEW r \in Requests, PutKey(r) PROVE Goal'
  <2> SUFFICES ASSUME ~clash', NEW q \in InFlight' \ overtaken'
               PROVE  CurrentOf(q)'
    BY DEF Goal
  <2>1. /\ r \notin overtaken /\ ~clash /\ object[req[r].obj] = row.dek
        /\ row' = row /\ q \in InFlight \ overtaken
    <3>1. ~clash /\ r \notin overtaken /\ row' = row
      BY <1>5 DEF PutKey, Writes
    <3>2. req[r].pc \in {"put", "change"}
      BY <1>5 DEF PutKey
    <3>3. CurrentOf(r)
      BY <3>1, <3>2
    <3>4. q \in InFlight \ overtaken
      BY <1>5, <3>1 DEF PutKey, Done
    <3>5. QED
      BY <3>1, <3>2, <3>3, <3>4
  <2>2. ASSUME NEW o \in Objects, o # entries[req[r].s] PROVE object'[o] = object[o]
    BY <1>5, <2>2 DEF PutKey, Put, Wiped
  <2>3. ASSUME NEW o \in Objects PROVE object'[o] \in {object[o], Zero}
    BY <1>5 DEF PutKey, Put, Wiped
  <2>4. \A s \in Sessions :
          entries'[s] = IF s = req[r].s THEN req[r].obj ELSE entries[s]
    BY <1>5 DEF PutKey, Put
  <2>5. /\ req'[q].row = req[q].row /\ req'[q].s = req[q].s /\ req'[q].dek = req[q].dek
        /\ q # r => req'[q] = req[q]
        /\ q = r => req'[q].pc = "revoke"
    BY <1>5, <2>1 DEF PutKey, Done
  <2>6. req[r].s \in Sessions /\ req[r].obj \in Objects /\ req[q].s \in Sessions
    BY <1>5, <2>1 DEF PutKey
  <2>7. object'[req[r].obj] = row.dek
    BY <1>5, <2>1, <2>2, <2>6 DEF PutKey
  <2>8. entries'[req'[q].s] # None => object'[entries'[req'[q].s]] = row.dek
    <3>1. CASE req[q].s = req[r].s
      BY <3>1, <2>4, <2>5, <2>6, <2>7
    <3>2. CASE req[q].s # req[r].s
      <4>1. entries'[req'[q].s] = entries[req[q].s]
        BY <3>2, <2>4, <2>5, <2>6
      <4>2. ASSUME entries[req[q].s] # None
            PROVE  /\ entries[req[q].s] \in Objects
                   /\ entries[req[q].s] # entries[req[r].s]
                   /\ object[entries[req[q].s]] = row.dek
        BY <4>2, <3>2, <2>1, <2>6
      <4>3. QED
        BY <4>1, <4>2, <2>2
    <3>3. QED
      BY <3>1, <3>2
  <2>9. ASSUME req'[q].pc \in {"put", "change"} PROVE object'[req'[q].obj] = row.dek
    <3>1. q # r /\ req'[q] = req[q] /\ req[q].obj \in Objects
      BY <2>9, <2>1, <2>5
    <3>2. req[q].obj # entries[req[r].s] /\ object[req[q].obj] = row.dek
      BY <2>9, <2>1, <2>6, <3>1
    <3>3. QED
      BY <3>1, <3>2, <2>2
  <2>10. QED
    BY <2>1, <2>3, <2>5, <2>8, <2>9
<1>6. ASSUME NEW r \in Requests, ChangePut(r) PROVE Goal'
  <2> SUFFICES ASSUME ~clash', NEW q \in InFlight' \ overtaken'
               PROVE  CurrentOf(q)'
    BY DEF Goal
  <2>1. /\ r \notin overtaken /\ ~clash /\ object[req[r].obj] = row.dek
        /\ row' = row /\ q \in InFlight \ overtaken
    <3>1. ~clash /\ r \notin overtaken /\ row' = row
      BY <1>6 DEF ChangePut, Writes
    <3>2. req[r].pc \in {"put", "change"}
      BY <1>6 DEF ChangePut
    <3>3. CurrentOf(r)
      BY <3>1, <3>2
    <3>4. q \in InFlight \ overtaken
      BY <1>6, <3>1 DEF ChangePut
    <3>5. QED
      BY <3>1, <3>2, <3>3, <3>4
  <2>2. ASSUME NEW o \in Objects, o # entries[req[r].s] PROVE object'[o] = object[o]
    BY <1>6, <2>2 DEF ChangePut, Put, Wiped
  <2>3. ASSUME NEW o \in Objects PROVE object'[o] \in {object[o], Zero}
    BY <1>6 DEF ChangePut, Put, Wiped
  <2>4. \A s \in Sessions :
          entries'[s] = IF s = req[r].s THEN req[r].obj ELSE entries[s]
    BY <1>6 DEF ChangePut, Put
  <2>5. /\ req'[q].row = req[q].row /\ req'[q].s = req[q].s /\ req'[q].dek = req[q].dek
        /\ q # r => req'[q] = req[q]
        /\ q = r => req'[q].pc = "revoke"
    BY <1>6, <2>1 DEF ChangePut
  <2>6. req[r].s \in Sessions /\ req[r].obj \in Objects /\ req[q].s \in Sessions
    BY <1>6, <2>1 DEF ChangePut
  <2>7. object'[req[r].obj] = row.dek
    BY <1>6, <2>1, <2>2, <2>6 DEF ChangePut
  <2>8. entries'[req'[q].s] # None => object'[entries'[req'[q].s]] = row.dek
    <3>1. CASE req[q].s = req[r].s
      BY <3>1, <2>4, <2>5, <2>6, <2>7
    <3>2. CASE req[q].s # req[r].s
      <4>1. entries'[req'[q].s] = entries[req[q].s]
        BY <3>2, <2>4, <2>5, <2>6
      <4>2. ASSUME entries[req[q].s] # None
            PROVE  /\ entries[req[q].s] \in Objects
                   /\ entries[req[q].s] # entries[req[r].s]
                   /\ object[entries[req[q].s]] = row.dek
        BY <4>2, <3>2, <2>1, <2>6
      <4>3. QED
        BY <4>1, <4>2, <2>2
    <3>3. QED
      BY <3>1, <3>2
  <2>9. ASSUME req'[q].pc \in {"put", "change"} PROVE object'[req'[q].obj] = row.dek
    <3>1. q # r /\ req'[q] = req[q] /\ req[q].obj \in Objects
      BY <2>9, <2>1, <2>5
    <3>2. req[q].obj # entries[req[r].s] /\ object[req[q].obj] = row.dek
      BY <2>9, <2>1, <2>6, <3>1
    <3>3. QED
      BY <3>1, <3>2, <2>2
  <2>10. QED
    BY <2>1, <2>3, <2>5, <2>8, <2>9
<1>7. ASSUME NEW r \in Requests, ChangeRevoke(r) PROVE Goal'
  BY <1>7 DEF ChangeRevoke, Revoke, Done
<1>8. ASSUME NEW r \in Requests, NEW s \in Sessions, NEW S \in {{}, {s}},
             Lock(r, s, S)
      PROVE  Goal'
  BY <1>8 DEF Lock, Forget, Wiped, Revoke, Done
<1>9. ASSUME NEW r \in Requests, TakeKey(r) PROVE Goal'
  BY <1>9 DEF TakeKey
<1>10. ASSUME NEW r \in Requests, SealStart(r) PROVE Goal'
  BY <1>10 DEF SealStart
<1>11. ASSUME NEW r \in Requests, Finish(r) PROVE Goal'
  BY <1>11 DEF Finish, Done
<1>12. ASSUME NEW r \in Requests, NEW c \in Creds, SealEnd(r, c) PROVE Goal'
  BY <1>12 DEF SealEnd, Writes, Done
<1>13. ASSUME NEW r \in Requests, NEW c \in Creds, DeleteCredential(r, c)
      PROVE  Goal'
  BY <1>13 DEF DeleteCredential, Done
<1>14. ASSUME NEW s \in Sessions, SignIn(s) PROVE Goal'
  BY <1>14 DEF SignIn
<1>15. ASSUME NEW s \in Sessions, Evict(s) PROVE Goal'
  BY <1>15 DEF Evict, Forget, Wiped
<1>16. ASSUME Reset PROVE Goal'
  BY <1>16 DEF Reset
<1>17. ASSUME ResetRevoke PROVE Goal'
  BY <1>17 DEF ResetRevoke, Revoke
<1>18. ASSUME Restart PROVE Goal'
  BY <1>18 DEF Restart
<1>19. ASSUME UNCHANGED vars PROVE Goal'
  BY <1>19 DEF vars
<1> HIDE VaultAssumption DEF Goal, IInv, TypeOK, Row, Request, Placed,
        Unshared, RowsWhole, Current, CurrentOf, InFlight, KeysAgree, Live,
        stores, ghosts, operator, Idler, NoRow
<1>20. Goal'
  BY <1>1, <1>2, <1>3, <1>4, <1>5, <1>6, <1>7, <1>8, <1>9, <1>10, <1>11,
     <1>12, <1>13, <1>14, <1>15, <1>16, <1>17, <1>18, <1>19
  DEF Next
<1>21. QED
  BY <1>20 DEF Goal

(* A Key that is being sealed with keeps its content unless it is wiped,    *)
(* and that is noticed.                                                     *)
LEMMA SealsStep ==
  ASSUME IInv, [Next]_vars
  PROVE  (SealsWhole)'
PROOF
<1> DEFINE Goal == SealsWhole
<1> USE VaultAssumption DEF IInv, TypeOK, Row, Request, Placed, Unshared,
        SealsWhole, stores, ghosts, operator, Idler, NoRow
<1>1. ASSUME NEW r \in Requests, NEW s \in Sessions, Arrive(r, s)
      PROVE  Goal'
  BY <1>1 DEF Arrive, Live
<1>2. ASSUME NEW r \in Requests, NEW o \in Objects, NEW p \in Passphrases, NEW d \in Deks,
             EnrolSet(r, d, p, o)
      PROVE  Goal'
  BY <1>2 DEF EnrolSet, Free
<1>3. ASSUME NEW r \in Requests, NEW o \in Objects, NEW p \in Passphrases, Unlock(r, p, o)
      PROVE  Goal'
  BY <1>3 DEF Unlock, Free
<1>4. ASSUME NEW r \in Requests, NEW o \in Objects, NEW p \in Passphrases, NEW q \in Passphrases,
             ChangeSet(r, p, q, o)
      PROVE  Goal'
  BY <1>4 DEF ChangeSet, Free
<1>5. ASSUME NEW r \in Requests, PutKey(r) PROVE Goal'
  BY <1>5 DEF PutKey, Put, Wiped, InUse, Done
<1>6. ASSUME NEW r \in Requests, ChangePut(r) PROVE Goal'
  BY <1>6 DEF ChangePut, Put, Wiped, InUse
<1>7. ASSUME NEW r \in Requests, ChangeRevoke(r) PROVE Goal'
  BY <1>7 DEF ChangeRevoke, Revoke, Done
<1>8. ASSUME NEW r \in Requests, NEW s \in Sessions, NEW S \in {{}, {s}},
             Lock(r, s, S)
      PROVE  Goal'
  BY <1>8 DEF Lock, Forget, Wiped, InUse, Revoke, Done
<1>9. ASSUME NEW r \in Requests, TakeKey(r) PROVE Goal'
  BY <1>9 DEF TakeKey
<1>10. ASSUME NEW r \in Requests, SealStart(r) PROVE Goal'
  BY <1>10 DEF SealStart
<1>11. ASSUME NEW r \in Requests, Finish(r) PROVE Goal'
  BY <1>11 DEF Finish, Done
<1>12. ASSUME NEW r \in Requests, NEW c \in Creds, SealEnd(r, c) PROVE Goal'
  BY <1>12 DEF SealEnd, Done
<1>13. ASSUME NEW r \in Requests, NEW c \in Creds, DeleteCredential(r, c)
      PROVE  Goal'
  BY <1>13 DEF DeleteCredential, Done
<1>14. ASSUME NEW s \in Sessions, SignIn(s) PROVE Goal'
  BY <1>14 DEF SignIn
<1>15. ASSUME NEW s \in Sessions, Evict(s) PROVE Goal'
  BY <1>15 DEF Evict, Forget, Wiped, InUse
<1>16. ASSUME Reset PROVE Goal'
  BY <1>16 DEF Reset
<1>17. ASSUME ResetRevoke PROVE Goal'
  BY <1>17 DEF ResetRevoke, Revoke
<1>18. ASSUME Restart PROVE Goal'
  BY <1>18 DEF Restart
<1>19. ASSUME UNCHANGED vars PROVE Goal'
  BY <1>19 DEF vars
<1> HIDE VaultAssumption DEF Goal, IInv, TypeOK, Row, Request, Placed,
        Unshared, SealsWhole, stores, ghosts, operator, Idler, NoRow
<1>20. Goal'
  BY <1>1, <1>2, <1>3, <1>4, <1>5, <1>6, <1>7, <1>8, <1>9, <1>10, <1>11,
     <1>12, <1>13, <1>14, <1>15, <1>16, <1>17, <1>18, <1>19
  DEF Next
<1>21. QED
  BY <1>20 DEF Goal

(* A Key with content stays within reach of whoever is to wipe it. *)
LEMMA WipedStep ==
  ASSUME IInv, [Next]_vars
  PROVE  (KeysWiped)'
PROOF
<1> DEFINE Goal == KeysWiped
<1> USE VaultAssumption DEF IInv, TypeOK, Row, Request, Placed, KeysWiped,
        stores, ghosts, operator, Idler, NoRow
<1>1. ASSUME NEW r \in Requests, NEW s \in Sessions, Arrive(r, s)
      PROVE  Goal'
  BY <1>1 DEF Arrive, Live
<1>2. ASSUME NEW r \in Requests, NEW o \in Objects, NEW p \in Passphrases, NEW d \in Deks,
             EnrolSet(r, d, p, o)
      PROVE  Goal'
  BY <1>2 DEF EnrolSet, Free
<1>3. ASSUME NEW r \in Requests, NEW o \in Objects, NEW p \in Passphrases, Unlock(r, p, o)
      PROVE  Goal'
  BY <1>3 DEF Unlock, Free
<1>4. ASSUME NEW r \in Requests, NEW o \in Objects, NEW p \in Passphrases, NEW q \in Passphrases,
             ChangeSet(r, p, q, o)
      PROVE  Goal'
  BY <1>4 DEF ChangeSet, Free
<1>5. ASSUME NEW r \in Requests, PutKey(r) PROVE Goal'
  <2> SUFFICES ASSUME NEW o \in Objects, object'[o] # Zero
               PROVE  \/ \E s \in Sessions : entries'[s] = o
                      \/ \E q \in Requests : req'[q].pc \in {"put", "change"} /\ req'[q].obj = o
    BY DEF Goal
  <2>1. /\ req[r].s \in Sessions
        /\ \A s \in Sessions : entries'[s] = IF s = req[r].s THEN req[r].obj ELSE entries[s]
    BY <1>5 DEF PutKey, Put
  <2>2. object[o] # Zero /\ o # entries[req[r].s]
    BY <1>5 DEF PutKey, Put, Wiped
  <2>3. \A q \in Requests \ {r} : req'[q] = req[q]
    BY <1>5 DEF PutKey, Done
  <2>4. CASE \E s \in Sessions : entries[s] = o
    BY <2>1, <2>2, <2>4
  <2>5. CASE \E q \in Requests : req[q].pc \in {"put", "change"} /\ req[q].obj = o
    <3>1. PICK q \in Requests : req[q].pc \in {"put", "change"} /\ req[q].obj = o
      BY <2>5
    <3>2. CASE q = r
      BY <2>1, <3>1, <3>2
    <3>3. CASE q # r
      <4>1. req'[q] = req[q]
        BY <2>3, <3>3
      <4>2. QED
        BY <3>1, <4>1
    <3>4. QED
      BY <3>2, <3>3
  <2>6. QED
    BY <2>2, <2>4, <2>5
<1>6. ASSUME NEW r \in Requests, ChangePut(r) PROVE Goal'
  <2> SUFFICES ASSUME NEW o \in Objects, object'[o] # Zero
               PROVE  \/ \E s \in Sessions : entries'[s] = o
                      \/ \E q \in Requests : req'[q].pc \in {"put", "change"} /\ req'[q].obj = o
    BY DEF Goal
  <2>1. /\ req[r].s \in Sessions
        /\ \A s \in Sessions : entries'[s] = IF s = req[r].s THEN req[r].obj ELSE entries[s]
    BY <1>6 DEF ChangePut, Put
  <2>2. object[o] # Zero /\ o # entries[req[r].s]
    BY <1>6 DEF ChangePut, Put, Wiped
  <2>3. \A q \in Requests \ {r} : req'[q] = req[q]
    BY <1>6 DEF ChangePut
  <2>4. CASE \E s \in Sessions : entries[s] = o
    BY <2>1, <2>2, <2>4
  <2>5. CASE \E q \in Requests : req[q].pc \in {"put", "change"} /\ req[q].obj = o
    <3>1. PICK q \in Requests : req[q].pc \in {"put", "change"} /\ req[q].obj = o
      BY <2>5
    <3>2. CASE q = r
      BY <2>1, <3>1, <3>2
    <3>3. CASE q # r
      <4>1. req'[q] = req[q]
        BY <2>3, <3>3
      <4>2. QED
        BY <3>1, <4>1
    <3>4. QED
      BY <3>2, <3>3
  <2>6. QED
    BY <2>2, <2>4, <2>5
<1>7. ASSUME NEW r \in Requests, ChangeRevoke(r) PROVE Goal'
  BY <1>7 DEF ChangeRevoke, Revoke, Done
<1>8. ASSUME NEW r \in Requests, NEW s \in Sessions, NEW S \in {{}, {s}},
             Lock(r, s, S)
      PROVE  Goal'
  BY <1>8 DEF Lock, Forget, Wiped, Revoke, Done
<1>9. ASSUME NEW r \in Requests, TakeKey(r) PROVE Goal'
  BY <1>9 DEF TakeKey
<1>10. ASSUME NEW r \in Requests, SealStart(r) PROVE Goal'
  BY <1>10 DEF SealStart
<1>11. ASSUME NEW r \in Requests, Finish(r) PROVE Goal'
  BY <1>11 DEF Finish, Done
<1>12. ASSUME NEW r \in Requests, NEW c \in Creds, SealEnd(r, c) PROVE Goal'
  BY <1>12 DEF SealEnd, Done
<1>13. ASSUME NEW r \in Requests, NEW c \in Creds, DeleteCredential(r, c)
      PROVE  Goal'
  BY <1>13 DEF DeleteCredential, Done
<1>14. ASSUME NEW s \in Sessions, SignIn(s) PROVE Goal'
  BY <1>14 DEF SignIn
<1>15. ASSUME NEW s \in Sessions, Evict(s) PROVE Goal'
  BY <1>15 DEF Evict, Forget, Wiped
<1>16. ASSUME Reset PROVE Goal'
  BY <1>16 DEF Reset
<1>17. ASSUME ResetRevoke PROVE Goal'
  BY <1>17 DEF ResetRevoke, Revoke
<1>18. ASSUME Restart PROVE Goal'
  BY <1>18 DEF Restart
<1>19. ASSUME UNCHANGED vars PROVE Goal'
  BY <1>19 DEF vars
<1> HIDE VaultAssumption DEF Goal, IInv, TypeOK, Row, Request, Placed,
        KeysWiped, stores, ghosts, operator, Idler, NoRow
<1>20. Goal'
  BY <1>1, <1>2, <1>3, <1>4, <1>5, <1>6, <1>7, <1>8, <1>9, <1>10, <1>11,
     <1>12, <1>13, <1>14, <1>15, <1>16, <1>17, <1>18, <1>19
  DEF Next
<1>21. QED
  BY <1>20 DEF Goal

(* What is written to the credentials opens with the row's key; a reset     *)
(* takes the credentials with the row.                                      *)
LEMMA OpenStep ==
  ASSUME IInv, [Next]_vars
  PROVE  (CredentialsOpen)'
PROOF
<1> DEFINE Goal == CredentialsOpen
<1> USE VaultAssumption DEF IInv, TypeOK, Row, Request, Placed, RowsWhole,
        Current, CurrentOf, InFlight, SealsWhole, CredentialsOpen, stores,
        ghosts, operator, Idler, NoRow
<1>1. ASSUME NEW r \in Requests, NEW s \in Sessions, Arrive(r, s)
      PROVE  Goal'
  BY <1>1 DEF Arrive, Live
<1>2. ASSUME NEW r \in Requests, NEW o \in Objects, NEW p \in Passphrases, NEW d \in Deks,
             EnrolSet(r, d, p, o)
      PROVE  Goal'
  BY <1>2 DEF EnrolSet, Free, Writes
<1>3. ASSUME NEW r \in Requests, NEW o \in Objects, NEW p \in Passphrases, Unlock(r, p, o)
      PROVE  Goal'
  BY <1>3 DEF Unlock, Free
<1>4. ASSUME NEW r \in Requests, NEW o \in Objects, NEW p \in Passphrases, NEW q \in Passphrases,
             ChangeSet(r, p, q, o)
      PROVE  Goal'
  BY <1>4 DEF ChangeSet, Free, Writes
<1>5. ASSUME NEW r \in Requests, PutKey(r) PROVE Goal'
  BY <1>5 DEF PutKey, Put, Wiped, InUse, Writes, Done
<1>6. ASSUME NEW r \in Requests, ChangePut(r) PROVE Goal'
  BY <1>6 DEF ChangePut, Put, Wiped, InUse, Writes
<1>7. ASSUME NEW r \in Requests, ChangeRevoke(r) PROVE Goal'
  BY <1>7 DEF ChangeRevoke, Revoke, Done
<1>8. ASSUME NEW r \in Requests, NEW s \in Sessions, NEW S \in {{}, {s}},
             Lock(r, s, S)
      PROVE  Goal'
  BY <1>8 DEF Lock, Forget, Wiped, InUse, Revoke, Done
<1>9. ASSUME NEW r \in Requests, TakeKey(r) PROVE Goal'
  BY <1>9 DEF TakeKey
<1>10. ASSUME NEW r \in Requests, SealStart(r) PROVE Goal'
  BY <1>10 DEF SealStart
<1>11. ASSUME NEW r \in Requests, Finish(r) PROVE Goal'
  BY <1>11 DEF Finish, Done
<1>12. ASSUME NEW r \in Requests, NEW c \in Creds, SealEnd(r, c) PROVE Goal'
  <2>1. PICK k \in {req[r].dek, Torn} :
          /\ creds' = [creds EXCEPT ![c] = k]
          /\ k = Torn => wiped
    BY <1>12 DEF SealEnd
  <2>2. UNCHANGED <<row, wiped>> /\ clash' = (clash \/ r \in overtaken)
    BY <1>12 DEF SealEnd, Writes
  <2>3. ~clash' => req[r].dek = row.dek
    BY <1>12, <2>2 DEF SealEnd
  <2>4. QED
    BY <2>1, <2>2, <2>3
<1>13. ASSUME NEW r \in Requests, NEW c \in Creds, DeleteCredential(r, c)
      PROVE  Goal'
  BY <1>13 DEF DeleteCredential, Done
<1>14. ASSUME NEW s \in Sessions, SignIn(s) PROVE Goal'
  BY <1>14 DEF SignIn
<1>15. ASSUME NEW s \in Sessions, Evict(s) PROVE Goal'
  BY <1>15 DEF Evict, Forget, Wiped, InUse
<1>16. ASSUME Reset PROVE Goal'
  BY <1>16 DEF Reset
<1>17. ASSUME ResetRevoke PROVE Goal'
  BY <1>17 DEF ResetRevoke, Revoke
<1>18. ASSUME Restart PROVE Goal'
  BY <1>18 DEF Restart
<1>19. ASSUME UNCHANGED vars PROVE Goal'
  BY <1>19 DEF vars
<1> HIDE VaultAssumption DEF Goal, IInv, TypeOK, Row, Request, Placed,
        RowsWhole, Current, CurrentOf, InFlight, SealsWhole, CredentialsOpen,
        stores, ghosts, operator, Idler, NoRow
<1>20. Goal'
  BY <1>1, <1>2, <1>3, <1>4, <1>5, <1>6, <1>7, <1>8, <1>9, <1>10, <1>11,
     <1>12, <1>13, <1>14, <1>15, <1>16, <1>17, <1>18, <1>19
  DEF Next
<1>21. QED
  BY <1>20 DEF Goal

(* The keys cached for live sessions stay the row's. *)
LEMMA AgreeStep ==
  ASSUME IInv, [Next]_vars
  PROVE  (KeysAgree)'
PROOF
<1> DEFINE Goal == KeysAgree
<1> USE VaultAssumption DEF IInv, TypeOK, Row, Request, Placed, Unshared,
        RowsWhole, Current, CurrentOf, InFlight, Live, KeysAgree, stores,
        ghosts, operator, Idler, NoRow
<1>1. ASSUME NEW r \in Requests, NEW s \in Sessions, Arrive(r, s)
      PROVE  Goal'
  BY <1>1 DEF Arrive, Live
<1>2. ASSUME NEW r \in Requests, NEW o \in Objects, NEW p \in Passphrases, NEW d \in Deks,
             EnrolSet(r, d, p, o)
      PROVE  Goal'
  BY <1>2 DEF EnrolSet, Free, Writes
<1>3. ASSUME NEW r \in Requests, NEW o \in Objects, NEW p \in Passphrases, Unlock(r, p, o)
      PROVE  Goal'
  BY <1>3 DEF Unlock, Free
<1>4. ASSUME NEW r \in Requests, NEW o \in Objects, NEW p \in Passphrases, NEW q \in Passphrases,
             ChangeSet(r, p, q, o)
      PROVE  Goal'
  BY <1>4 DEF ChangeSet, Free, Writes
<1>5. ASSUME NEW r \in Requests, PutKey(r) PROVE Goal'
  <2> SUFFICES ASSUME ~clash', op # "revoke", NEW s \in Live, entries'[s] # None
               PROVE  object'[entries'[s]] = row.dek
    BY <1>5 DEF PutKey, Goal
  <2>1. r \notin overtaken /\ ~clash
    BY <1>5 DEF PutKey, Writes
  <2>2. req[r].s \in Sessions /\ req[r].obj \in Objects
    BY <1>5 DEF PutKey
  <2>3. object[req[r].obj] = row.dek
    BY <1>5, <2>1 DEF PutKey
  <2>4. ASSUME NEW o \in Objects, o # entries[req[r].s] PROVE object'[o] = object[o]
    BY <1>5, <2>4 DEF PutKey, Put, Wiped
  <2>5. CASE s = req[r].s
    <3>1. entries'[s] = req[r].obj /\ req[r].obj # entries[req[r].s]
      BY <1>5, <2>5, <2>2 DEF PutKey, Put
    <3>2. QED
      BY <3>1, <2>2, <2>3, <2>4
  <2>6. CASE s # req[r].s
    <3>1. entries'[s] = entries[s] /\ entries[s] \in Objects /\ entries[s] # entries[req[r].s]
      BY <1>5, <2>6, <2>2 DEF PutKey, Put
    <3>2. object[entries[s]] = row.dek
      BY <3>1, <2>1
    <3>3. QED
      BY <3>1, <3>2, <2>4
  <2>7. QED
    BY <2>5, <2>6
<1>6. ASSUME NEW r \in Requests, ChangePut(r) PROVE Goal'
  <2> SUFFICES ASSUME ~clash', op # "revoke", NEW s \in Live, entries'[s] # None
               PROVE  object'[entries'[s]] = row.dek
    BY <1>6 DEF ChangePut, Goal
  <2>1. r \notin overtaken /\ ~clash
    BY <1>6 DEF ChangePut, Writes
  <2>2. req[r].s \in Sessions /\ req[r].obj \in Objects
    BY <1>6 DEF ChangePut
  <2>3. object[req[r].obj] = row.dek
    BY <1>6, <2>1 DEF ChangePut
  <2>4. ASSUME NEW o \in Objects, o # entries[req[r].s] PROVE object'[o] = object[o]
    BY <1>6, <2>4 DEF ChangePut, Put, Wiped
  <2>5. CASE s = req[r].s
    <3>1. entries'[s] = req[r].obj /\ req[r].obj # entries[req[r].s]
      BY <1>6, <2>5, <2>2 DEF ChangePut, Put
    <3>2. QED
      BY <3>1, <2>2, <2>3, <2>4
  <2>6. CASE s # req[r].s
    <3>1. entries'[s] = entries[s] /\ entries[s] \in Objects /\ entries[s] # entries[req[r].s]
      BY <1>6, <2>6, <2>2 DEF ChangePut, Put
    <3>2. object[entries[s]] = row.dek
      BY <3>1, <2>1
    <3>3. QED
      BY <3>1, <3>2, <2>4
  <2>7. QED
    BY <2>5, <2>6
<1>7. ASSUME NEW r \in Requests, ChangeRevoke(r) PROVE Goal'
  BY <1>7 DEF ChangeRevoke, Revoke, Done
<1>8. ASSUME NEW r \in Requests, NEW s \in Sessions, NEW S \in {{}, {s}},
             Lock(r, s, S)
      PROVE  Goal'
  BY <1>8 DEF Lock, Forget, Wiped, Revoke, Done
<1>9. ASSUME NEW r \in Requests, TakeKey(r) PROVE Goal'
  BY <1>9 DEF TakeKey
<1>10. ASSUME NEW r \in Requests, SealStart(r) PROVE Goal'
  BY <1>10 DEF SealStart
<1>11. ASSUME NEW r \in Requests, Finish(r) PROVE Goal'
  BY <1>11 DEF Finish, Done
<1>12. ASSUME NEW r \in Requests, NEW c \in Creds, SealEnd(r, c) PROVE Goal'
  BY <1>12 DEF SealEnd, Writes, Done
<1>13. ASSUME NEW r \in Requests, NEW c \in Creds, DeleteCredential(r, c)
      PROVE  Goal'
  BY <1>13 DEF DeleteCredential, Done
<1>14. ASSUME NEW s \in Sessions, SignIn(s) PROVE Goal'
  BY <1>14 DEF SignIn
<1>15. ASSUME NEW s \in Sessions, Evict(s) PROVE Goal'
  BY <1>15 DEF Evict, Forget, Wiped
<1>16. ASSUME Reset PROVE Goal'
  BY <1>16 DEF Reset
<1>17. ASSUME ResetRevoke PROVE Goal'
  BY <1>17 DEF ResetRevoke, Revoke
<1>18. ASSUME Restart PROVE Goal'
  BY <1>18 DEF Restart
<1>19. ASSUME UNCHANGED vars PROVE Goal'
  BY <1>19 DEF vars
<1> HIDE VaultAssumption DEF Goal, IInv, TypeOK, Row, Request, Placed,
        Unshared, RowsWhole, Current, CurrentOf, InFlight, Live, KeysAgree,
        stores, ghosts, operator, Idler, NoRow
<1>20. Goal'
  BY <1>1, <1>2, <1>3, <1>4, <1>5, <1>6, <1>7, <1>8, <1>9, <1>10, <1>11,
     <1>12, <1>13, <1>14, <1>15, <1>16, <1>17, <1>18, <1>19
  DEF Next
<1>21. QED
  BY <1>20 DEF Goal

(* A vault that has not been enrolled, with nothing cached and no request,   *)
(* satisfies it.                                                             *)
LEMMA InitIInv == Init => IInv
<1> SUFFICES ASSUME Init PROVE IInv
  OBVIOUS
<1> USE VaultAssumption DEF Init, NoRow, Idler
<1>1. TypeOK
  BY DEF TypeOK, Row, Request
<1>2. Placed /\ Unshared /\ RowsWhole
  BY DEF Placed, Unshared, RowsWhole
<1>3. Current /\ SealsWhole
  BY DEF Current, InFlight, SealsWhole
<1>4. CredentialsOpen /\ KeysAgree /\ KeysWiped
  BY DEF CredentialsOpen, KeysAgree, KeysWiped, Live
<1>5. QED
  BY <1>1, <1>2, <1>3, <1>4 DEF IInv

(* Every step of a request, the janitor, the operator and a restart keep it. *)
LEMMA StepIInv == IInv /\ [Next]_vars => IInv'
  BY TypesStep, PlacedStep, CurrentStep, SealsStep, WipedStep, OpenStep,
          AgreeStep
     DEF IInv

(* So it holds throughout. *)
LEMMA SpecIInv == Spec => []IInv
  BY InitIInv, StepIInv, PTL DEF Spec

(* The vault's row, cache, credentials and requests are well formed in every *)
(* reachable state.                                                          *)
THEOREM TypeCorrect == Spec => []TypeOK
<1>1. IInv => TypeOK
  BY DEF IInv
<1>2. QED
  BY <1>1, SpecIInv, PTL

(* A stored secret opens with the key the account's row wraps, whatever the  *)
(* sessions, requests and operator do at once, unless a request that a reset *)
(* or an enrolment overtook wrote (Enrol, Cache.Put, Store.Create), or a Key *)
(* was zeroed under sealField.                                               *)
THEOREM CredentialsAlwaysOpen == Spec => []CredentialsOpen
<1>1. IInv => CredentialsOpen
  BY DEF IInv
<1>2. QED
  BY <1>1, SpecIInv, PTL

(* The keys cached for sessions that are still good are all the account's    *)
(* key; the stale ones ResetVault leaves in the server's cache are of        *)
(* sessions it has revoked.                                                  *)
THEOREM KeysAlwaysAgree == Spec => []KeysAgree
<1>1. IInv => KeysAgree
  BY DEF IInv
<1>2. QED
  BY <1>1, SpecIInv, PTL

(* No Key with content is ever out of reach of Put, Forget, the janitor and  *)
(* Close, which zero it.                                                     *)
THEOREM KeysAlwaysWiped == Spec => []KeysWiped
<1>1. IInv => KeysWiped
  BY DEF IInv
<1>2. QED
  BY <1>1, SpecIInv, PTL

=============================================================================
