-------------------------------- MODULE Vault --------------------------------
(***************************************************************************)
(* One user's vault: the wrapped key in the users table, the keys cached   *)
(* for the user's sessions, and the credentials sealed with them.          *)
(* internal/vault/cache.go, internal/users/vaultsvc.go and users.go, the   *)
(* vault and credential handlers of internal/api, internal/credentials.    *)
(*                                                                         *)
(* A Key is a slice: whoever was given one shares its bytes with the cache *)
(* and sees them zeroed.  What wrapping and sealing do is kept, how they   *)
(* do it is not: a row opens to its passphrase, an envelope to its key.    *)
(* The limit on wrong passphrases is Throttle's and is left out here.      *)
(***************************************************************************)
EXTENDS Integers, FiniteSets

CONSTANTS Sessions, Requests,
          Objects,      \* allocations of a Key; reused once wiped and let go
          Deks,         \* the random data keys
          Passphrases, Creds,
          MaxResets,    \* bound on the operator's vault resets
          None, Zero,   \* nothing; the content of a wiped key
          Torn          \* sealed with a key read while it was being wiped

ASSUME VaultAssumption ==
  /\ MaxResets \in Nat
  /\ None \notin Sessions \cup Objects \cup Deks \cup Passphrases \cup {Zero, Torn}
  /\ {Zero, Torn} \cap Deks = {} /\ Zero # Torn

VARIABLES
  managed,   \* UnlockKind is server: the server's master key wraps the DEK
  row,       \* the user's wrapped_dek_enc: the key and what opens it, or None
  creds,     \* credentials: what each row's secret is sealed with, or None
  sess,      \* new, live or revoked
  entries,   \* Cache.entries: the Key cached for a session
  object,    \* the content of each Key
  req,       \* requests in flight, with the user's row as withAuth read it
  op, resets,   \* whether Admin.ResetVault has still to revoke; how many there were
  overtaken,    \* requests during which the vault was reset or enrolled
  clash, wiped  \* whether one of them wrote; whether a key was wiped in use

stores == <<row, creds, sess>>
ghosts == <<overtaken, clash, wiped>>
operator == <<op, resets>>
vars == <<managed, row, creds, sess, entries, object, req, op, resets,
          overtaken, clash, wiped>>

NoRow == [dek |-> None, pass |-> None]
Idler == [pc |-> "idle", s |-> None, row |-> NoRow, obj |-> None, dek |-> None]

Init ==
  /\ managed \in BOOLEAN
  /\ row = NoRow
  /\ creds   = [c \in Creds |-> None]
  /\ sess    = [s \in Sessions |-> "new"]
  /\ entries = [s \in Sessions |-> None]
  /\ object  = [o \in Objects |-> Zero]
  /\ req     = [r \in Requests |-> Idler]
  /\ op = "idle" /\ resets = 0
  /\ overtaken = {} /\ clash = FALSE /\ wiped = FALSE

Live == {s \in Sessions : sess[s] = "live"}
InFlight == {r \in Requests : req[r].pc # "idle"}

Revoke(S) == sess' = [s \in Sessions |-> IF s \in S /\ sess[s] = "live" THEN "revoked"
                                                                        ELSE sess[s]]

(* A key is wiped in use when a request has checked it and not yet expanded  *)
(* it.                                                                       *)
InUse(O) == \E r \in Requests : req[r].pc = "seal" /\ req[r].obj \in O

(* Key.Zero of the keys of O. *)
Wiped(O) == [o \in Objects |-> IF o \in O THEN Zero ELSE object[o]]

(* Cache.Forget and ForgetFunc: the entries of S are zeroed and dropped. *)
Forget(S) ==
  LET O == {entries[s] : s \in S}
  IN  /\ object' = Wiped(O)
      /\ entries' = [s \in Sessions |-> IF s \in S THEN None ELSE entries[s]]
      /\ wiped' = (wiped \/ InUse(O))

(* Slip: the key it replaces is not wiped. *)
Put_Replaces(s, o) ==
  /\ entries' = [entries EXCEPT ![s] = o]
  /\ UNCHANGED <<object, wiped>>

(* Cache.Put: the key that was there is zeroed. *)
Put(s, o) ==
  /\ object' = Wiped({entries[s]})
  /\ entries' = [entries EXCEPT ![s] = o]
  /\ wiped' = (wiped \/ InUse({entries[s]}))

Done(r) == /\ req' = [req EXCEPT ![r] = Idler]
           /\ overtaken' = overtaken \ {r}

(* The write of an overtaken request. *)
Writes(r) == clash' = (clash \/ r \in overtaken)

Free(o) == /\ object[o] = Zero
           /\ \A s \in Sessions : entries[s] # o
           /\ \A r \in Requests : req[r].obj # o

(* vault.NewKey: random, so unlike any there is. *)
Fresh(d) ==
  /\ row.dek # d
  /\ \A c \in Creds : creds[c] # d
  /\ \A o \in Objects : object[o] # d
  /\ \A r \in Requests : d \notin {req[r].row.dek, req[r].dek}

(***************************************************************************)
(* Requests.                                                               *)
(***************************************************************************)

SignIn(s) ==
  /\ sess[s] = "new"
  /\ sess' = [sess EXCEPT ![s] = "live"]
  /\ UNCHANGED <<managed, row, creds, entries, object, req, operator, ghosts>>

(* withAuth lets a request in and reads the user; a reset lasts until the    *)
(* sessions are revoked.                                                     *)
Arrive(r, s) ==
  /\ req[r].pc = "idle" /\ s \in Live
  /\ req' = [req EXCEPT ![r] = [Idler EXCEPT !.pc = "in", !.s = s, !.row = row]]
  /\ overtaken' = IF op = "revoke" THEN overtaken \cup {r} ELSE overtaken
  /\ UNCHANGED <<managed, stores, entries, object, operator, clash, wiped>>

(* handleVaultEnrol, Enrol and enrolServerManaged: to a user who had no vault *)
(* when the request came in.  The other requests in flight are overtaken.     *)
EnrolSet(r, d, p, o) ==
  /\ req[r].pc = "in" /\ req[r].row = NoRow /\ Free(o) /\ Fresh(d)
  /\ row' = [dek |-> d, pass |-> p]
  /\ object' = [object EXCEPT ![o] = d]
  /\ req' = [req EXCEPT ![r].pc = "put", ![r].obj = o]
  /\ overtaken' = overtaken \cup (InFlight \ {r})
  /\ Writes(r)
  /\ UNCHANGED <<managed, creds, sess, entries, operator, wiped>>

(* handleVaultUnlock and Unlock: the row the request read is opened with the  *)
(* passphrase, or with the server's key.                                      *)
Unlock(r, p, o) ==
  /\ req[r].pc = "in" /\ req[r].row # NoRow /\ Free(o)
  /\ managed \/ p = req[r].row.pass
  /\ object' = [object EXCEPT ![o] = req[r].row.dek]
  /\ req' = [req EXCEPT ![r].pc = "put", ![r].obj = o]
  /\ UNCHANGED <<managed, stores, entries, operator, ghosts>>

(* The last step of Enrol and Unlock. *)
PutKey(r) ==
  /\ req[r].pc = "put"
  /\ Put(req[r].s, req[r].obj)
  /\ Writes(r)
  /\ Done(r)
  /\ UNCHANGED <<managed, stores, operator>>

(* ChangePassphrase: the DEK of the row the request read, wrapped anew. *)
ChangeSet(r, p, q, o) ==
  /\ req[r].pc = "in" /\ req[r].row # NoRow /\ ~managed /\ Free(o)
  /\ p = req[r].row.pass /\ q # p
  /\ row' = [dek |-> req[r].row.dek, pass |-> q]
  /\ object' = [object EXCEPT ![o] = req[r].row.dek]
  /\ req' = [req EXCEPT ![r].pc = "change", ![r].obj = o]
  /\ Writes(r)
  /\ UNCHANGED <<managed, creds, sess, entries, operator, overtaken, wiped>>

ChangePut(r) ==
  /\ req[r].pc = "change"
  /\ Put(req[r].s, req[r].obj)
  /\ Writes(r)
  /\ req' = [req EXCEPT ![r].pc = "revoke", ![r].obj = None]
  /\ UNCHANGED <<managed, stores, operator, overtaken>>

(* handleVaultChangePassphrase, at its end: the user's other sessions are     *)
(* revoked; the keys cached for them stay.                                    *)
ChangeRevoke(r) ==
  /\ req[r].pc = "revoke"
  /\ Revoke(Sessions \ {req[r].s})
  /\ Done(r)
  /\ UNCHANGED <<managed, row, creds, entries, object, operator, clash, wiped>>

(* handleVaultLock; handleLogout and handleRevokeSession, which revoke too. *)
Lock(r, s, S) ==
  /\ req[r].pc = "in"
  /\ S = {} => s = req[r].s
  /\ Forget({s})
  /\ Revoke(S)
  /\ Done(r)
  /\ UNCHANGED <<managed, row, creds, operator, clash>>

(* requireVaultKey and Cache.Get: the request shares the cached key. *)
TakeKey(r) ==
  /\ req[r].pc = "in" /\ entries[req[r].s] # None
  /\ req' = [req EXCEPT ![r].pc = "key", ![r].obj = entries[req[r].s]]
  /\ UNCHANGED <<managed, stores, entries, object, operator, ghosts>>

(* The create, generate and import handlers, Store.Create and sealField, up   *)
(* to Key.validate: a key that has been zeroed is refused.                    *)
SealStart(r) ==
  /\ req[r].pc = "key" /\ object[req[r].obj] # Zero
  /\ req' = [req EXCEPT ![r].pc = "seal", ![r].dek = object[req[r].obj]]
  /\ UNCHANGED <<managed, stores, entries, object, operator, ghosts>>

(* The key is expanded and the row inserted.  A key zeroed since validate may *)
(* have been read whole, in part or not at all.                               *)
SealEnd(r, c) ==
  /\ req[r].pc = "seal" /\ creds[c] = None
  /\ \E k \in IF object[req[r].obj] = req[r].dek THEN {req[r].dek} ELSE {req[r].dek, Torn} :
       creds' = [creds EXCEPT ![c] = k]
  /\ Writes(r)
  /\ Done(r)
  /\ UNCHANGED <<managed, row, sess, entries, object, operator, wiped>>

(* handleDeleteCredential and Store.Delete. *)
DeleteCredential(r, c) ==
  /\ req[r].pc = "in" /\ creds[c] # None
  /\ creds' = [creds EXCEPT ![c] = None]
  /\ Done(r)
  /\ UNCHANGED <<managed, row, sess, entries, object, operator, clash, wiped>>

(* The handler is refused, fails, or only reads: a list, a secret, a name.    *)
(* Enrol zeroes the key it made if it cannot be stored.                       *)
Finish(r) ==
  /\ req[r].pc \in {"in", "key", "seal"}
  /\ Done(r)
  /\ UNCHANGED <<managed, stores, entries, object, operator, clash, wiped>>

(***************************************************************************)
(* The cache's janitor, the operator, and the server's life.               *)
(***************************************************************************)

(* EvictExpired, or Get on an entry past its time. *)
Evict(s) ==
  /\ entries[s] # None
  /\ Forget({s})
  /\ UNCHANGED <<managed, stores, req, operator, overtaken, clash>>

(* Slip: a reset leaves the credentials in the database. *)
Reset_KeepsCredentials ==
  /\ op = "idle" /\ resets < MaxResets
  /\ row' = NoRow
  /\ op' = "revoke" /\ resets' = resets + 1
  /\ overtaken' = overtaken \cup InFlight
  /\ UNCHANGED <<managed, creds, sess, entries, object, req, clash, wiped>>

(* Admin.ResetVault: the vault and what is sealed with it go in one           *)
(* transaction.  It runs in a process of its own; the server's cache stays.   *)
Reset ==
  /\ op = "idle" /\ resets < MaxResets
  /\ row' = NoRow
  /\ creds' = [c \in Creds |-> None]
  /\ op' = "revoke" /\ resets' = resets + 1
  /\ overtaken' = overtaken \cup InFlight
  /\ UNCHANGED <<managed, sess, entries, object, req, clash, wiped>>

(* Slip: a reset leaves the sessions, and their keys, alone. *)
ResetRevoke_Nothing ==
  /\ op = "revoke"
  /\ op' = "idle"
  /\ UNCHANGED <<managed, stores, entries, object, req, resets, ghosts>>

(* Admin.ResetVault: RevokeAllForUser. *)
ResetRevoke ==
  /\ op = "revoke"
  /\ Revoke(Sessions)
  /\ op' = "idle"
  /\ UNCHANGED <<managed, row, creds, entries, object, req, resets, ghosts>>

(* The server stops and starts: cache and requests are gone. *)
Restart ==
  /\ entries' = [s \in Sessions |-> None]
  /\ object' = [o \in Objects |-> Zero]
  /\ req' = [r \in Requests |-> Idler]
  /\ overtaken' = {}
  /\ UNCHANGED <<managed, stores, operator, clash, wiped>>

Next ==
  \/ \E r \in Requests :
       \/ \E s \in Sessions : Arrive(r, s)
       \/ \E o \in Objects, p \in Passphrases :
            \/ \E d \in Deks : EnrolSet(r, d, p, o)
            \/ Unlock(r, p, o)
            \/ \E q \in Passphrases : ChangeSet(r, p, q, o)
       \/ PutKey(r) \/ ChangePut(r) \/ ChangeRevoke(r)
       \/ \E s \in Sessions : \E S \in {{}, {s}} : Lock(r, s, S)
       \/ TakeKey(r) \/ SealStart(r) \/ Finish(r)
       \/ \E c \in Creds : SealEnd(r, c) \/ DeleteCredential(r, c)
  \/ \E s \in Sessions : SignIn(s) \/ Evict(s)
  \/ Reset \/ ResetRevoke \/ Restart

Spec == Init /\ [][Next]_vars

(***************************************************************************)
(* Properties.                                                             *)
(***************************************************************************)

Row == [dek : Deks \cup {None}, pass : Passphrases \cup {None}]
Request == [pc : {"idle", "in", "put", "change", "revoke", "key", "seal"},
            s : Sessions \cup {None}, row : Row, obj : Objects \cup {None},
            dek : Deks \cup {None, Zero}]

TypeOK ==
  /\ managed \in BOOLEAN
  /\ row \in Row
  /\ creds \in [Creds -> Deks \cup {None, Torn}]
  /\ sess \in [Sessions -> {"new", "live", "revoked"}]
  /\ entries \in [Sessions -> Objects \cup {None}]
  /\ object \in [Objects -> Deks \cup {Zero}]
  /\ req \in [Requests -> Request]
  /\ op \in {"idle", "revoke"} /\ resets \in Nat
  /\ overtaken \subseteq Requests /\ clash \in BOOLEAN /\ wiped \in BOOLEAN

(* A secret that is stored can be opened again: what seals it is the key the  *)
(* account's row wraps, through every change of passphrase, lock, eviction,   *)
(* reset and restart.  Two things alone can break it: a request that a reset  *)
(* or an enrolment overtook went on to write, or a key was wiped under the    *)
(* request that was sealing with it.                                          *)
CredentialsOpen ==
  clash \/ \A c \in Creds : creds[c] \in {None, row.dek} \cup (IF wiped THEN {Torn} ELSE {})

(* The key cached for a session that is still good is the account's key, so   *)
(* no two of its sessions seal with different ones.  A reset in another       *)
(* process leaves stale keys behind, and only for sessions it has revoked.    *)
KeysAgree ==
  clash \/ op = "revoke" \/
    \A s \in Live : entries[s] # None => object[entries[s]] = row.dek

(* No key material is left in memory that nothing will wipe: a Key with       *)
(* content is in the cache, where Put, Forget, the janitor and Close zero it, *)
(* or in the hands of the request that is about to put it there.              *)
KeysWiped ==
  \A o \in Objects : object[o] # Zero =>
    \/ \E s \in Sessions : entries[s] = o
    \/ \E r \in Requests : req[r].pc \in {"put", "change"} /\ req[r].obj = o
=============================================================================
