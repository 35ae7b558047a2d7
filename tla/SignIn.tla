------------------------------- MODULE SignIn -------------------------------
(***************************************************************************)
(* One account: its sign-ins, its authenticated sessions, its second       *)
(* factor and the operator who suspends it.  internal/api auth_handlers,   *)
(* middleware, mfa_handlers and session_handlers, internal/auth session,   *)
(* totp, recovery and oidc, and internal/server admin.                     *)
(*                                                                         *)
(* A handler is cut into a step per statement on the database that        *)
(* another request can get between, with what it read before in the        *)
(* request's record, where it may be stale; confirming a factor and        *)
(* revoking the other sessions are one step each.  A handler's own step is *)
(* enabled once its middleware let the request in.  The cached vault key   *)
(* is only there or not there: module Vault has its life.                  *)
(***************************************************************************)
EXTENDS Throttle

CONSTANTS Sessions, Requests, Codes,   \* recovery codes of one generation
          Idle, Absolute,              \* the lives of a session
          StateTTL,                    \* OIDCStateTTL
          Workloads,   \* bounds: how often each of Kinds may happen in a behaviour
          None

ASSUME SignInAssumption ==
  /\ Identifiers = {"address", "account", "mfa", "recovery"}
  /\ Idle \in Nat \ {0} /\ Absolute \in Nat \ {0} /\ Idle <= Absolute
  /\ Workloads \subseteq [{"guess", "operator", "restart", "time", "sso", "revoke", "factor"} -> Nat]
  /\ StateTTL \in Nat /\ None \notin Sessions \cup Nat
  /\ IsFiniteSet(Requests) /\ Codes \cap Nat = {}

(* Wrong answers in a window, acts of the operator, restarts, ticks of the   *)
(* clock; and, as zero or not, single sign-on, sessions ended, the factor    *)
(* set up.                                                                   *)
Kinds == {"guess", "operator", "restart", "time", "sso", "revoke", "factor"}

VARIABLES
  workload,  \* the workload of this behaviour
  policy,    \* MFAPolicy; RequireMFAForAdmins is on
  disabled, admin, enabled,  \* the row of users: is_disabled, is_admin, totp_enabled
  sess,      \* the rows of auth_sessions
  keys,      \* the sessions whose vault key is cached
  totp,      \* mfa_totp.last_step; None without a row
  codes,     \* mfa_recovery_codes: absent, unused or used
  sso,       \* when the browser's SSO state cookie was issued; None without
  op, changes,  \* whether SetDisabled has still to revoke; operator's acts
  req,       \* requests in flight
  spent, replayed, raced  \* what was accepted, kept until two verifications
                          \* overlapped; whether again; whether they have

fixed == <<workload, policy>>
accountVars == <<disabled, admin, enabled>>
factorVars  == <<totp, codes>>
ghostVars   == <<spent, replayed, raced>>
opVars      == <<op, changes>>
vars == <<throttleVars, fixed, accountVars, sess, keys, factorVars, sso,
          opVars, req, ghostVars>>

Idler == [pc |-> "idle", s |-> None, mfa |-> FALSE, enabled |-> FALSE,
          last |-> None, unused |-> {}]
NoSession == [state |-> "none", mfa |-> FALSE, idle |-> 0, exp |-> 0, late |-> FALSE]

Init ==
  /\ ThrottleInit
  /\ workload \in Workloads
  /\ policy \in {"required", "optional"}
  /\ disabled = FALSE /\ admin = FALSE /\ enabled = FALSE
  /\ sess = [s \in Sessions |-> NoSession]
  /\ keys = {}
  /\ totp = None /\ codes = [c \in Codes |-> "absent"]
  /\ sso = None /\ op = "idle" /\ changes = 0
  /\ req = [r \in Requests |-> Idler]
  /\ spent = {} /\ replayed = FALSE /\ raced = FALSE

Done(r) == req' = [req EXCEPT ![r] = Idler]

(***************************************************************************)
(* Signing in.                                                             *)
(***************************************************************************)

(* handleLocalLogin, to the password: both limits are asked first. *)
LoginCheck(r) ==
  /\ req[r].pc = "idle"
  /\ Check("address") /\ Check("account")
  /\ req' = [req EXCEPT ![r].pc = "login"]
  /\ UNCHANGED <<throttleVars, fixed, accountVars, sess, keys, factorVars, sso,
                 opVars, ghostVars>>

(* A wrong answer; the guard is the bound. *)
Wrong(K) ==
  /\ Cardinality(attempts["account"]) + Cardinality(attempts["mfa"])
       + Cardinality(attempts["recovery"]) < workload["guess"]
  /\ RecordFailure(K)

(* The password is wrong, or the account disabled. *)
LoginFails(r) ==
  /\ req[r].pc = "login"
  /\ Wrong({"address", "account"})
  /\ Done(r)
  /\ UNCHANGED <<fixed, accountVars, sess, keys, factorVars, sso, opVars, ghostVars>>

(* The password is right and the account was not disabled when it was read. *)
LoginGood(r) ==
  /\ req[r].pc = "login" /\ ~disabled
  /\ RecordSuccess({"address", "account"})
  /\ req' = [req EXCEPT ![r].pc = "issue"]
  /\ UNCHANGED <<fixed, accountVars, sess, keys, factorVars, sso, opVars, ghostVars>>

(* The login state is sealed into the browser's cookie with its time. *)
sealState == clock

(* handleSSOStart. *)
SSOStart ==
  /\ sso = None /\ workload["sso"] > 0
  /\ sso' = sealState
  /\ UNCHANGED <<throttleVars, fixed, accountVars, sess, keys, factorVars, opVars,
                 req, ghostVars>>

(* OIDCProvider.Callback, to the exchange: the cookie is there, and young.   *)
Callback(cookie) == cookie # None /\ clock - cookie <= StateTTL

(* What buildClaims may say of a second factor the provider asked for. *)
Claims == BOOLEAN

(* handleSSOCallback: the cookie is cleared whatever comes, and the provider *)
(* is asked for the identity.                                                *)
SSOCallback(r, mfa) ==
  /\ req[r].pc = "idle" /\ sso # None
  /\ sso' = None
  /\ IF Callback(sso) THEN req' = [req EXCEPT ![r].pc = "sso", ![r].mfa = mfa]
                      ELSE UNCHANGED req
  /\ UNCHANGED <<throttleVars, fixed, accountVars, sess, keys, factorVars, opVars,
                 ghostVars>>

(* resolveSSOUser: the identity's account, unless it is disabled. *)
ResolveSSOUser(r) ==
  /\ req[r].pc = "sso" /\ ~disabled
  /\ req' = [req EXCEPT ![r].pc = "issue"]
  /\ UNCHANGED <<throttleVars, fixed, accountVars, sess, keys, factorVars, sso, opVars,
                 ghostVars>>

(* issueSession and SessionStore.Create.  A session is late when the account *)
(* was disabled after the sign-in read it.                                   *)
IssueSession(r, s) ==
  /\ req[r].pc = "issue" /\ sess[s].state = "none"
  /\ sess' = [sess EXCEPT ![s] =
       [state |-> "live", mfa |-> req[r].mfa, idle |-> clock + Idle,
        exp |-> clock + Absolute, late |-> disabled]]
  /\ Done(r)
  /\ UNCHANGED <<throttleVars, fixed, accountVars, keys, factorVars, sso, opVars,
                 ghostVars>>

(***************************************************************************)
(* The middleware.                                                         *)
(***************************************************************************)

Active(s) == /\ sess[s].state = "live"
             /\ clock < sess[s].idle /\ clock < sess[s].exp

Earlier(a, b) == IF a < b THEN a ELSE b

Revoked(S) == [s \in Sessions |->
  IF s \in S /\ sess[s].state = "live" THEN [sess[s] EXCEPT !.state = "revoked"]
                                       ELSE sess[s]]

(* Lookup of a session that has expired and was not revoked deletes it. *)
LookupExpired(s) ==
  /\ sess[s].state = "live" /\ ~Active(s)
  /\ sess' = [sess EXCEPT ![s].state = "gone"]
  /\ UNCHANGED <<throttleVars, fixed, accountVars, keys, factorVars, sso, opVars, req,
                 ghostVars>>

(* withAuth: Lookup pushes the idle expiry on, never past the absolute one;  *)
(* a disabled account loses all its sessions and keys on the spot.           *)
Authenticate(r, s) ==
  /\ req[r].pc = "idle" /\ Active(s)
  /\ IF disabled
     THEN /\ sess' = Revoked(Sessions)
          /\ keys' = {}
          /\ UNCHANGED req
     ELSE /\ sess' = [sess EXCEPT ![s].idle = Earlier(clock + Idle, sess[s].exp)]
          /\ req' = [req EXCEPT ![r] = [pc |-> "in", s |-> s, mfa |-> sess[s].mfa,
                                        enabled |-> enabled, last |-> None, unused |-> {}]]
          /\ UNCHANGED keys
  /\ UNCHANGED <<throttleVars, fixed, accountVars, factorVars, sso, opVars, ghostVars>>

MFARequired == policy = "required" \/ admin

(* A request of the routes behind withMFA, which looks at the session as     *)
(* withAuth read it.                                                         *)
In(r) == req[r].pc = "in" /\ (MFARequired => req[r].mfa)

(***************************************************************************)
(* Handlers behind withMFA.                                                *)
(***************************************************************************)

(* handleVaultUnlock and handleVaultEnrol, seen from here: the key of the    *)
(* request's session is cached.                                              *)
VaultUnlock(r) ==
  /\ In(r)
  /\ keys' = keys \cup {req[r].s}
  /\ Done(r)
  /\ UNCHANGED <<throttleVars, fixed, accountVars, sess, factorVars, sso, opVars, ghostVars>>

(* handleVaultLock, or the key's expiry in the cache. *)
VaultLocked(s) ==
  /\ s \in keys
  /\ keys' = keys \ {s}
  /\ UNCHANGED <<throttleVars, fixed, accountVars, sess, factorVars, sso, opVars, req,
                 ghostVars>>

(* handleRevokeSession, of any session of the user. *)
RevokeSession(r, s) ==
  /\ In(r) /\ sess[s].state # "none" /\ workload["revoke"] > 0
  /\ keys' = keys \ {s}
  /\ sess' = Revoked({s})
  /\ Done(r)
  /\ UNCHANGED <<throttleVars, fixed, accountVars, factorVars, sso, opVars, ghostVars>>

(* handleRevokeOtherSessions. *)
RevokeOthers(r) ==
  /\ In(r) /\ workload["revoke"] > 0
  /\ keys' = keys \cap {req[r].s}
  /\ sess' = Revoked(Sessions \ {req[r].s})
  /\ Done(r)
  /\ UNCHANGED <<throttleVars, fixed, accountVars, factorVars, sso, opVars, ghostVars>>

(* handleMFAEnrol: a new secret, its last_step zero.  It is refused to an    *)
(* account that was enrolled when the request came in.                       *)
MFAEnrol(r) ==
  /\ In(r) /\ req[r].s \in keys /\ ~req[r].enabled /\ workload["factor"] > 0
  /\ totp' = 0
  /\ spent' = spent \cap Codes
  /\ Done(r)
  /\ UNCHANGED <<throttleVars, fixed, accountVars, sess, keys, codes, sso, opVars,
                 replayed, raced>>

(* The counter of the 30 second step the clock is in. *)
Step == clock + 2

(* Slip: the last step used is accepted again. *)
VerifyTOTP_Equal(c, last) == c \in (Step - 1)..(Step + 1) /\ c >= last

(* VerifyTOTP: the code of step c, one step early or late allowed, above the *)
(* last step used.                                                           *)
VerifyTOTP(c, last) == c \in (Step - 1)..(Step + 1) /\ c > last

(* handleMFAConfirm: no limit is asked.  The codes of before are replaced.   *)
MFAConfirm(r, c) ==
  /\ In(r) /\ req[r].s \in keys /\ totp # None
  /\ VerifyTOTP(c, totp)
  /\ totp' = c
  /\ codes' = [k \in Codes |-> "unused"]
  /\ enabled' = TRUE
  /\ sess' = [sess EXCEPT ![req[r].s].mfa = TRUE]
  /\ spent' = IF raced THEN {} ELSE (spent \ Codes) \cup {c}
  /\ replayed' = (replayed \/ (c \in spent /\ ~raced))
  /\ Done(r)
  /\ UNCHANGED <<throttleVars, fixed, disabled, admin, keys, sso, opVars, raced>>

(* handleMFADisable. *)
MFADisable(r) ==
  /\ In(r) /\ ~MFARequired
  /\ totp' = None /\ codes' = [k \in Codes |-> "absent"]
  /\ enabled' = FALSE
  /\ spent' = {}
  /\ Done(r)
  /\ UNCHANGED <<throttleVars, fixed, disabled, admin, sess, keys, sso, opVars, replayed, raced>>

(***************************************************************************)
(* Handlers before withMFA.                                                *)
(***************************************************************************)

(* A request routePreMFA dispatches: authenticated, its second factor or not. *)
PreMFA(r) == req[r].pc = "in"

(* handleLogout. *)
Logout(r) ==
  /\ PreMFA(r) /\ workload["revoke"] > 0
  /\ keys' = keys \ {req[r].s}
  /\ sess' = Revoked({req[r].s})
  /\ Done(r)
  /\ UNCHANGED <<throttleVars, fixed, accountVars, factorVars, sso, opVars, ghostVars>>

(* handleMFAVerify, to the row: the vault's key opens the secret. *)
VerifyLoad(r) ==
  /\ PreMFA(r) /\ req[r].s \in keys
  /\ Check("mfa")
  /\ IF totp = None THEN Done(r)
     ELSE req' = [req EXCEPT ![r].pc = "totp", ![r].last = totp]
  /\ UNCHANGED <<throttleVars, fixed, accountVars, sess, keys, factorVars, sso, opVars,
                 ghostVars>>

(* The code is accepted on the row as it was loaded, and last_step written   *)
(* whatever it is by now.  A code accepted again counts as replayed unless   *)
(* verifications overlapped, now or before.                                  *)
VerifyGood(r, c) ==
  /\ req[r].pc = "totp" /\ VerifyTOTP(c, req[r].last)
  /\ totp' = IF totp = None THEN None ELSE c
  /\ RecordSuccess({"mfa"})
  /\ sess' = [sess EXCEPT ![req[r].s].mfa = TRUE]
  /\ raced' = (raced \/ totp # req[r].last)
  /\ replayed' = (replayed \/ (c \in spent /\ ~raced'))
  /\ spent' = IF raced' THEN {} ELSE spent \cup {c}
  /\ Done(r)
  /\ UNCHANGED <<fixed, accountVars, keys, codes, sso, opVars>>

VerifyFails(r) ==
  /\ req[r].pc = "totp"
  /\ Wrong({"mfa"})
  /\ Done(r)
  /\ UNCHANGED <<fixed, accountVars, sess, keys, factorVars, sso, opVars, ghostVars>>

(* loadRecoveryCodes, without those VerifyRecoveryCode passes over. *)
Unused == {k \in Codes : codes[k] = "unused"}

(* handleMFARecovery, to the rows; no vault key is asked for. *)
RecoveryLoad(r) ==
  /\ PreMFA(r)
  /\ Check("recovery")
  /\ req' = [req EXCEPT ![r].pc = "recovery", ![r].unused = Unused]
  /\ UNCHANGED <<throttleVars, fixed, accountVars, sess, keys, factorVars, sso, opVars,
                 ghostVars>>

(* The code matched an unused row; that the row has been used since is not   *)
(* noticed.                                                                  *)
RecoveryGood(r, k) ==
  /\ req[r].pc = "recovery" /\ k \in req[r].unused
  /\ codes' = [codes EXCEPT ![k] = IF @ = "unused" THEN "used" ELSE @]
  /\ RecordSuccess({"recovery"})
  /\ sess' = [sess EXCEPT ![req[r].s].mfa = TRUE]
  /\ raced' = (raced \/ req[r].unused # Unused)
  /\ replayed' = (replayed \/ (k \in spent /\ ~raced'))
  /\ spent' = IF raced' THEN {} ELSE spent \cup {k}
  /\ Done(r)
  /\ UNCHANGED <<fixed, accountVars, keys, totp, sso, opVars>>

RecoveryFails(r) ==
  /\ req[r].pc = "recovery"
  /\ Wrong({"recovery"})
  /\ Done(r)
  /\ UNCHANGED <<fixed, accountVars, sess, keys, factorVars, sso, opVars, ghostVars>>

(* The handler ends in an error, or reads and changes nothing. *)
Refused(r) ==
  /\ req[r].pc # "idle"
  /\ Done(r)
  /\ UNCHANGED <<throttleVars, fixed, accountVars, sess, keys, factorVars, sso, opVars,
                 ghostVars>>

(***************************************************************************)
(* The operator, who runs a process of their own, and the server's life.   *)
(***************************************************************************)

Change == changes < workload["operator"] /\ changes' = changes + 1

(* Admin.SetDisabled: the flag. *)
Suspend ==
  /\ op = "idle" /\ Change
  /\ disabled' = TRUE /\ op' = "revoke"
  /\ UNCHANGED <<throttleVars, fixed, admin, enabled, sess, keys, factorVars, sso, req,
                 ghostVars>>

(* Slip: suspending an account leaves its sessions alone. *)
RevokeAll_Nothing ==
  /\ op = "revoke"
  /\ op' = "idle"
  /\ UNCHANGED <<throttleVars, fixed, accountVars, sess, keys, factorVars, sso, changes,
                 req, ghostVars>>

(* Admin.SetDisabled: RevokeAllForUser.  The server's cached keys stay.      *)
RevokeAll ==
  /\ op = "revoke"
  /\ sess' = Revoked(Sessions)
  /\ op' = "idle"
  /\ UNCHANGED <<throttleVars, fixed, accountVars, keys, factorVars, sso, changes,
                 req, ghostVars>>

(* Admin.SetDisabled(false), and Admin.SetAdmin. *)
Reinstate ==
  /\ op = "idle" /\ disabled /\ Change
  /\ disabled' = FALSE
  /\ UNCHANGED <<throttleVars, fixed, admin, enabled, sess, keys, factorVars, sso, op, req,
                 ghostVars>>

Grant ==
  /\ op = "idle" /\ ~admin /\ Change
  /\ admin' = TRUE
  /\ UNCHANGED <<throttleVars, fixed, disabled, enabled, sess, keys, factorVars, sso, op,
                 req, ghostVars>>

(* The server stops and starts: what is in memory is lost. *)
Restart ==
  /\ restarts < workload["restart"]
  /\ CacheLost
  /\ keys' = {} /\ req' = [r \in Requests |-> Idler]
  /\ UNCHANGED <<fixed, accountVars, sess, factorVars, sso, opVars, ghostVars>>

Tick ==
  /\ clock < workload["time"] /\ TimePasses
  /\ UNCHANGED <<fixed, accountVars, sess, keys, factorVars, sso, opVars, req, ghostVars>>

Next ==
  \/ \E r \in Requests :
       \/ LoginCheck(r) \/ LoginFails(r) \/ LoginGood(r)
       \/ VaultUnlock(r) \/ RevokeOthers(r) \/ MFAEnrol(r) \/ MFADisable(r)
       \/ Logout(r) \/ VerifyLoad(r) \/ VerifyFails(r)
       \/ RecoveryLoad(r) \/ RecoveryFails(r) \/ Refused(r)
       \/ ResolveSSOUser(r) \/ \E mfa \in Claims : SSOCallback(r, mfa)
       \/ \E s \in Sessions : IssueSession(r, s) \/ Authenticate(r, s) \/ RevokeSession(r, s)
       \/ \E c \in (Step - 1)..(Step + 1) : MFAConfirm(r, c) \/ VerifyGood(r, c)
       \/ \E k \in Codes : RecoveryGood(r, k)
  \/ \E s \in Sessions : LookupExpired(s) \/ VaultLocked(s)
  \/ SSOStart \/ Suspend \/ RevokeAll \/ Reinstate \/ Grant \/ Restart \/ Tick

Spec == Init /\ [][Next]_vars

(***************************************************************************)
(* Properties.                                                             *)
(***************************************************************************)

SessionRows == [state : {"none", "live", "revoked", "gone"}, mfa : BOOLEAN,
                idle : Nat, exp : Nat, late : BOOLEAN]

RequestRecords ==
  [pc : {"idle", "login", "sso", "issue", "in", "totp", "recovery"},
   s : Sessions \cup {None}, mfa : BOOLEAN, enabled : BOOLEAN,
   last : Nat \cup {None}, unused : SUBSET Codes]

TypeOK ==
  /\ ThrottleTypeOK
  /\ workload \in Workloads /\ policy \in {"required", "optional"}
  /\ disabled \in BOOLEAN /\ admin \in BOOLEAN /\ enabled \in BOOLEAN
  /\ sess \in [Sessions -> SessionRows]
  /\ keys \subseteq Sessions
  /\ totp \in Nat \cup {None}
  /\ codes \in [Codes -> {"absent", "unused", "used"}]
  /\ sso \in Nat \cup {None} /\ op \in {"idle", "revoke"} /\ changes \in Nat
  /\ req \in [Requests -> RequestRecords]
  /\ spent \subseteq Codes \cup Nat
  /\ replayed \in BOOLEAN /\ raced \in BOOLEAN

(* How many guesses a window really allows: the limit, one more for each     *)
(* further request that was let through before the others failed, and one    *)
(* less than the limit once more after a restart, because the first new      *)
(* failure makes countFailures forget the ones in the database.  No number   *)
(* of restarts adds more: with the limit reached in the database nothing     *)
(* passes Check until the window has moved on.  That takes a lockout no      *)
(* shorter than the window: of a shorter one there is no bound, for between  *)
(* its end and the time the oldest failure leaves the window, Check lets     *)
(* everything through.                                                       *)
GuessBound ==
  LockoutDuration >= Window => \A k \in Identifiers :
    Cardinality(attempts[k]) <= (IF restarts = 0 THEN 1 ELSE 2) * (Limit[k] - 1)
                                  + Cardinality(Requests)

(* As long as no two verifications overlapped, no authenticator code and no  *)
(* recovery code is accepted twice, through re-enrolment, removal, restarts  *)
(* and the skew of a step either way (VerifyTOTP's last_step, used_at).      *)
CodesOnce == ~replayed

(* Once SetDisabled has returned, the only sessions of the account still     *)
(* live are those of sign-ins that had read it before; withAuth revokes them *)
(* at their first request.                                                   *)
SuspensionEndsSessions ==
  disabled /\ op = "idle" =>
    \A s \in Sessions : sess[s].state = "live" => sess[s].late
=============================================================================
