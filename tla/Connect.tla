------------------------------ MODULE Connect ------------------------------
(***************************************************************************)
(* Opening a connection to one host: the host's key checked, asked about   *)
(* and put on record (internal/hostkeys, internal/remote/dial.go, the      *)
(* prompters of internal/api), the handshake that may be given up while    *)
(* the user is still asked (internal/proto/sshx), and what Connector holds *)
(* on its way to a terminal over SSH, telnet or a serial line              *)
(* (internal/terminal/connect.go, internal/proto/serialx).                 *)
(*                                                                         *)
(* The host answers each dial with a key of its choosing: it may have been *)
(* rebuilt, or be another machine.  The pool (module Pool) is only that a  *)
(* connection someone holds is handed out again.                           *)
(***************************************************************************)
EXTENDS Integers, FiniteSets

CONSTANTS Attempts,   \* requests that open something, or import known hosts
          Keys, Types, TypeOf,   \* host keys and the algorithm of each
          Lines,      \* names of serial devices
          Kinds,      \* of attempt the policy allows: terminal, files, telnet,
                      \* serial, import
          None

ASSUME ConnectAssumption ==
  /\ TypeOf \in [Keys -> Types]
  /\ Kinds \subseteq {"terminal", "files", "telnet", "serial", "import"}
  /\ None \notin Keys \cup Lines \cup Attempts

VARIABLES
  org, known,  \* known_hosts of this host: published; this user's, by type
  at,          \* each attempt: where it is, its kind, the key it was shown or brings
  given,       \* attempts whose dial has returned though the handshake goes on
  held,        \* what each attempt, and the terminal it became, holds
  claims,      \* Registry.held: who claimed each line
  vouched, forgotten
               \* keys the user said yes to; attempts whose key was forgotten
               \* after it was checked

hostVars  == <<org, known>>
ghostVars == <<vouched, forgotten>>
connectVars == <<hostVars, at, given, held, claims, ghostVars>>

Idle == [pc |-> "idle", kind |-> None, key |-> None, line |-> None, accept |-> None]

ConnectInit ==
  /\ org \in Keys \cup {None}
  /\ known = [t \in Types |-> None]
  /\ at = [a \in Attempts |-> Idle]
  /\ given = {}
  /\ held = [a \in Attempts |-> {}]
  /\ claims = [l \in Lines |-> None]
  /\ vouched = {} /\ forgotten = {}

At(a, pc)   == at[a].pc = pc
Goes(a, pc) == at' = [at EXCEPT ![a].pc = pc]
Holds(a, S) == held' = [held EXCEPT ![a] = S]

(* An attempt is over: what it was about is forgotten, what it holds is not. *)
Ends(a) ==
  /\ at' = [at EXCEPT ![a] = Idle]
  /\ given' = given \ {a} /\ forgotten' = forgotten \ {a}

(***************************************************************************)
(* Over SSH, to the handshake.                                             *)
(***************************************************************************)

(* openTerminal and handleOpenFileSession to Acquire: the vault is open, the *)
(* connection resolves.  A file session's request may carry the fingerprint   *)
(* its user accepts.                                                         *)
StartSSH(a, kind, accept) ==
  /\ At(a, "idle")
  /\ kind \in Kinds \cap {"terminal", "files"}
  /\ accept # None => kind = "files"
  /\ at' = [at EXCEPT ![a] = [Idle EXCEPT !.pc = "prepare", !.kind = kind, !.accept = accept]]
  /\ vouched' = vouched \cup ({accept} \cap Keys)
  /\ UNCHANGED <<hostVars, given, held, claims, forgotten>>

(* The credential is decrypted first: Reveal refuses under a vault key that    *)
(* has been zeroed, and what the connection names may be gone.                 *)
buildCredential(a) ==
  /\ At(a, "prepare") /\ Goes(a, "agent")
  /\ UNCHANGED <<hostVars, given, held, claims, ghostVars>>

(* The keyring it forwards, if any, before the pool is asked. *)
buildAgent(a) ==
  /\ At(a, "agent") /\ Goes(a, "route")
  /\ UNCHANGED <<hostVars, given, held, claims, ghostVars>>

(* Acquire gives up on the credential, the keyring or the jump chain: nothing *)
(* has been dialled, nothing is held.                                         *)
PrepareFails(a) ==
  /\ at[a].pc \in {"prepare", "agent", "route"} /\ Ends(a)
  /\ UNCHANGED <<hostVars, held, claims, vouched>>

Dials(a) ==
  /\ At(a, "route")
  /\ Goes(a, "dial")
  /\ UNCHANGED <<hostVars, given, held, claims, ghostVars>>

(* The pool has a connection: it is shared, and no key is asked about. *)
Reuse(a) ==
  /\ At(a, "route")
  /\ \E b \in Attempts : "lease" \in held[b]
  /\ at' = [at EXCEPT ![a].pc = "shell", ![a].accept = None]
  /\ Holds(a, {"lease"})
  /\ UNCHANGED <<hostVars, given, claims, ghostVars>>

(* The transport is there; the host presents a key.  Or it is unreachable. *)
Presents(a, k) ==
  /\ At(a, "dial")
  /\ at' = [at EXCEPT ![a].pc = "verify", ![a].key = k]
  /\ Holds(a, {"net"})
  /\ UNCHANGED <<hostVars, given, claims, ghostVars>>

Unreachable(a) ==
  /\ At(a, "dial") /\ Ends(a)
  /\ UNCHANGED <<hostVars, held, claims, vouched>>

(***************************************************************************)
(* The handshake: hostKeyCallback, with Verify and Decide.                 *)
(***************************************************************************)

(* Store.Verify: what is published counts before what the user accepted. *)
Verify(k) ==
  LET t == TypeOf[k]
      on == IF org # None /\ TypeOf[org] = t THEN org ELSE known[t]
  IN IF on = None THEN "unknown" ELSE IF on = k THEN "trusted" ELSE "changed"

(* The handshake fails: the connection is closed, and Dial returns if it has *)
(* not already.                                                              *)
HandshakeFails(a) ==
  /\ Holds(a, held[a] \ {"net"})
  /\ Ends(a)

Trusted(a) ==
  /\ At(a, "verify") /\ Verify(at[a].key) = "trusted"
  /\ Goes(a, "auth")
  /\ UNCHANGED <<hostVars, given, held, claims, ghostVars>>

Changed(a) ==
  /\ At(a, "verify") /\ Verify(at[a].key) = "changed"
  /\ HandshakeFails(a)
  /\ UNCHANGED <<hostVars, claims, vouched>>

(* An unknown key: its fingerprint is shown.  Over the socket the user is     *)
(* asked and waited for; a file session has its answer with it, or none.      *)
Asks(a) ==
  /\ At(a, "verify") /\ Verify(at[a].key) = "unknown"
  /\ Goes(a, "ask")
  /\ UNCHANGED <<hostVars, given, held, claims, vouched, forgotten>>

(* Slip: any fingerprint the client sent counts as an approval. *)
fingerprintPrompter_Any(a) == at[a].accept # None
fingerprintPrompter(a) == at[a].accept = at[a].key

Accepted(a) ==
  /\ At(a, "ask")
  /\ at[a].kind = "files" => fingerprintPrompter(a)
  /\ vouched' = IF at[a].kind = "terminal" THEN vouched \cup {at[a].key} ELSE vouched
  /\ Goes(a, "trust")
  /\ UNCHANGED <<hostVars, given, held, claims, forgotten>>

(* Refused, not answered within hostKeyPromptTimeout, or the socket is gone. *)
Rejected(a) ==
  /\ At(a, "ask")
  /\ at[a].kind = "files" => ~fingerprintPrompter(a)
  /\ HandshakeFails(a)
  /\ UNCHANGED <<hostVars, claims, vouched>>

(* Store.insert, the lookup: on record already, or refused as changed. *)
TrustLookup(a) ==
  LET k == at[a].key  on == known[TypeOf[k]] IN
  /\ At(a, "trust") /\ on \in {None, k}
  /\ Goes(a, IF on = None THEN "insert" ELSE IF at[a].kind = "import" THEN "imported" ELSE "auth")
  /\ UNCHANGED <<hostVars, given, held, claims, ghostVars>>

TrustRefused(a) ==
  /\ At(a, "trust") /\ known[TypeOf[at[a].key]] \notin {None, at[a].key}
  /\ HandshakeFails(a)
  /\ UNCHANGED <<hostVars, claims, vouched>>

(* Slip: known_hosts has no unique index. *)
UniqueKey_No(k) == TRUE

(* The schema's UNIQUE (user_id, hostname, port, key_type). *)
UniqueKey(k) == known[TypeOf[k]] = None

TrustInsert(a) ==
  LET k == at[a].key IN
  /\ At(a, "insert") /\ UniqueKey(k)
  /\ known' = [known EXCEPT ![TypeOf[k]] = k]
  /\ Goes(a, IF at[a].kind = "import" THEN "imported" ELSE "auth")
  /\ UNCHANGED <<org, given, held, claims, ghostVars>>

(* The constraint, or the database, refuses the row. *)
InsertFails(a) ==
  /\ At(a, "insert")
  /\ HandshakeFails(a)
  /\ UNCHANGED <<hostVars, claims, vouched>>

(* handshake gives up: HandshakeTimeout, or the request's context.  The        *)
(* connection is closed; the goroutine with the callback goes on.              *)
GivesUp(a) ==
  /\ "net" \in held[a] /\ a \notin given
  /\ given' = given \cup {a}
  /\ Holds(a, held[a] \ {"net"})
  /\ UNCHANGED <<hostVars, at, claims, ghostVars>>

(* The key stands: the credential is sent, unless the connection is closed. *)
Authenticates(a) ==
  /\ At(a, "auth") /\ a \notin given
  /\ at' = [at EXCEPT ![a].pc = "shell", ![a].key = None, ![a].accept = None]
  /\ Holds(a, {"lease"}) /\ forgotten' = forgotten \ {a}
  /\ UNCHANGED <<hostVars, given, claims, vouched>>

(* The host refuses the credential, or there is no connection to send it on. *)
AuthFails(a) ==
  /\ At(a, "auth")
  /\ HandshakeFails(a)
  /\ UNCHANGED <<hostVars, claims, vouched>>

(* Store.Forget, for the user's rows: every algorithm of the host.  What is   *)
(* past its check goes on.                                                    *)
Forget ==
  /\ \E t \in Types : known[t] # None
  /\ known' = [t \in Types |-> None]
  /\ forgotten' = forgotten \cup {a \in Attempts : At(a, "auth")}
  /\ UNCHANGED <<org, at, given, held, claims, vouched>>

(* Service.Import hands Trust a key of the user's bundle; a refusal is only a *)
(* warning.                                                                   *)
StartImport(a, k) ==
  /\ At(a, "idle") /\ "import" \in Kinds
  /\ at' = [at EXCEPT ![a] = [Idle EXCEPT !.pc = "trust", !.kind = "import", !.key = k]]
  /\ vouched' = vouched \cup {k}
  /\ UNCHANGED <<hostVars, given, held, claims, forgotten>>

Imported(a) ==
  /\ At(a, "imported") /\ Ends(a)
  /\ UNCHANGED <<hostVars, held, claims, vouched>>

(***************************************************************************)
(* Telnet and serial, to an open connection.                               *)
(***************************************************************************)

StartTelnet(a) ==
  /\ At(a, "idle") /\ "telnet" \in Kinds
  /\ at' = [at EXCEPT ![a] = [Idle EXCEPT !.pc = "logon", !.kind = "telnet"]]
  /\ Holds(a, {"conn"})
  /\ UNCHANGED <<hostVars, given, claims, ghostVars>>

(* Registry.Claim, by the name the connection gives the device. *)
Claim(a, l) ==
  /\ At(a, "idle") /\ "serial" \in Kinds /\ claims[l] = None
  /\ claims' = [claims EXCEPT ![l] = a]
  /\ at' = [at EXCEPT ![a] = [Idle EXCEPT !.pc = "port", !.kind = "serial", !.line = l]]
  /\ Holds(a, {"claim"})
  /\ UNCHANGED <<hostVars, given, ghostVars>>

OpenPort(a) ==
  /\ At(a, "port")
  /\ Goes(a, "logon") /\ Holds(a, held[a] \cup {"port"})
  /\ UNCHANGED <<hostVars, given, claims, ghostVars>>

(***************************************************************************)
(* From a connection to a terminal, and back.                              *)
(***************************************************************************)

(* What is the attempt's alone is closed; its lease or claim goes after that. *)
Closes_AfterRelease(a) ==
  /\ claims' = [l \in Lines |-> IF claims[l] = a THEN None ELSE claims[l]]
  /\ Holds(a, held[a] \ {"lease", "claim"})
  /\ Goes(a, "release")

Closes(a) ==
  /\ Holds(a, held[a] \cap {"lease", "claim"})
  /\ Goes(a, "release")
  /\ UNCHANGED claims

Release(a) ==
  /\ At(a, "release")
  /\ claims' = [l \in Lines |-> IF claims[l] = a THEN None ELSE claims[l]]
  /\ Holds(a, {}) /\ Ends(a)
  /\ UNCHANGED <<hostVars, vouched>>

(* Client.Shell.  A file session has no shell: it keeps the lease. *)
Shell(a) ==
  /\ At(a, "shell")
  /\ \/ at[a].kind = "files" /\ Goes(a, "up") /\ UNCHANGED held
     \/ at[a].kind # "files" /\ Goes(a, "record") /\ Holds(a, held[a] \cup {"shell"})
  /\ UNCHANGED <<hostVars, given, claims, ghostVars>>

(* recordingFor: a transcript where the policy or the connection wants one. *)
recordingFor(a, wanted) ==
  /\ At(a, "record")
  /\ Holds(a, held[a] \cup IF wanted THEN {"transcript"} ELSE {})
  /\ Goes(a, IF at[a].kind = "terminal" THEN "logon" ELSE "open")
  /\ UNCHANGED <<hostVars, given, claims, ghostVars>>

(* LogonFor: over SSH the credential is only for the triggers, and a failure  *)
(* is logged.                                                                 *)
LogonFor(a) ==
  /\ At(a, "logon")
  /\ Goes(a, IF at[a].kind = "terminal" THEN "open" ELSE "record")
  /\ UNCHANGED <<hostVars, given, held, claims, ghostVars>>

(* Manager.Open, or the file session in its manager's map. *)
Open(a) ==
  /\ At(a, "open") /\ Goes(a, "up")
  /\ UNCHANGED <<hostVars, given, held, claims, ghostVars>>

(* The remote shell cannot be started: the lease goes back. *)
ShellFails(a) ==
  /\ At(a, "shell") /\ Closes(a)
  /\ UNCHANGED <<hostVars, given, ghostVars>>

(* The device cannot be opened, or the server may not open it (serialError). *)
PortFails(a) ==
  /\ At(a, "port") /\ Closes(a)
  /\ UNCHANGED <<hostVars, given, ghostVars>>

(* The credential cannot be read, or the transcript that should be kept not   *)
(* opened; over SSH only the transcript stops the connection.                 *)
LogonFails(a) ==
  /\ At(a, "logon") /\ at[a].kind # "terminal" /\ Closes(a)
  /\ UNCHANGED <<hostVars, given, ghostVars>>

RecordFails(a) ==
  /\ At(a, "record") /\ Closes(a)
  /\ UNCHANGED <<hostVars, given, ghostVars>>

(* Terminal.close and Session.close: what is up ends. *)
Ended(a) ==
  /\ At(a, "up") /\ Closes(a)
  /\ UNCHANGED <<hostVars, given, ghostVars>>

ConnectNext ==
  \/ Forget
  \/ \E a \in Attempts :
       \/ \E kind \in {"terminal", "files"}, accept \in Keys \cup {None} : StartSSH(a, kind, accept)
       \/ buildCredential(a) \/ buildAgent(a) \/ PrepareFails(a) \/ Dials(a) \/ Reuse(a) \/ Unreachable(a)
       \/ \E k \in Keys : Presents(a, k) \/ StartImport(a, k)
       \/ Trusted(a) \/ Changed(a) \/ Asks(a) \/ Accepted(a) \/ Rejected(a)
       \/ TrustLookup(a) \/ TrustRefused(a) \/ TrustInsert(a) \/ InsertFails(a)
       \/ GivesUp(a) \/ Authenticates(a) \/ AuthFails(a) \/ Imported(a)
       \/ StartTelnet(a) \/ OpenPort(a) \/ Shell(a) \/ LogonFor(a) \/ Open(a)
       \/ \E l \in Lines : Claim(a, l)
       \/ \E wanted \in BOOLEAN : recordingFor(a, wanted)
       \/ ShellFails(a) \/ PortFails(a) \/ LogonFails(a) \/ RecordFails(a) \/ Ended(a)
       \/ Release(a)

ConnectSpec == ConnectInit /\ [][ConnectNext]_connectVars

(***************************************************************************)
(* Properties.                                                             *)
(***************************************************************************)

PCs == {"idle", "prepare", "agent", "route", "dial", "verify", "ask", "trust", "insert", "auth", "imported",
        "shell", "record", "logon", "open", "up", "port", "release"}

Attempt == [pc : PCs, kind : Kinds \cup {None}, key : Keys \cup {None},
            line : Lines \cup {None}, accept : Keys \cup {None}]
Things == {"net", "lease", "conn", "claim", "port", "shell", "transcript"}

(* The type of the state. *)
ConnectTypeOK ==
  /\ org \in Keys \cup {None} /\ known \in [Types -> Keys \cup {None}]
  /\ at \in [Attempts -> Attempt]
  /\ given \subseteq Attempts /\ forgotten \subseteq Attempts
  /\ held \in [Attempts -> SUBSET Things]
  /\ claims \in [Lines -> Attempts \cup {None}]
  /\ vouched \subseteq Keys

(* A password or a signature only ever goes to a host whose key the user said *)
(* yes to, by fingerprint, or the administrator published; where one is       *)
(* published for the algorithm no other key gets any, whoever vouched for it  *)
(* (dialOne's decide, fingerprintPrompter, Store.Verify).                     *)
KeysVetted ==
  \A a \in Attempts : At(a, "auth") =>
    LET k == at[a].key IN
    /\ k \in vouched \cup {org}
    /\ org # None /\ TypeOf[org] = TypeOf[k] => k = org

(* When the credential is about to be sent, the key it goes to is the one on  *)
(* record, however many dials, imports and late answers were recording keys   *)
(* for that host at once; only a record forgotten since its check is excepted *)
(* (Store.insert against UNIQUE (user_id, hostname, port, key_type)).         *)
AuthOnRecord ==
  \A a \in Attempts :
    At(a, "auth") => \/ at[a].key \in {org, known[TypeOf[at[a].key]]}
                     \/ a \in forgotten

(* An attempt that is over left nothing open behind it, on any of its ways    *)
(* out, a serial line is open at most once under one name, and who has a      *)
(* line's claim has not ended: closing comes before giving back (connectSSH,  *)
(* connectTelnet, connectSerial, Terminal.close).                             *)
NothingLeft ==
  /\ \A a \in Attempts : At(a, "idle") => held[a] = {}
  /\ \A l \in Lines : Cardinality({a \in Attempts : at[a].line = l /\ "port" \in held[a]}) <= 1
  /\ \A l \in Lines : claims[l] # None => "claim" \in held[claims[l]]
=============================================================================
