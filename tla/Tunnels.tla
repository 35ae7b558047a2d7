-------------------------------- MODULE Tunnels --------------------------------
(***************************************************************************)
(* Port forwarding: internal/proto/tunnel.  Manager opens tunnels, hands   *)
(* out local ports, reaps idle tunnels and shuts down (manager.go); a      *)
(* tunnel holds a lease on a shared SSH connection and closes in steps     *)
(* (tunnel.go); its accept loop starts a goroutine per forwarded           *)
(* connection (forward.go); web tunnels are served by a reverse proxy      *)
(* (proxy.go).                                                             *)
(*                                                                         *)
(* Every critical section of m.mu is one action; what happens between two  *)
(* of them, and between the steps of Tunnel.close, may interleave with     *)
(* everything else.  All tunnels here are of one user.  "local" stands for *)
(* local and SOCKS tunnels, which differ only in who names the             *)
(* destination.                                                            *)
(***************************************************************************)
EXTENDS Integers, FiniteSets

CONSTANTS Tunnels,     \* tunnel objects; each is opened once
          Conns,       \* forwarded connections and proxied requests
          Ports,       \* PortLow..PortHigh
          Allowed,     \* the kinds this server's settings permit
          MaxPerUser,
          Attempts,    \* listenAttempts
          None

Kinds == {"local", "remote", "web"}

ASSUME TunnelsAssumption ==
  /\ Allowed \subseteq Kinds
  /\ None \notin Tunnels \cup Ports
  /\ MaxPerUser \in Nat \ {0}
  /\ Attempts \in Nat \ {0}

VARIABLES
  closed,     \* m.closed
  tunnels,    \* m.tunnels
  ports,      \* m.ports
  reaper,     \* "running" or "done" (m.done is closed)
  looking,    \* the tunnel reapOnce found without active connections
  stage,      \* how far the goroutine opening or closing a tunnel has come
  by,         \* who is closing it: "user", "reaper" or "shutdown"
  kind,       \* Tunnel.Kind
  tries,      \* failed attempts to bind, while listen runs
  localPort,  \* the port allocated to it in this server's range
  listenPort, \* the port its listener reports, here or on the device
  lease,      \* whether it holds its connection
  listening,  \* whether its listener is open
  accepting,  \* whether its accept loop runs
  cancelled,  \* whether its context has been cancelled
  state,      \* Tunnel.state: "open", "closed" or "failed"
  idle,       \* whether lastUsed is more than IdleTimeout ago
  cpc,        \* where a forwarded connection is
  over        \* the tunnel it goes over

managerVars == <<closed, tunnels, ports, reaper, looking>>
openVars    == <<by, kind, tries, localPort, listenPort>>
liveVars    == <<lease, listening, accepting, cancelled, state>>
connVars    == <<cpc, over>>
vars == <<closed, tunnels, ports, reaper, looking, stage, by, kind, tries, localPort,
          listenPort, lease, listening, accepting, cancelled, state, idle,
          cpc, over>>

Init ==
  /\ closed     = FALSE
  /\ tunnels    = {}
  /\ ports      = {}
  /\ reaper     = "running"
  /\ looking    = None
  /\ stage      = [t \in Tunnels |-> "unused"]
  /\ by         = [t \in Tunnels |-> None]
  /\ kind       = [t \in Tunnels |-> None]
  /\ tries      = [t \in Tunnels |-> 0]
  /\ localPort  = [t \in Tunnels |-> None]
  /\ listenPort = [t \in Tunnels |-> None]
  /\ lease      = [t \in Tunnels |-> FALSE]
  /\ listening  = [t \in Tunnels |-> FALSE]
  /\ accepting  = [t \in Tunnels |-> FALSE]
  /\ cancelled  = [t \in Tunnels |-> FALSE]
  /\ state      = [t \in Tunnels |-> "open"]
  /\ idle       = [t \in Tunnels |-> FALSE]
  /\ cpc        = [c \in Conns |-> "free"]
  /\ over       = [c \in Conns |-> None]

To(t, s) == stage' = [stage EXCEPT ![t] = s]

-----------------------------------------------------------------------------
(* Forwarded connections in flight.  Those of web tunnels are not counted. *)
On(t, places) == {c \in Conns : over[c] = t /\ cpc[c] \in places}

(* t.live *)
Live(t) ==
  IF kind[t] = "web" THEN {}
    ELSE On(t, {"counted", "entered", "asking", "dialling", "piping", "ending"})

(* t.active *)
Active(t) ==
  IF kind[t] = "web" THEN {}
    ELSE On(t, {"entered", "asking", "dialling", "piping", "ending"})

-----------------------------------------------------------------------------
(* Manager.Open. *)

(* A tunnel that failed counts until it is closed. *)
WithinQuota == ~closed /\ Cardinality(tunnels) < MaxPerUser

(* The kind is allowed, and checkQuota.  A refused request changes nothing. *)
CheckQuota(t, k) ==
  /\ stage[t] = "unused"
  /\ WithinQuota
  /\ To(t, "asked")
  /\ kind' = [kind EXCEPT ![t] = k]
  /\ UNCHANGED <<managerVars, by, tries, localPort, listenPort, liveVars,
                 idle, connVars>>

DialFailed(t) ==
  /\ stage[t] = "asked"
  /\ To(t, "refused")
  /\ UNCHANGED <<managerVars, openVars, liveVars, idle, connVars>>

Dialled(t) ==
  /\ stage[t] = "asked"
  /\ To(t, "leased")
  /\ lease' = [lease EXCEPT ![t] = TRUE]
  /\ UNCHANGED <<managerVars, openVars, listening, accepting, cancelled, state,
                 idle, connVars>>

FreePort(p) == p \in Ports \ ports

(* allocatePort: some free port of the range. *)
AllocatePort(t) ==
  /\ stage[t] = "leased"
  /\ kind[t] = "local"
  /\ \E p \in Ports :
       /\ FreePort(p)
       /\ ports' = ports \cup {p}
       /\ localPort' = [localPort EXCEPT ![t] = p]
  /\ To(t, "allocated")
  /\ UNCHANGED <<closed, tunnels, reaper, looking, by, kind, tries, listenPort,
                 liveVars, idle, connVars>>

(* Slip: the connection is not given back when the listener cannot be made. *)
GiveUp_KeepsLease(t) ==
  /\ To(t, "refused")
  /\ UNCHANGED lease

GiveUp(t) ==
  /\ To(t, "refused")
  /\ lease' = [lease EXCEPT ![t] = FALSE]

NoPort(t) ==
  /\ stage[t] = "leased"
  /\ kind[t] = "local"
  /\ Ports \subseteq ports
  /\ GiveUp(t)
  /\ UNCHANGED <<managerVars, openVars, listening, accepting, cancelled, state,
                 idle, connVars>>

(* net.Listen, and the accept loop starts. *)
Bind(t) ==
  /\ stage[t] = "allocated"
  /\ listening'  = [listening EXCEPT ![t] = TRUE]
  /\ accepting'  = [accepting EXCEPT ![t] = TRUE]
  /\ listenPort' = [listenPort EXCEPT ![t] = localPort[t]]
  /\ tries' = [tries EXCEPT ![t] = 0]
  /\ To(t, "ready")
  /\ UNCHANGED <<managerVars, by, kind, localPort, lease, cancelled,
                 state, idle, connVars>>

LastTry(t) == tries[t] >= Attempts - 1

(* Somebody else has the port: free it and try another, Attempts times. *)
BindFailed(t) ==
  /\ stage[t] = "allocated"
  /\ ports' = ports \ {localPort[t]}
  /\ localPort' = [localPort EXCEPT ![t] = None]
  /\ tries' = [tries EXCEPT ![t] = @ + 1]
  /\ IF LastTry(t)
       THEN GiveUp(t)
       ELSE To(t, "leased") /\ UNCHANGED lease
  /\ UNCHANGED <<closed, tunnels, reaper, looking, by, kind, listenPort, listening,
                 accepting, cancelled, state, idle, connVars>>

(* listenRemote: the device listens, on a port of its own. *)
ListenRemote(t) ==
  /\ stage[t] = "leased"
  /\ kind[t] = "remote"
  /\ listening' = [listening EXCEPT ![t] = TRUE]
  /\ accepting' = [accepting EXCEPT ![t] = TRUE]
  /\ \E p \in Ports : listenPort' = [listenPort EXCEPT ![t] = p]
  /\ To(t, "ready")
  /\ UNCHANGED <<managerVars, by, kind, tries, localPort, lease, cancelled,
                 state, idle, connVars>>

ListenRemoteFailed(t) ==
  /\ stage[t] = "leased"
  /\ kind[t] = "remote"
  /\ GiveUp(t)
  /\ UNCHANGED <<managerVars, openVars, listening, accepting, cancelled, state,
                 idle, connVars>>

Opened(t) == stage[t] = "ready" \/ (stage[t] = "leased" /\ kind[t] = "web")

Register(t) ==
  /\ Opened(t)
  /\ ~closed
  /\ tunnels' = tunnels \cup {t}
  /\ To(t, "open")
  /\ UNCHANGED <<closed, ports, reaper, looking, openVars, liveVars, idle, connVars>>

(* The manager closed meanwhile.  The port stays allocated, and nobody     *)
(* waits for connections accepted so far.                                  *)
RegisterRefused(t) ==
  /\ Opened(t)
  /\ closed
  /\ cancelled' = [cancelled EXCEPT ![t] = TRUE]
  /\ listening' = [listening EXCEPT ![t] = FALSE]
  /\ lease' = [lease EXCEPT ![t] = FALSE]
  /\ To(t, "abandoned")
  /\ UNCHANGED <<managerVars, openVars, accepting, state, idle, connVars>>

-----------------------------------------------------------------------------
(* Who closes tunnels. *)

Closing == {"doomed", "stopping", "waiting", "freeing"}

Pending(w) == {t \in Tunnels : by[t] = w /\ stage[t] \in Closing}

(* Everything in S leaves the map, to be closed by worker w outside m.mu. *)
Doom(S, w) ==
  /\ tunnels' = tunnels \ S
  /\ by'    = [t \in Tunnels |-> IF t \in S THEN w ELSE by[t]]
  /\ stage' = [t \in Tunnels |-> IF t \in S THEN "doomed" ELSE stage[t]]

(* Get: a tunnel that has left the map is not found. *)
Found(t) == t \in tunnels

(* handleCloseTunnel *)
CloseTunnel(t) ==
  /\ Found(t)
  /\ Doom({t}, "user")
  /\ UNCHANGED <<closed, ports, reaper, looking, kind, tries, localPort, listenPort,
                 liveVars, idle, connVars>>

(***************************************************************************)
(* reapOnce, by the one reaper goroutine: it reads active and then, in a   *)
(* step of its own, lastUsed, and forwarded connections run in between.    *)
(* It holds m.mu over the whole round.  What others do under m.mu between  *)
(* the two reads here could as well have come before both: they read       *)
(* nothing of it.  A tunnel that left the map meanwhile is left alone; one *)
(* that is not idle when its active connections are counted will not be    *)
(* when its clock is read, and nothing comes of looking at it.             *)
(***************************************************************************)
ReapLook(t) ==
  /\ reaper = "running"
  /\ ~closed
  /\ looking = None
  /\ \A u \in Pending("reaper") : stage[u] = "doomed"
  /\ t \in tunnels
  /\ idle[t]
  /\ Active(t) = {}
  /\ looking' = t
  /\ UNCHANGED <<closed, tunnels, ports, reaper, stage, openVars, liveVars,
                 idle, connVars>>

ReapTake ==
  /\ looking # None
  /\ IF looking \in tunnels /\ idle[looking]
       THEN Doom({looking}, "reaper")
       ELSE UNCHANGED <<tunnels, by, stage>>
  /\ looking' = None
  /\ UNCHANGED <<closed, ports, reaper, kind, tries, localPort, listenPort,
                 liveVars, idle, connVars>>

Shutdown ==
  /\ ~closed
  /\ closed' = TRUE
  /\ Doom(tunnels, "shutdown")
  /\ UNCHANGED <<ports, reaper, looking, kind, tries, localPort, listenPort, liveVars,
                 idle, connVars>>

(* The reaper sees m.stop when it is not busy closing something. *)
ReaperExits ==
  /\ closed
  /\ reaper = "running"
  /\ looking = None
  /\ Pending("reaper") = {}
  /\ reaper' = "done"
  /\ UNCHANGED <<closed, tunnels, ports, looking, stage, openVars, liveVars, idle,
                 connVars>>

-----------------------------------------------------------------------------
(* Tunnel.close and forget, one tunnel at a time for reaper and Shutdown. *)

Turn(t) ==
  /\ stage[t] = "doomed"
  /\ by[t] = "shutdown" => reaper = "done"
  /\ by[t] = "reaper" => looking = None
  /\ by[t] # "user" => \A u \in Pending(by[t]) : stage[u] = "doomed"

(* Slip: connections over the tunnel are not told to stop. *)
CloseBegin_NoCancel(t) ==
  /\ Turn(t)
  /\ state' = [state EXCEPT ![t] = IF @ = "open" THEN "closed" ELSE @]
  /\ To(t, "stopping")
  /\ UNCHANGED <<managerVars, openVars, lease, listening, accepting, cancelled,
                 idle, connVars>>

CloseBegin(t) ==
  /\ Turn(t)
  /\ state' = [state EXCEPT ![t] = IF @ = "open" THEN "closed" ELSE @]
  /\ cancelled' = [cancelled EXCEPT ![t] = TRUE]
  /\ To(t, "stopping")
  /\ UNCHANGED <<managerVars, openVars, lease, listening, accepting, idle,
                 connVars>>

CloseListener(t) ==
  /\ stage[t] = "stopping"
  /\ listening' = [listening EXCEPT ![t] = FALSE]
  /\ To(t, "waiting")
  /\ UNCHANGED <<managerVars, openVars, lease, accepting, cancelled, state,
                 idle, connVars>>

Drained(t) == Live(t) = {}

(* t.live.Wait, then conn.Release. *)
Release(t) ==
  /\ stage[t] = "waiting"
  /\ Drained(t)
  /\ lease' = [lease EXCEPT ![t] = FALSE]
  /\ To(t, "freeing")
  /\ UNCHANGED <<managerVars, openVars, listening, accepting, cancelled, state,
                 idle, connVars>>

(* Slip: the port is not given back. *)
PortOf_Forgotten(t) == None

(* The local port, which is none for remote and web tunnels. *)
PortOf(t) == localPort[t]

ReleasePort(t) ==
  /\ stage[t] = "freeing"
  /\ ports' = ports \ {PortOf(t)}
  /\ by' = [by EXCEPT ![t] = None]
  /\ To(t, "gone")
  /\ UNCHANGED <<closed, tunnels, reaper, looking, kind, tries, localPort, listenPort,
                 liveVars, idle, connVars>>

-----------------------------------------------------------------------------
(* accept, serve and pipe. *)

At(c, p) == cpc' = [cpc EXCEPT ![c] = p]

LoopFree(t) == accepting[t] /\ On(t, {"accepted"}) = {}

Accept(t, c) ==
  /\ LoopFree(t)
  /\ listening[t]
  /\ cpc[c] = "free"
  /\ At(c, "accepted")
  /\ over' = [over EXCEPT ![c] = t]
  /\ UNCHANGED <<managerVars, stage, openVars, liveVars, idle>>

(* The listener was closed: that is how a tunnel shuts down. *)
AcceptExits(t) ==
  /\ LoopFree(t)
  /\ ~listening[t]
  /\ accepting' = [accepting EXCEPT ![t] = FALSE]
  /\ UNCHANGED <<managerVars, stage, openVars, lease, listening, cancelled,
                 state, idle, connVars>>

Failed(t) == state' = [state EXCEPT ![t] = IF @ = "open" THEN "failed" ELSE @]

(* Any other error: the tunnel stays, failed, until somebody closes it. *)
AcceptFails(t) ==
  /\ LoopFree(t)
  /\ listening[t]
  /\ accepting' = [accepting EXCEPT ![t] = FALSE]
  /\ IF cancelled[t] THEN UNCHANGED state ELSE Failed(t)
  /\ UNCHANGED <<managerVars, stage, openVars, lease, listening, cancelled,
                 idle, connVars>>

(* live.Add(1), and the connection's goroutine starts. *)
Count(c) ==
  /\ cpc[c] = "accepted"
  /\ At(c, "counted")
  /\ UNCHANGED <<managerVars, stage, openVars, liveVars, idle, over>>

Touch(t) == idle' = [idle EXCEPT ![t] = FALSE]

(* active.Add(1) *)
Enter(c) ==
  /\ cpc[c] = "counted"
  /\ At(c, "entered")
  /\ UNCHANGED <<managerVars, stage, openVars, liveVars, idle, over>>

(* Slip: an accepted connection counts as use only once it has ended. *)
Serve_NoTouch(c) ==
  /\ cpc[c] = "entered"
  /\ At(c, "asking")
  /\ UNCHANGED <<managerVars, stage, openVars, liveVars, idle, over>>

(* touch; a SOCKS client is asked where it wants to go. *)
Serve(c) ==
  /\ cpc[c] = "entered"
  /\ At(c, "asking")
  /\ Touch(over[c])
  /\ UNCHANGED <<managerVars, stage, openVars, liveVars, over>>

TunnelForHost(t) == t \in tunnels /\ kind[t] = "web"

(* handleTunnelProxy: a request for a web tunnel has found it in the map. *)
ProxyRequest(t, c) ==
  /\ TunnelForHost(t)
  /\ cpc[c] = "free"
  /\ At(c, "asking")
  /\ over' = [over EXCEPT ![c] = t]
  /\ UNCHANGED <<managerVars, stage, openVars, liveVars, idle>>

(* DialContext refuses at once when its context is over; a proxied request *)
(* has a context of its own.                                               *)
MayDial(c) == kind[over[c]] = "web" \/ ~cancelled[over[c]]

StartDial(c) ==
  /\ cpc[c] = "asking"
  /\ MayDial(c)
  /\ At(c, "dialling")
  /\ IF kind[over[c]] = "web" THEN Touch(over[c]) ELSE UNCHANGED idle
  /\ UNCHANGED <<managerVars, stage, openVars, liveVars, over>>

(* The SOCKS handshake failed or timed out, or the context is over. *)
NoDial(c) ==
  /\ cpc[c] = "asking"
  /\ At(c, "ending")
  /\ UNCHANGED <<managerVars, stage, openVars, liveVars, idle, over>>

DialOK(c) ==
  /\ cpc[c] = "dialling"
  /\ At(c, "piping")
  /\ IF kind[over[c]] = "web" THEN Touch(over[c]) ELSE UNCHANGED idle
  /\ UNCHANGED <<managerVars, stage, openVars, liveVars, over>>

(* Nobody answers; or, for a remote tunnel, the address is one this server  *)
(* must not be led to.                                                     *)
DialFails(c) ==
  /\ cpc[c] = "dialling"
  /\ At(c, "ending")
  /\ IF kind[over[c]] = "web" THEN Failed(over[c]) ELSE UNCHANGED state
  /\ UNCHANGED <<managerVars, stage, openVars, lease, listening, accepting,
                 cancelled, idle, over>>

(* Either end stopped, or the context did and closed both. *)
PipeEnds(c) ==
  /\ cpc[c] = "piping"
  /\ At(c, "ending")
  /\ IF kind[over[c]] = "web" THEN UNCHANGED idle ELSE Touch(over[c])
  /\ UNCHANGED <<managerVars, stage, openVars, liveVars, over>>

(* The deferred calls: active.Add(-1), conn.Close, live.Done. *)
Done(c) ==
  /\ cpc[c] = "ending"
  /\ At(c, "free")
  /\ over' = [over EXCEPT ![c] = None]
  /\ UNCHANGED <<managerVars, stage, openVars, liveVars, idle>>

(* IdleTimeout passes without use.  For the reaper the time stands still:   *)
(* it asks whether it had passed when its round began.                      *)
Idle(t) ==
  /\ t \in tunnels
  /\ t # looking
  /\ ~idle[t]
  /\ idle' = [idle EXCEPT ![t] = TRUE]
  /\ UNCHANGED <<managerVars, stage, openVars, liveVars, connVars>>

-----------------------------------------------------------------------------
Open(t) ==
  \/ \E k \in Allowed : CheckQuota(t, k)
  \/ DialFailed(t) \/ Dialled(t)
  \/ AllocatePort(t) \/ NoPort(t) \/ Bind(t) \/ BindFailed(t)
  \/ ListenRemote(t) \/ ListenRemoteFailed(t)
  \/ Register(t) \/ RegisterRefused(t)

CloseStep(t) ==
  CloseBegin(t) \/ CloseListener(t) \/ Release(t) \/ ReleasePort(t)

DialEnds(c) == DialOK(c) \/ DialFails(c)

ConnStep(c) ==
  \/ Count(c) \/ Enter(c) \/ Serve(c) \/ StartDial(c) \/ NoDial(c)
  \/ DialEnds(c) \/ PipeEnds(c) \/ Done(c)

Next ==
  \/ \E t \in Tunnels :
       \/ Open(t) \/ CloseTunnel(t) \/ CloseStep(t)
       \/ AcceptExits(t) \/ AcceptFails(t) \/ Idle(t) \/ ReapLook(t)
       \/ \E c \in Conns : Accept(t, c) \/ ProxyRequest(t, c)
  \/ \E c \in Conns : ConnStep(c)
  \/ ReapTake \/ Shutdown \/ ReaperExits

Spec == Init /\ [][Next]_vars

Cancelled(c) == over[c] # None /\ cancelled[over[c]]

(***************************************************************************)
(* Fairness.  Goroutines that can run do; a SOCKS handshake has a deadline *)
(* of ten seconds.  A dial or a copy must end only once its context is     *)
(* over: DialContext returns then, and pipe's AfterFunc closes both ends.  *)
(* The reaper's round looks at each tunnel once, so it gets to closing what *)
(* it took (strong fairness: in the model it may look again and again).     *)
(***************************************************************************)
Fairness ==
  /\ WF_vars(ReapTake) /\ WF_vars(ReaperExits)
  /\ \A t \in Tunnels : WF_vars(CloseStep(t)) /\ SF_vars(CloseBegin(t))
  /\ \A c \in Conns : /\ WF_vars(Count(c) \/ Enter(c) \/ Serve(c) \/ Done(c))
                      /\ WF_vars(StartDial(c) \/ NoDial(c))
                      /\ WF_vars(Cancelled(c) /\ DialEnds(c))
                      /\ WF_vars(Cancelled(c) /\ PipeEnds(c))

FairSpec == Spec /\ Fairness

-----------------------------------------------------------------------------
(* Properties. *)

Stages == {"unused", "asked", "leased", "allocated", "ready", "open",
           "refused", "abandoned", "gone"} \cup Closing

Places == {"free", "accepted", "counted", "entered", "asking", "dialling",
           "piping", "ending"}

(* The types of the variables. *)
TypeOK ==
  /\ closed \in BOOLEAN
  /\ tunnels \subseteq Tunnels
  /\ ports \subseteq Ports
  /\ reaper \in {"running", "done"}
  /\ looking \in Tunnels \cup {None}
  /\ stage \in [Tunnels -> Stages]
  /\ by \in [Tunnels -> {"user", "reaper", "shutdown", None}]
  /\ kind \in [Tunnels -> Kinds \cup {None}]
  /\ tries \in [Tunnels -> 0..Attempts]
  /\ localPort \in [Tunnels -> Ports \cup {None}]
  /\ listenPort \in [Tunnels -> Ports \cup {None}]
  /\ lease \in [Tunnels -> BOOLEAN]
  /\ listening \in [Tunnels -> BOOLEAN]
  /\ accepting \in [Tunnels -> BOOLEAN]
  /\ cancelled \in [Tunnels -> BOOLEAN]
  /\ state \in [Tunnels -> {"open", "closed", "failed"}]
  /\ idle \in [Tunnels -> BOOLEAN]
  /\ cpc \in [Conns -> Places]
  /\ over \in [Conns -> Tunnels \cup {None}]

(* A tunnel that has been allocated a port and not given it back. *)
HasPort(t) ==
  localPort[t] # None /\ stage[t] \in {"allocated", "ready", "open"} \cup Closing

(* No port is ever in two tunnels' hands, and none is freed while the       *)
(* tunnel it was allocated to still has it: allocatePort, the retries of    *)
(* listen and forget, by whoever calls it, agree on m.ports.                *)
PortsExclusive ==
  \A t \in Tunnels : HasPort(t) =>
    /\ localPort[t] \in ports
    /\ \A u \in Tunnels : HasPort(u) /\ localPort[t] = localPort[u] => t = u

(* A port is not lost either: while the manager runs, every allocated port  *)
(* belongs to a tunnel that is opening, open or closing.                    *)
PortsReturned ==
  ~closed => \A p \in ports : \E t \in Tunnels : HasPort(t) /\ localPort[t] = p

(* A forwarded connection is copied only over a connection the tunnel still *)
(* holds: close waits for those in flight, and one accepted too late to be  *)
(* waited for finds its context over and never dials.  (A tunnel refused by *)
(* a manager that closed meanwhile does not wait.)                          *)
ForwardsHaveLease ==
  \A c \in Conns : cpc[c] \in {"dialling", "piping"} =>
    kind[over[c]] = "web" \/ stage[over[c]] = "abandoned" \/ lease[over[c]]

(* Whatever way a tunnel ended, it has given back its connection and its    *)
(* listener, and one that is in the map has both.                           *)
NothingHeld ==
  \A t \in Tunnels :
    /\ stage[t] \in {"refused", "abandoned", "gone"} => ~lease[t] /\ ~listening[t]
    /\ t \in tunnels => lease[t] /\ (kind[t] = "web" \/ listening[t])

(* m.ports is exactly the ports tunnels have: none shared, freed early or     *)
(* lost (allocatePort, listen, forget).                                       *)
PortsAccounted == PortsExclusive /\ PortsReturned

(* A tunnel has its connection and its listener while it is used and not a    *)
(* moment longer (Open's failures, serve, Tunnel.close).                      *)
HeldWhileUsed == NothingHeld /\ ForwardsHaveLease

(* A connection that has come as far as serve is never cut by the reaper,   *)
(* however long it has been quiet: it counts itself before it touches the   *)
(* clock and reapOnce reads them in that order, so that whichever read      *)
(* comes too early the other one saves it.  (One that has not touched the   *)
(* clock yet can be: NeverReapedUnder, below.)                              *)
ReaperSparesActive ==
  [][\A c \in Conns : cpc[c] \in {"asking", "dialling", "piping"}
       /\ kind[over[c]] # "web" /\ over[c] \in tunnels /\ over[c] \notin tunnels'
       => by'[over[c]] # "reaper"]_vars

(* Closing a tunnel ends, whoever does it and whatever is in flight over it *)
(* or queued before it; so Shutdown returns.  (Each tunnel is closed once:  *)
(* that again and again no close is under way says that each one ends.)     *)
ClosesFinish == []<>(\A t \in Tunnels : stage[t] \notin Closing)

(***************************************************************************)
(* What comments say, and the code does not keep (README, Divergences).      *)
(***************************************************************************)

(* manager.go: MaxPerUser caps concurrent tunnels per person.              *)
QuotaKept == Cardinality(tunnels) <= MaxPerUser

(* manager.go: a tunnel with a connection in flight is in use whatever its *)
(* clock says; tunnel.go: it is never reaped out from under one.           *)
NeverReapedUnder ==
  [][\A c \in Conns : cpc[c] # "free" /\ over[c] \in tunnels
       /\ over[c] \notin tunnels' => by'[over[c]] # "reaper"]_vars

=============================================================================
