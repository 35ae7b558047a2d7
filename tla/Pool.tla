--------------------------------- MODULE Pool ---------------------------------
(***************************************************************************)
(* The SSH connection pool and the routes through jump hosts:              *)
(* internal/remote/pool.go (Pool, entry, Lease), chain.go (dialThrough)    *)
(* and Dialer.Acquire of dial.go.                                          *)
(*                                                                         *)
(* Connections are shared by reference count, one entry per key.  A key is *)
(* a saved connection together with the route to it, so the hop keys of a  *)
(* key are its route's prefixes.  Dialling a key first takes a lease on    *)
(* every hop, each of which may be shared, waited for or dialled; the      *)
(* entry dialled owns those leases and gives them back when it closes.     *)
(*                                                                         *)
(* Each critical section of p.mu is one action.  What release() does       *)
(* outside the lock (close the client, then release the hop leases, which  *)
(* may be the last on their entries, ...) is a list of work that the       *)
(* releasing goroutine runs one item at a time.                            *)
(***************************************************************************)
EXTENDS Integers, Sequences, FiniteSets, SequencesExt

CONSTANTS Keys,     \* PathKeys of connections and of the hops they go through
          Asked,    \* those a caller asks for itself
          Route,    \* the hop keys of each key, outermost first
          Entries,  \* entry objects; one is reused when nothing refers to it
          Callers,  \* goroutines that acquire and release connections
          Closer,   \* the goroutine that runs Pool.Close
          MaxJumpChain,  \* how many hosts a route goes through at most
          None

ASSUME PoolAssumption ==
  /\ Asked \subseteq Keys /\ Route \in [Keys -> Seq(Keys)]
  /\ \A k \in Keys : \A i \in 1..Len(Route[k]) :
       Route[Route[k][i]] = SubSeq(Route[k], 1, i - 1)
  /\ MaxJumpChain \in Nat /\ \A k \in Keys : Len(Route[k]) <= MaxJumpChain
  /\ IsFiniteSet(Callers)
  /\ Closer \notin Callers
  /\ Callers \cap Entries = {}
  /\ None \notin Keys \cup Entries \cup Callers

VARIABLES
  closed,   \* p.closed
  conns,    \* p.conns
  key,      \* entry.key
  phase,    \* "unborn", "dialling", "ready" or "failed" (ready closed, err)
  conn,     \* entry.client: "none", "up", "dead" (by the far side), "closed"
  refs,     \* entry.refs
  evicted,  \* entry.evicted
  hops,     \* entry.release, as the hop entries it holds leases on
  under,    \* the entry whose client this one was dialled through
  leases,   \* Lease objects not yet released: <<holder, entry>>
  pc,       \* "idle", "route", "dial", "wait", "unwind", "fail", "held"
  mine,     \* the entry a caller is dialling the route for
  cur,      \* the entry it waits on, dials as a hop, or holds
  borrowed, \* hop leases taken so far by that dial
  todo,     \* work left to a goroutine outside the lock
  doomed    \* connections Close has taken out of the map and not yet come to

entryVars  == <<key, phase, conn, refs, evicted, hops, under>>
callerVars == <<pc, mine, cur, borrowed>>
vars == <<closed, conns, key, phase, conn, refs, evicted, hops, under,
          leases, pc, mine, cur, borrowed, todo, doomed>>

Procs == Callers \cup {Closer}

Init ==
  /\ closed   = FALSE
  /\ conns    = [k \in Keys |-> None]
  /\ key      = [e \in Entries |-> None]
  /\ phase    = [e \in Entries |-> "unborn"]
  /\ conn     = [e \in Entries |-> "none"]
  /\ refs     = [e \in Entries |-> 0]
  /\ evicted  = [e \in Entries |-> TRUE]
  /\ hops     = [e \in Entries |-> <<>>]
  /\ under    = [e \in Entries |-> None]
  /\ leases   = {}
  /\ pc       = [c \in Callers |-> "idle"]
  /\ mine     = [c \in Callers |-> None]
  /\ cur      = [c \in Callers |-> None]
  /\ borrowed = [c \in Callers |-> <<>>]
  /\ todo     = [p \in Procs |-> <<>>]
  /\ doomed   = {}

-----------------------------------------------------------------------------
(* Memory: an entry object is fresh when nothing refers to it any more. *)
Mentioned(e) ==
  \/ ~evicted[e] \/ e \in doomed
  \/ \E l \in leases : e \in {l[1], l[2]}
  \/ \E c \in Callers : e \in {mine[c], cur[c]} \cup Range(borrowed[c])
  \/ \E p \in Procs : \E i \in 1..Len(todo[p]) :
       e \in {todo[p][i].holder, todo[p][i].entry}
  \/ \E f \in Entries : conn[f] = "up" /\ under[f] = e

Fresh(e) == conn[e] # "up" /\ ~Mentioned(e)

(* The object the next entry is made in; which one it is makes no difference. *)
Spare == CHOOSE e \in Entries : Fresh(e)

(* evict: the map loses the entry only if it is the current one. *)
MapWithout(e) ==
  [k \in Keys |-> IF k = key[e] /\ conns[k] = e THEN None ELSE conns[k]]

Evict(e) ==
  /\ conns' = MapWithout(e)
  /\ evicted' = [evicted EXCEPT ![e] = TRUE]

CloseItem(e)   == [do |-> "close", holder |-> None, entry |-> e]
DropItem(h, e) == [do |-> "drop", holder |-> h, entry |-> e]

(* held.release: the leases an entry holds on its hops, last one first. *)
Drops(h, s) == [i \in 1..Len(s) |-> DropItem(h, s[Len(s) + 1 - i])]

(* Slip: the hops are given back before the connection over them closes. *)
Teardown_HopsFirst(e) ==
  IF conn[e] = "none" THEN <<>> ELSE Append(Drops(e, hops[e]), CloseItem(e))

(* The connection first, then the transport it rode on. *)
Teardown(e) ==
  IF conn[e] = "none" THEN <<>> ELSE <<CloseItem(e)>> \o Drops(e, hops[e])

(* Pool.release(e) by goroutine p, which has `rest` to do afterwards. *)
DropRef(p, e, rest) ==
  /\ refs' = [refs EXCEPT ![e] = @ - 1]
  /\ IF refs[e] <= 1
       THEN /\ Evict(e)
            /\ todo' = [todo EXCEPT ![p] = Teardown(e) \o rest]
       ELSE /\ todo' = [todo EXCEPT ![p] = rest]
            /\ UNCHANGED <<conns, evicted>>

-----------------------------------------------------------------------------
(* Pool.Acquire, called by Dialer.Acquire for a connection or by           *)
(* dialThrough for the next hop of the route it is dialling.               *)

NextHop(c) == Len(borrowed[c]) + 1

Asks(c, k) ==
  /\ todo[c] = <<>>
  /\ \/ pc[c] = "idle" /\ k \in Asked
     \/ /\ pc[c] = "route"
        /\ NextHop(c) \in DOMAIN Route[key[mine[c]]]
        /\ k = Route[key[mine[c]]][NextHop(c)]

(* ErrPoolClosed: the route unwinds; a fresh caller is just refused. *)
AcquireRefused(c, k) ==
  /\ Asks(c, k)
  /\ closed
  /\ pc' = [pc EXCEPT ![c] = IF @ = "route" THEN "unwind" ELSE "idle"]
  /\ UNCHANGED <<closed, conns, entryVars, leases, mine, cur, borrowed, todo,
                 doomed>>

(* There is an entry for the key, perhaps still being dialled: share it. *)
AcquireJoin(c, k) ==
  /\ Asks(c, k)
  /\ ~closed
  /\ conns[k] # None
  /\ refs' = [refs EXCEPT ![conns[k]] = @ + 1]
  /\ cur' = [cur EXCEPT ![c] = conns[k]]
  /\ pc' = [pc EXCEPT ![c] = "wait"]
  /\ UNCHANGED <<closed, conns, key, phase, conn, evicted, hops, under,
                 leases, mine, borrowed, todo, doomed>>

FirstRefs == 1

(* There is none: this caller dials it, as the end of a route or as a hop. *)
AcquireFresh(c, k, e) ==
  /\ Asks(c, k)
  /\ ~closed
  /\ conns[k] = None
  /\ Fresh(e) /\ e = Spare
  /\ conns'   = [conns EXCEPT ![k] = e]
  /\ key'     = [key EXCEPT ![e] = k]
  /\ phase'   = [phase EXCEPT ![e] = "dialling"]
  /\ conn'    = [conn EXCEPT ![e] = "none"]
  /\ refs'    = [refs EXCEPT ![e] = FirstRefs]
  /\ evicted' = [evicted EXCEPT ![e] = FALSE]
  /\ hops'    = [hops EXCEPT ![e] = <<>>]
  /\ under'   = [under EXCEPT ![e] = None]
  /\ IF pc[c] = "idle"
       THEN /\ mine' = [mine EXCEPT ![c] = e]
            /\ pc' = [pc EXCEPT ![c] = "route"]
            /\ UNCHANGED cur
       ELSE /\ cur' = [cur EXCEPT ![c] = e]
            /\ pc' = [pc EXCEPT ![c] = "dial"]
            /\ UNCHANGED mine
  /\ UNCHANGED <<closed, leases, borrowed, todo, doomed>>

(* Acquire returns a lease on e: to the caller, or to the route it dials. *)
Granted(c, e) ==
  IF mine[c] \in {None, e}
    THEN /\ leases' = leases \cup {<<c, e>>}
         /\ pc' = [pc EXCEPT ![c] = "held"]
         /\ cur' = [cur EXCEPT ![c] = e]
         /\ mine' = [mine EXCEPT ![c] = None]
         /\ borrowed' = [borrowed EXCEPT ![c] = <<>>]
    ELSE /\ leases' = leases \cup {<<mine[c], e>>}
         /\ pc' = [pc EXCEPT ![c] = "route"]
         /\ cur' = [cur EXCEPT ![c] = None]
         /\ borrowed' = [borrowed EXCEPT ![c] = Append(@, e)]
         /\ UNCHANGED mine

(* Acquire returns an error: to the caller, or to the route, which unwinds. *)
Denied(c) ==
  /\ pc' = [pc EXCEPT ![c] = IF mine[c] = None THEN "idle" ELSE "unwind"]
  /\ cur' = [cur EXCEPT ![c] = None]
  /\ UNCHANGED <<leases, mine, borrowed>>

(* wait, when the dial it waits for has ended. *)
WaitReady(c) ==
  /\ pc[c] = "wait"
  /\ phase[cur[c]] = "ready"
  /\ Granted(c, cur[c])
  /\ UNCHANGED <<closed, conns, entryVars, todo, doomed>>

WaitFailed(c) ==
  /\ pc[c] = "wait"
  /\ phase[cur[c]] = "failed"
  /\ Denied(c)
  /\ UNCHANGED <<closed, conns, entryVars, todo, doomed>>

(* wait, when its own context ends first. *)
WaitCancelled(c) ==
  /\ pc[c] = "wait"
  /\ DropRef(c, cur[c], <<>>)
  /\ Denied(c)
  /\ UNCHANGED <<closed, key, phase, conn, hops, under, doomed>>

-----------------------------------------------------------------------------
(* dialThrough and the second half of Acquire. *)

Transport(c) == IF borrowed[c] = <<>> THEN None ELSE Last(borrowed[c])

Reachable(c) == Transport(c) # None => conn[Transport(c)] = "up"

(* dialOne succeeded for entry e, over the last hop borrowed. *)
Dialled(c, e, release) ==
  /\ Reachable(c)
  /\ conn'  = [conn EXCEPT ![e] = "up"]
  /\ phase' = [phase EXCEPT ![e] = "ready"]
  /\ under' = [under EXCEPT ![e] = Transport(c)]
  /\ hops'  = [hops EXCEPT ![e] = release]
  /\ Granted(c, e)
  /\ UNCHANGED <<closed, conns, key, refs, evicted, todo, doomed>>

(* A hop borrows nothing of its own. *)
HopDialled(c) == pc[c] = "dial" /\ Dialled(c, cur[c], <<>>)

AtTarget(c) ==
  /\ pc[c] = "route"
  /\ todo[c] = <<>>
  /\ NextHop(c) > Len(Route[key[mine[c]]])

TargetDialled(c) == AtTarget(c) /\ Dialled(c, mine[c], borrowed[c])

(* Slip: waiters are not woken when a dial fails. *)
FailEntry_NotReady(e) ==
  /\ Evict(e)
  /\ UNCHANGED phase

(* A failed dial is not cached, and whoever waits for it gets the error. *)
FailEntry(e) ==
  /\ phase' = [phase EXCEPT ![e] = "failed"]
  /\ Evict(e)

HopFailed(c) ==
  /\ pc[c] = "dial"
  /\ FailEntry(cur[c])
  /\ Denied(c)
  /\ UNCHANGED <<closed, key, conn, refs, hops, under, todo, doomed>>

(* The target refused, or a hop's credential or keyring could not be built. *)
RouteFailed(c) ==
  /\ pc[c] = "route"
  /\ pc' = [pc EXCEPT ![c] = "unwind"]
  /\ UNCHANGED <<closed, conns, entryVars, leases, mine, cur, borrowed, todo,
                 doomed>>

(* Slip: the hops taken so far stay leased. *)
Unwind_KeepsHops(c) ==
  /\ pc[c] = "unwind"
  /\ todo[c] = <<>>
  /\ borrowed' = [borrowed EXCEPT ![c] = <<>>]
  /\ pc' = [pc EXCEPT ![c] = "fail"]
  /\ UNCHANGED <<closed, conns, entryVars, leases, mine, cur, todo, doomed>>

(* unwind gives back everything taken so far. *)
Unwind(c) ==
  /\ pc[c] = "unwind"
  /\ todo[c] = <<>>
  /\ todo' = [todo EXCEPT ![c] = Drops(mine[c], borrowed[c])]
  /\ borrowed' = [borrowed EXCEPT ![c] = <<>>]
  /\ pc' = [pc EXCEPT ![c] = "fail"]
  /\ UNCHANGED <<closed, conns, entryVars, leases, mine, cur, doomed>>

TargetFailed(c) ==
  /\ pc[c] = "fail"
  /\ todo[c] = <<>>
  /\ FailEntry(mine[c])
  /\ pc' = [pc EXCEPT ![c] = "idle"]
  /\ mine' = [mine EXCEPT ![c] = None]
  /\ UNCHANGED <<closed, key, conn, refs, hops, under, leases, cur, borrowed,
                 todo, doomed>>

-----------------------------------------------------------------------------
(* Releasing. *)

(* Lease.Release by the caller that acquired it. *)
Release(c) ==
  /\ pc[c] = "held"
  /\ todo' = [todo EXCEPT ![c] = <<DropItem(c, cur[c])>>]
  /\ pc' = [pc EXCEPT ![c] = "idle"]
  /\ cur' = [cur EXCEPT ![c] = None]
  /\ UNCHANGED <<closed, conns, entryVars, leases, mine, borrowed, doomed>>

(* once.Do(pool.release): the second Release of a lease is ignored. *)
DropLease(p) ==
  LET item  == Head(todo[p])
      lease == <<item.holder, item.entry>> IN
  /\ todo[p] # <<>>
  /\ item.do = "drop"
  /\ leases' = leases \ {lease}
  /\ IF lease \in leases
       THEN DropRef(p, item.entry, Tail(todo[p]))
       ELSE /\ todo' = [todo EXCEPT ![p] = Tail(@)]
            /\ UNCHANGED <<conns, refs, evicted>>
  /\ UNCHANGED <<closed, key, phase, conn, hops, under, callerVars, doomed>>

(* client.Close. *)
CloseClient(p) ==
  /\ todo[p] # <<>>
  /\ Head(todo[p]).do = "close"
  /\ conn' = [conn EXCEPT ![Head(todo[p]).entry] =
                IF @ = "up" THEN "closed" ELSE @]
  /\ todo' = [todo EXCEPT ![p] = Tail(@)]
  /\ UNCHANGED <<closed, conns, key, phase, refs, evicted, hops, under,
                 leases, callerVars, doomed>>

(* The far side, or something between here and there, ended the connection. *)
Die(e) ==
  /\ conn[e] = "up"
  /\ conn' = [conn EXCEPT ![e] = "dead"]
  /\ UNCHANGED <<closed, conns, key, phase, refs, evicted, hops, under,
                 leases, callerVars, todo, doomed>>

(* watch: a connection that ended leaves the map. *)
Watch(e) ==
  /\ conn[e] \in {"dead", "closed"}
  /\ ~evicted[e]
  /\ Evict(e)
  /\ UNCHANGED <<closed, key, phase, conn, refs, hops, under, leases,
                 callerVars, todo, doomed>>

(* Pool.Close: take everything out of the map, with the clients there are  *)
(* by then, and tear them down one by one, the deepest route first and in  *)
(* any order among equals.                                                 *)
Depth(e) == Len(Route[key[e]])

InMap == {e \in Entries : \E k \in Keys : conns[k] = e}

Close ==
  /\ ~closed
  /\ closed' = TRUE
  /\ doomed' = {e \in InMap : conn[e] # "none"}
  /\ evicted' = [e \in Entries |-> evicted[e] \/ e \in InMap]
  /\ conns' = [k \in Keys |-> None]
  /\ UNCHANGED <<key, phase, conn, refs, hops, under, leases, callerVars, todo>>

CloseNext(e) ==
  /\ todo[Closer] = <<>>
  /\ e \in doomed
  /\ \A f \in doomed : Depth(f) <= Depth(e)
  /\ todo' = [todo EXCEPT ![Closer] = Teardown(e)]
  /\ doomed' = doomed \ {e}
  /\ UNCHANGED <<closed, conns, entryVars, leases, callerVars>>

-----------------------------------------------------------------------------
Acquire(c) ==
  \E k \in Keys :
    \/ AcquireRefused(c, k)
    \/ AcquireJoin(c, k)
    \/ \E e \in Entries : AcquireFresh(c, k, e)

DialEnds(c) == HopDialled(c) \/ HopFailed(c) \/ TargetDialled(c)
                             \/ RouteFailed(c)

WaitEnds(c) == WaitReady(c) \/ WaitFailed(c) \/ WaitCancelled(c)

Work(p) == DropLease(p) \/ CloseClient(p)

Next ==
  \/ \E c \in Callers : \/ Acquire(c)
                        \/ DialEnds(c)
                        \/ WaitEnds(c)
                        \/ Unwind(c)
                        \/ TargetFailed(c)
                        \/ Release(c)
  \/ \E p \in Procs : Work(p)
  \/ \E e \in Entries : Die(e) \/ Watch(e) \/ CloseNext(e)
  \/ Close

Spec == Init /\ [][Next]_vars

(***************************************************************************)
(* Fairness.  A dial ends, because sshx.Dial has a connect and a handshake *)
(* timeout; a dialThrough that has begun, a waiter whose entry is ready    *)
(* and work outside the lock all go on.  Nobody has to acquire or release. *)
(***************************************************************************)
Fairness ==
  /\ \A c \in Callers : /\ WF_vars(pc[c] = "route" /\ Acquire(c))
                        /\ WF_vars(DialEnds(c))
                        /\ WF_vars(WaitReady(c) \/ WaitFailed(c))
                        /\ WF_vars(Unwind(c))
                        /\ WF_vars(TargetFailed(c))
  /\ \A p \in Procs : WF_vars(Work(p))
  /\ WF_vars(\E e \in Entries : CloseNext(e))

FairSpec == Spec /\ Fairness

-----------------------------------------------------------------------------
(* Properties. *)

Phases == {"unborn", "dialling", "ready", "failed"}

Items == {CloseItem(e) : e \in Entries}
         \cup {DropItem(h, e) : h \in Callers \cup Entries, e \in Entries}

(* The types of the variables. *)
TypeOK ==
  /\ closed \in BOOLEAN
  /\ conns \in [Keys -> Entries \cup {None}]
  /\ key \in [Entries -> Keys \cup {None}]
  /\ phase \in [Entries -> Phases]
  /\ conn \in [Entries -> {"none", "up", "dead", "closed"}]
  /\ refs \in [Entries -> Nat]
  /\ evicted \in [Entries -> BOOLEAN]
  /\ hops \in [Entries -> Seq(Entries)]
  /\ under \in [Entries -> Entries \cup {None}]
  /\ leases \subseteq (Callers \cup Entries) \X Entries
  /\ pc \in [Callers -> {"idle", "route", "dial", "wait", "unwind", "fail",
                         "held"}]
  /\ mine \in [Callers -> Entries \cup {None}]
  /\ cur \in [Callers -> Entries \cup {None}]
  /\ borrowed \in [Callers -> Seq(Entries)]
  /\ todo \in [Procs -> Seq(Items)]
  /\ doomed \subseteq Entries

(* An entry is in the map exactly while it is not evicted, so the watcher   *)
(* or the last release of a dead connection never takes its successor out   *)
(* of the map (evict).                                                      *)
MapMatches ==
  \A e \in Entries : ~evicted[e] <=> e \in InMap /\ conns[key[e]] = e

(* Who has a reference: a lease, a caller waiting for the entry or dialling  *)
(* it as a hop, and the one dialling the route to it.                        *)
LeasesOn(e) == {l \in leases : l[2] = e}
Awaiting(e) == {c \in Callers : pc[c] \in {"wait", "dial"} /\ cur[c] = e}
Routing(e)  == {c \in Callers : mine[c] = e}

(* refs counts exactly the leases not yet released, the callers waiting for *)
(* the entry and the one dialling it: no order of releases, cancelled waits *)
(* and Close ever counts one twice or forgets one.  (After a failed dial    *)
(* the count is not used any more.)                                         *)
RefsAccounted ==
  \A e \in Entries : phase[e] \in {"dialling", "ready"} =>
    refs[e] = Cardinality(LeasesOn(e)) + Cardinality(Awaiting(e))
            + Cardinality(Routing(e))

(* "Closing a file browser never disconnects a terminal": while the pool    *)
(* is open, it closes no connection that somebody holds a lease on or waits *)
(* for.                                                                     *)
LeasedStayOpen ==
  ~closed =>
    \A e \in Entries : conn[e] = "closed" =>
      /\ LeasesOn(e) = {}
      /\ \A c \in Callers : pc[c] = "wait" => cur[c] # e

(* A connection that owns the leases on its route has every hop under it    *)
(* for as long as it is up: it is closed before its hops are released       *)
(* (release), and unwind releases no hop of a connection that was made.     *)
RouteHeld ==
  ~closed =>
    \A e \in Entries : conn[e] = "up" =>
      \A h \in Range(hops[e]) : conn[h] # "closed"

(* Pool.Close sends every disconnect through a live route: a connection it  *)
(* still has to close has all the hops it was dialled through.              *)
ShutdownDeepestFirst ==
  \A e \in Entries :
    conn[e] = "up" /\ (e \in doomed \/ CloseItem(e) \in Range(todo[Closer])) =>
      \A h \in Range(hops[e]) : conn[h] # "closed"

(* A key is dialled by one caller at a time, so a host that counts logins   *)
(* sees one (Acquire).                                                      *)
OneDialPerKey ==
  \A e, f \in Entries :
    phase[e] = "dialling" /\ phase[f] = "dialling" /\ key[e] = key[f] => e = f

(* Nothing is leaked: when no caller holds, awaits or dials anything and    *)
(* nobody is tearing down, no connection is up and no lease outstanding,    *)
(* however many dials failed half way along their route.                    *)
NothingLeaks ==
  (\A c \in Callers : pc[c] = "idle") /\ (\A p \in Procs : todo[p] = <<>>) =>
    leases = {} /\ \A e \in Entries : conn[e] # "up"

(* The pool's books agree with each other, with who uses what and with the    *)
(* map, whatever was shared, cancelled, lost or failed half way (Acquire,     *)
(* wait, release, evict, dialThrough).                                        *)
Accounted == MapMatches /\ RefsAccounted /\ OneDialPerKey /\ NothingLeaks

(* Nothing is closed under whoever uses it: not a leased connection, not a    *)
(* hop of a connection that owns its route, and not by Pool.Close either      *)
(* while a deeper one has still to be closed through it.                      *)
NothingPulledAway == LeasedStayOpen /\ RouteHeld /\ ShutdownDeepestFirst

(* Every Acquire returns: no chain of callers waiting for each other's      *)
(* hops ever closes into a circle, and a failed dial wakes its waiters.     *)
(* (Running out of entry objects is the model's bound, not the code's.)     *)
AcquireReturns ==
  \A c \in Callers : []<>(pc[c] \in {"idle", "held"} \/ \A e \in Entries : ~Fresh(e))

(***************************************************************************)
(* What comments and tests say, and the code does not keep (README,        *)
(* Divergences).                                                           *)
(***************************************************************************)

(* chain.go: a bastion outlives every connection riding on it.  A leased   *)
(* connection is never cut off by the pool closing the hop under it.       *)
BastionOutlives ==
  ~closed =>
    \A l \in leases :
      conn[l[2]] = "up" /\ under[l[2]] # None => conn[under[l[2]]] # "closed"

(* pool.go: Close shuts every connection down.                             *)
CloseShutsAll ==
  closed /\ doomed = {} /\ todo[Closer] = <<>> => \A e \in Entries : conn[e] # "up"

=============================================================================
