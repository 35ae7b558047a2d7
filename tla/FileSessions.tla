---------------------------- MODULE FileSessions ----------------------------
(***************************************************************************)
(* Open SFTP sessions: internal/files/manager.go and the handlers of       *)
(* internal/api/file_handlers.go that open, find and close them.           *)
(*                                                                         *)
(* Every critical section of m.mu is one action.  The sessions are one     *)
(* user's, so the manager's key is the saved connection.  Dialling is      *)
(* Dialer.Acquire (module Pool): here it answers with a lease or an error. *)
(* What the sessions promise those who work over them is FileAccess.       *)
(***************************************************************************)
EXTENDS Integers, FiniteSets

CONSTANTS Conns,      \* saved connections, each of a host of its own
          Sessions,   \* Session objects; each is made once
          Requests,   \* HTTP requests in flight
          Reaper, Shutdown,   \* the goroutines that close sessions besides
          None

ASSUME FileSessionsAssumption ==
  /\ None \notin Sessions \cup Conns
  /\ {Reaper, Shutdown} \cap Requests = {} /\ Reaper # Shutdown
  /\ Sessions \cap {"idle", "opening", "dialling"} = {}   \* what pc tells apart

VARIABLES
  closed,    \* m.closed
  sessions,  \* m.sessions
  stop,      \* m.stop has been closed
  reaper,    \* whether the reaper's loop runs (m.done is open)
  conn,      \* the connection a Session is of; None before it is made
  shut,      \* Session.closed
  lease,     \* whether Session.conn is still held
  idle,      \* whether lastUsed is more than IdleTimeout ago
  closing,   \* the sessions each goroutine has still to call close on
  releasing, \* those it has marked closed and not yet given back
  pc, want   \* where a request is, and the connection it is about

managerVars == <<closed, sessions, stop, reaper>>
objectVars  == <<conn, shut, lease>>
closeVars   == <<closing, releasing>>
requestVars == <<pc, want>>
vars == <<closed, sessions, stop, reaper, conn, shut, lease, idle,
                 closing, releasing, pc, want>>

Closers == Requests \cup {Reaper, Shutdown}

Init ==
  /\ closed = FALSE /\ stop = FALSE /\ reaper = TRUE
  /\ sessions = [c \in Conns |-> None]
  /\ conn  = [s \in Sessions |-> None]
  /\ shut  = [s \in Sessions |-> FALSE]
  /\ lease = [s \in Sessions |-> FALSE]
  /\ idle  = [s \in Sessions |-> FALSE]
  /\ closing   = [k \in Closers |-> {}]
  /\ releasing = [k \in Closers |-> {}]
  /\ pc   = [r \in Requests |-> "idle"]
  /\ want = [r \in Requests |-> None]

Registered == {sessions[c] : c \in Conns} \ {None}
Busy(k) == closing[k] # {} \/ releasing[k] # {}

(* Get and Client: lastUsed becomes now. *)
Touch(S) == idle' = [s \in Sessions |-> IF s \in S THEN FALSE ELSE idle[s]]

(* Get: the connection's session, if there is one that is not closed. *)
Found(c) == sessions[c] # None /\ ~shut[sessions[c]]

(***************************************************************************)
(* Opening.                                                                *)
(***************************************************************************)

(* handleOpenFileSession: answered from the session that is there. *)
OpenExisting(r, c) ==
  /\ pc[r] = "idle" /\ ~Busy(r)
  /\ Found(c)
  /\ Touch({sessions[c]})
  /\ UNCHANGED <<managerVars, objectVars, closeVars, requestVars>>

(* handleOpenFileSession: Get found nothing; the vault is asked for its key *)
(* and Open called.                                                         *)
OpenMissing(r, c) ==
  /\ pc[r] = "idle" /\ ~Busy(r)
  /\ ~Found(c)
  /\ pc' = [pc EXCEPT ![r] = "opening"]
  /\ want' = [want EXCEPT ![r] = c]
  /\ UNCHANGED <<managerVars, objectVars, closeVars, idle>>

Answer(r) == pc' = [pc EXCEPT ![r] = "idle"] /\ want' = [want EXCEPT ![r] = None]

(* Open, up to the dial: refused once the manager is closed, answered by a  *)
(* live session, and otherwise on to the dial with a dead one forgotten.    *)
OpenCheck(r) ==
  /\ pc[r] = "opening"
  /\ \/ /\ closed
        /\ Answer(r)
        /\ UNCHANGED <<sessions, idle>>
     \/ /\ ~closed /\ Found(want[r])
        /\ Touch({sessions[want[r]]})
        /\ Answer(r)
        /\ UNCHANGED sessions
     \/ /\ ~closed /\ ~Found(want[r])
        /\ sessions' = [sessions EXCEPT ![want[r]] = None]
        /\ pc' = [pc EXCEPT ![r] = "dialling"]
        /\ UNCHANGED <<want, idle>>
  /\ UNCHANGED <<closed, stop, reaper, objectVars, closeVars>>

(* The dial fails, or the host has no SFTP subsystem and the connection is  *)
(* released on the spot.                                                    *)
DialFails(r) ==
  /\ pc[r] = "dialling"
  /\ Answer(r)
  /\ UNCHANGED <<managerVars, objectVars, closeVars, idle>>

(* The dial and the subsystem succeed: a Session, not yet in the map. *)
Dialled(r, s) ==
  /\ pc[r] = "dialling" /\ conn[s] = None
  /\ conn' = [conn EXCEPT ![s] = want[r]]
  /\ lease' = [lease EXCEPT ![s] = TRUE]
  /\ Touch({s})
  /\ pc' = [pc EXCEPT ![r] = s]
  /\ UNCHANGED <<managerVars, shut, closeVars, want>>

(* Slip: the dialled session goes into the map without looking who is there. *)
Register_Replaces(r, s) ==
  /\ pc[r] = s
  /\ sessions' = [sessions EXCEPT ![want[r]] = s]
  /\ Answer(r)
  /\ UNCHANGED <<closed, stop, reaper, objectVars, closeVars, idle>>

(* Open, after the dial: whoever registered first keeps the place, and the  *)
(* session of the other is closed.  m.closed is not looked at again.        *)
Register(r, s) ==
  /\ pc[r] = s
  /\ IF sessions[want[r]] # None
     THEN /\ closing' = [closing EXCEPT ![r] = @ \cup {s}]
          /\ UNCHANGED sessions
     ELSE /\ sessions' = [sessions EXCEPT ![want[r]] = s]
          /\ UNCHANGED closing
  /\ Answer(r)
  /\ UNCHANGED <<closed, stop, reaper, objectVars, releasing, idle>>

(***************************************************************************)
(* Closing.  What is chosen leaves the map first, under the lock.           *)
(***************************************************************************)

Close_Stays(r, c) ==
  /\ pc[r] = "idle" /\ ~Busy(r)
  /\ sessions[c] # None
  /\ closing' = [closing EXCEPT ![r] = {sessions[c]}]
  /\ UNCHANGED <<managerVars, objectVars, releasing, idle, requestVars>>

(* handleCloseFileSession and Manager.Close. *)
Close(r, c) ==
  /\ pc[r] = "idle" /\ ~Busy(r)
  /\ sessions[c] # None
  /\ sessions' = [sessions EXCEPT ![c] = None]
  /\ closing' = [closing EXCEPT ![r] = {sessions[c]}]
  /\ UNCHANGED <<closed, stop, reaper, objectVars, releasing, idle, requestVars>>

Stale == {s \in Registered : idle[s]}

(* reapOnce, one tick of the reaper. *)
ReapOnce ==
  /\ reaper /\ ~Busy(Reaper)
  /\ Stale # {}
  /\ sessions' = [c \in Conns |-> IF sessions[c] \in Stale THEN None ELSE sessions[c]]
  /\ closing' = [closing EXCEPT ![Reaper] = Stale]
  /\ UNCHANGED <<closed, stop, reaper, objectVars, releasing, idle, requestVars>>

(* Slip: the lease is given back by whoever finds the session closed. *)
MarkClosed_Only(k, s) ==
  /\ s \in closing[k]
  /\ k = Shutdown => ~reaper
  /\ closing' = [closing EXCEPT ![k] = @ \ {s}]
  /\ shut' = [shut EXCEPT ![s] = TRUE]
  /\ releasing' = [releasing EXCEPT ![k] = IF shut[s] THEN @ \cup {s} ELSE @]
  /\ UNCHANGED <<managerVars, conn, lease, idle, requestVars>>

(* Session.close, to the end of its critical section: the second call       *)
(* returns.                                                                 *)
MarkClosed(k, s) ==
  /\ s \in closing[k]
  /\ k = Shutdown => ~reaper
  /\ closing' = [closing EXCEPT ![k] = @ \ {s}]
  /\ shut' = [shut EXCEPT ![s] = TRUE]
  /\ releasing' = [releasing EXCEPT ![k] = IF shut[s] THEN @ ELSE @ \cup {s}]
  /\ UNCHANGED <<managerVars, conn, lease, idle, requestVars>>

(* The rest of Session.close: the SFTP channel closes, the connection goes  *)
(* back to the pool.                                                        *)
Release(k, s) ==
  /\ s \in releasing[k]
  /\ releasing' = [releasing EXCEPT ![k] = @ \ {s}]
  /\ lease' = [lease EXCEPT ![s] = FALSE]
  /\ UNCHANGED <<managerVars, conn, shut, idle, closing, requestVars>>

(* Shutdown: every session leaves the map, then the reaper is told to stop, *)
(* and the sessions are closed once it has.                                 *)
BeginShutdown ==
  /\ ~closed
  /\ closed' = TRUE /\ stop' = TRUE
  /\ closing' = [closing EXCEPT ![Shutdown] = Registered]
  /\ sessions' = [c \in Conns |-> None]
  /\ UNCHANGED <<reaper, objectVars, releasing, idle, requestVars>>

(* reap returns, between two ticks, once stop is closed. *)
ReaperExits ==
  /\ stop /\ reaper /\ ~Busy(Reaper)
  /\ reaper' = FALSE
  /\ UNCHANGED <<closed, sessions, stop, objectVars, closeVars, idle, requestVars>>

(* IdleTimeout passes since a session was last touched. *)
Tick(s) ==
  /\ s \in Registered /\ ~idle[s]
  /\ idle' = [idle EXCEPT ![s] = TRUE]
  /\ UNCHANGED <<managerVars, objectVars, closeVars, requestVars>>

Next ==
  \/ \E r \in Requests, c \in Conns :
       OpenExisting(r, c) \/ OpenMissing(r, c) \/ Close(r, c)
  \/ \E r \in Requests : OpenCheck(r) \/ DialFails(r)
  \/ \E r \in Requests, s \in Sessions : Dialled(r, s) \/ Register(r, s)
  \/ \E k \in Closers, s \in Sessions : MarkClosed(k, s) \/ Release(k, s)
  \/ ReapOnce \/ BeginShutdown \/ ReaperExits
  \/ \E s \in Sessions : Tick(s)

Spec == Init /\ [][Next]_vars

(* The scheduler runs every goroutine that closes: those past the lock, and *)
(* the reaper, whose ticker fires.  Users, dials and clocks need not act.   *)
Fairness ==
  /\ \A k \in Closers, s \in Sessions :
       WF_vars(MarkClosed(k, s)) /\ WF_vars(Release(k, s))
  /\ WF_vars(ReapOnce) /\ WF_vars(ReaperExits)
FairSpec == Spec /\ Fairness

(***************************************************************************)
(* Properties.                                                             *)
(***************************************************************************)

TypeOK ==
  /\ closed \in BOOLEAN /\ stop \in BOOLEAN /\ reaper \in BOOLEAN
  /\ sessions \in [Conns -> Sessions \cup {None}]
  /\ conn \in [Sessions -> Conns \cup {None}]
  /\ shut \in [Sessions -> BOOLEAN]
  /\ lease \in [Sessions -> BOOLEAN]
  /\ idle \in [Sessions -> BOOLEAN]
  /\ closing \in [Closers -> SUBSET Sessions]
  /\ releasing \in [Closers -> SUBSET Sessions]
  /\ pc \in [Requests -> {"idle", "opening", "dialling"} \cup Sessions]
  /\ want \in [Requests -> Conns \cup {None}]

(* A held connection is in the map or in the hands of exactly one goroutine *)
(* that will register it or give it back: no path of Open, Close, the       *)
(* reaper or Shutdown forgets one or releases one twice.                    *)
NoLeaseForgotten ==
  \A s \in Sessions :
    LET owners == {k \in Closers : s \in closing[k] \cup releasing[k]}
                  \cup {r \in Requests : pc[r] = s}
    IN  IF lease[s] THEN IF s \in Registered THEN owners = {}
                                             ELSE Cardinality(owners) = 1
                    ELSE owners = {}

(* A session is dead to the manager's users when it is marked closed, open  *)
(* while it is in the map, and not there yet while Open still holds it.     *)
Life(s) ==
  IF shut[s] THEN "dead"
  ELSE IF s \in Registered THEN "open"
  ELSE IF conn[s] = None \/ \E r \in Requests : pc[r] = s THEN "none"
  ELSE "leaving"

Access == INSTANCE FileAccess WITH
  life  <- [s \in Sessions |-> Life(s)],
  owner <- [s \in Sessions |-> IF Life(s) = "none" THEN None ELSE conn[s]]

(* The manager implements FileAccess: whatever Open, Close, the reaper and  *)
(* Shutdown do at the same time, Get never finds two sessions of one        *)
(* connection one after the other without the first having left, never      *)
(* finds one that is closed or being closed, and nothing is closed while it *)
(* can be found (manager.go deletes from the map before it closes).         *)
ImplementsAccess == Access!AccessSpec

(* Every session that leaves the map gives its connection back, by whoever  *)
(* took it out: Close, a round of the reaper that Shutdown interrupts, or   *)
(* Shutdown, which waits for the reaper first.                              *)
LeaversReleased ==
  \A s \in Sessions : []<>(Life(s) \in {"leaving", "dead"} => ~lease[s])
=============================================================================
