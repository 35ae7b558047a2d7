------------------------------ MODULE Terminals ------------------------------
(***************************************************************************)
(* Live terminals: internal/terminal/session.go (Manager, Terminal),       *)
(* internal/terminal/bridge.go (one Bridge per browser socket) and the     *)
(* WebSocket handler that drives them (internal/api/terminal_handlers.go). *)
(*                                                                         *)
(* A terminal is a server-side object.  Browsers attach and detach, the    *)
(* pump goroutine reads the shell, and any of several goroutines may end   *)
(* the terminal: the pump, the user, an administrator, the reaper of       *)
(* abandoned terminals, and shutdown.  Each critical section of t.mu and   *)
(* m.mu is one action; everything between two of them may interleave.      *)
(*                                                                         *)
(* A channel is only open or closed here.  Output bytes, recording and     *)
(* broadcast groups have modules of their own (TerminalStream, Recording,  *)
(* Broadcast).                                                             *)
(***************************************************************************)
EXTENDS Integers, FiniteSets

CONSTANTS Terms,     \* identifiers Manager.Open may allocate
          Browsers,  \* browser sockets, one Bridge each
          UserOf,    \* the signed-in user of each browser
          None,      \* a nil pointer or channel
          Grace      \* DetachedGrace, in ticks of the clock

ASSUME TermsAssumption == /\ None \notin Terms \cup Browsers
                          /\ Grace \in Nat

(***************************************************************************)
(* Why t.close was called.  The four deliberate causes carry the           *)
(* `deliberate` error type; the other two come from the pump.              *)
(***************************************************************************)
Deliberate == {"user", "admin", "abandoned", "shutdown"}
Failures   == {"eof", "failed"}
Causes     == Deliberate \cup Failures

Stages == {"unborn", "live", "closing", "shut", "released"}

VARIABLES
  registered, \* m.terminals: the terminals the manager knows of
  owner,      \* Terminal.UserID, None before Open
  stage,      \* progress of a terminal through close()
  cause,      \* closeErr, "none" while the terminal is open
  exit,       \* exitCode: "none" (nil) or "status"
  pump,       \* the pump goroutine: "idle", "reading", "closing", "done"
  closing,    \* calls of t.close(cause) that have not returned
  attached,   \* t.attached, as the browser that made the channel
  idle,       \* ticks since detachedAt, up to Grace + 1; -1 when it is zero
  pc,         \* where each browser's handler is
  at,         \* the terminal that handler holds a pointer to
  ch,         \* the output channel its Attach made
  report,     \* the last ControlClosed it was sent: "final" or "lost"
  draining,   \* m.draining
  reaper,     \* the reap goroutine: "running" or "exited"
  stopping    \* progress of Manager.Close: "no", "stop", "done"

termVars   == <<registered, owner, stage, cause, exit, pump, closing,
                attached, idle>>
bridgeVars == <<pc, at, ch, report>>
mgrVars    == <<draining, reaper, stopping>>
vars       == <<registered, owner, stage, cause, exit, pump, closing,
                attached, idle, pc, at, ch, report,
                draining, reaper, stopping>>

(* t.closed *)
Closed(t) == stage[t] \in {"closing", "shut", "released"}

(* OpenCount, as the drain watcher sees it through /healthz. *)
OpenCount == Cardinality({t \in registered : ~Closed(t)})

(* EndedDeliberately, as the bridge reports it in ControlClosed.Final. *)
Verdict(t) ==
  IF exit[t] = "status" \/ cause[t] \in Deliberate THEN "final" ELSE "lost"

Init ==
  /\ registered = {}
  /\ owner    = [t \in Terms |-> None]
  /\ stage    = [t \in Terms |-> "unborn"]
  /\ cause    = [t \in Terms |-> "none"]
  /\ exit     = [t \in Terms |-> "none"]
  /\ pump     = [t \in Terms |-> "idle"]
  /\ closing  = {}
  /\ attached = [t \in Terms |-> None]
  /\ idle     = [t \in Terms |-> -1]
  /\ pc       = [b \in Browsers |-> "away"]
  /\ at       = [b \in Browsers |-> None]
  /\ ch       = [b \in Browsers |-> "none"]
  /\ report   = [b \in Browsers |-> "none"]
  /\ draining = FALSE
  /\ reaper   = "running"
  /\ stopping = "no"

-----------------------------------------------------------------------------
(* The socket handler: a new terminal, or a pointer to a running one. *)

(* Slip: the drain flag is not looked at. *)
StartConnect_IgnoresDrain(b) ==
  /\ pc[b] = "away"
  /\ pc' = [pc EXCEPT ![b] = "dialling"]
  /\ report' = [report EXCEPT ![b] = "none"]
  /\ UNCHANGED <<termVars, at, ch, mgrVars>>

(* ?session=: refused while draining; otherwise Connect starts dialling. *)
StartConnect(b) ==
  /\ pc[b] = "away"
  /\ ~draining
  /\ pc' = [pc EXCEPT ![b] = "dialling"]
  /\ report' = [report EXCEPT ![b] = "none"]
  /\ UNCHANGED <<termVars, at, ch, mgrVars>>

(* Connect failed at any point before Manager.Open: nothing is registered. *)
ConnectFailed(b) ==
  /\ pc[b] = "dialling"
  /\ pc' = [pc EXCEPT ![b] = "away"]
  /\ UNCHANGED <<termVars, at, ch, report, mgrVars>>

(* Manager.Open: register the shell and start its pump. *)
Open(b, t) ==
  /\ pc[b] = "dialling"
  /\ stage[t] = "unborn"
  /\ registered' = registered \cup {t}
  /\ owner' = [owner EXCEPT ![t] = UserOf[b]]
  /\ stage' = [stage EXCEPT ![t] = "live"]
  /\ pump'  = [pump EXCEPT ![t] = "reading"]
  /\ pc' = [pc EXCEPT ![b] = "holding"]
  /\ at' = [at EXCEPT ![b] = t]
  /\ UNCHANGED <<cause, exit, closing, attached, idle, ch, report,
                 mgrVars>>

(* ?terminal=: Manager.Get, which also finds terminals that have ended. *)
Reattach(b, t) ==
  /\ pc[b] = "away"
  /\ t \in registered
  /\ owner[t] = UserOf[b]
  /\ pc' = [pc EXCEPT ![b] = "holding"]
  /\ at' = [at EXCEPT ![b] = t]
  /\ report' = [report EXCEPT ![b] = "none"]
  /\ UNCHANGED <<termVars, ch, mgrVars>>

-----------------------------------------------------------------------------
(* Bridge.Run. *)

(* Slip: the displaced browser's channel is left open. *)
Attach_KeepsOldChannel(b) ==
  LET t == at[b] IN
  /\ pc[b] = "holding"
  /\ ~Closed(t)
  /\ ch' = [ch EXCEPT ![b] = "open"]
  /\ attached' = [attached EXCEPT ![t] = b]
  /\ idle' = [idle EXCEPT ![t] = -1]
  /\ pc' = [pc EXCEPT ![b] = "attached"]
  /\ UNCHANGED <<registered, owner, stage, cause, exit, pump, closing, at,
                 report, mgrVars>>

(* Attach on a running terminal displaces whoever was attached. *)
Attach(b) ==
  LET t == at[b] IN
  /\ pc[b] = "holding"
  /\ ~Closed(t)
  /\ ch' = [c \in Browsers |-> IF c = b THEN "open"
                               ELSE IF c = attached[t] THEN "closed"
                               ELSE ch[c]]
  /\ attached' = [attached EXCEPT ![t] = b]
  /\ idle' = [idle EXCEPT ![t] = -1]
  /\ pc' = [pc EXCEPT ![b] = "attached"]
  /\ UNCHANGED <<registered, owner, stage, cause, exit, pump, closing, at, report, mgrVars>>

(* Attach on an ended terminal: Run reports how it ended and returns before *)
(* the deferred Detach is set up.                                           *)
AttachEnded(b) ==
  /\ pc[b] = "holding"
  /\ Closed(at[b])
  /\ report' = [report EXCEPT ![b] = Verdict(at[b])]
  /\ pc' = [pc EXCEPT ![b] = "away"]
  /\ UNCHANGED <<termVars, at, ch, mgrVars>>

(* Run leaves its select because one of the two loops returned, or the      *)
(* terminal's pump has finished: an ended terminal is reported first.       *)
LeaveRun(b) ==
  /\ report' = [report EXCEPT ![b] = IF Closed(at[b]) THEN Verdict(at[b])
                                                      ELSE @]
  /\ pc' = [pc EXCEPT ![b] = "leaving"]
  /\ UNCHANGED <<termVars, at, ch, mgrVars>>

(* Run returns without a report: the replay could not be written, or the    *)
(* request's context was cancelled.                                         *)
LeaveSilently(b) ==
  /\ pc' = [pc EXCEPT ![b] = "leaving"]
  /\ UNCHANGED <<termVars, at, ch, report, mgrVars>>

(* The browser went away: a read, write or ping on its socket failed, or    *)
(* its request was cancelled.                                               *)
BrowserGone(b) == pc[b] = "attached" /\ (LeaveRun(b) \/ LeaveSilently(b))

(* The output channel was closed, or the terminal's pump has finished. *)
OutputEnded(b) ==
  /\ pc[b] = "attached"
  /\ ch[b] = "closed" \/ pump[at[b]] = "done"
  /\ LeaveRun(b)

(* The deferred Detach, which closes whatever channel is attached now. *)
Detach(b) ==
  LET t == at[b] IN
  /\ pc[b] = "leaving"
  /\ ch' = [c \in Browsers |-> IF c = b THEN "none"
                               ELSE IF c = attached[t] THEN "closed"
                               ELSE ch[c]]
  /\ attached' = [attached EXCEPT ![t] = None]
  /\ idle' = [idle EXCEPT ![t] = 0]
  /\ pc' = [pc EXCEPT ![b] = "away"]
  /\ UNCHANGED <<registered, owner, stage, cause, exit, pump, closing, at, report, mgrVars>>

(* A keystroke for a terminal that has ended makes readFromBrowser return. *)
KeystrokeEnded(b) ==
  /\ pc[b] = "attached"
  /\ Closed(at[b])
  /\ LeaveRun(b)

-----------------------------------------------------------------------------
(* The pump and the steps of Terminal.close. *)

(* shell.Read failed: the pump records the exit status and calls close. *)
PumpEnds(t) ==
  /\ pump[t] = "reading"
  /\ \E how \in Failures, s \in {"none", "status"} :
       /\ exit' = [exit EXCEPT ![t] = s]
       /\ closing' = closing \cup {<<t, how>>}
  /\ pump' = [pump EXCEPT ![t] = "closing"]
  /\ UNCHANGED <<registered, owner, stage, cause, attached, idle, bridgeVars, mgrVars>>

(* The pump's close call has returned and its deferred close(t.done) ran. *)
PumpDone(t) ==
  /\ pump[t] = "closing"
  /\ \A how \in Failures : <<t, how>> \notin closing
  /\ pump' = [pump EXCEPT ![t] = "done"]
  /\ UNCHANGED <<registered, owner, stage, cause, exit, closing, attached,
                 idle, bridgeVars, mgrVars>>

(* Slip: close does not return early when t.closed is set already. *)
CloseBegin_NotOnce(t, c) ==
  /\ <<t, c>> \in closing
  /\ stage' = [stage EXCEPT ![t] = "closing"]
  /\ cause' = [cause EXCEPT ![t] = c]
  /\ ch' = [b \in Browsers |-> IF b = attached[t] THEN "closed" ELSE ch[b]]
  /\ attached' = [attached EXCEPT ![t] = None]
  /\ UNCHANGED <<registered, owner, exit, pump, closing, idle, pc, at, report,
                 mgrVars>>

(* The critical section of close: the first caller wins. *)
CloseBegin(t, c) ==
  /\ <<t, c>> \in closing
  /\ ~Closed(t)
  /\ stage' = [stage EXCEPT ![t] = "closing"]
  /\ cause' = [cause EXCEPT ![t] = c]
  /\ ch' = [b \in Browsers |-> IF b = attached[t] THEN "closed" ELSE ch[b]]
  /\ attached' = [attached EXCEPT ![t] = None]
  /\ UNCHANGED <<registered, owner, exit, pump, closing, idle,
                 pc, at, report, mgrVars>>

(* A later caller finds it closed and returns. *)
CloseLost(t, c) ==
  /\ <<t, c>> \in closing
  /\ Closed(t)
  /\ c # cause[t]
  /\ closing' = closing \ {<<t, c>>}
  /\ UNCHANGED <<registered, owner, stage, cause, exit, pump, attached, idle, bridgeVars, mgrVars>>

(* Slip: close waits for the pump before it shuts the shell the pump reads. *)
ShellClose_WaitsForPump(t) ==
  /\ stage[t] = "closing" /\ pump[t] = "done"
  /\ stage' = [stage EXCEPT ![t] = "shut"]
  /\ UNCHANGED <<registered, owner, cause, exit, pump, closing, attached,
                 idle, bridgeVars, mgrVars>>

(* shell.Close, outside the lock. *)
ShellClose(t) ==
  /\ stage[t] = "closing"
  /\ stage' = [stage EXCEPT ![t] = "shut"]
  /\ UNCHANGED <<registered, owner, cause, exit, pump, closing, attached,
                 idle, bridgeVars, mgrVars>>

(* t.release: give back the pool lease or the serial claim. *)
Release(t) ==
  /\ stage[t] = "shut"
  /\ stage' = [stage EXCEPT ![t] = "released"]
  /\ closing' = closing \ {<<t, cause[t]>>}
  /\ UNCHANGED <<registered, owner, cause, exit, pump, attached, idle, bridgeVars, mgrVars>>

-----------------------------------------------------------------------------
(* The manager's ways of ending a terminal: each takes it out of the map   *)
(* under m.mu and then calls close.                                        *)

(* Slip: a terminal is dropped from the map and never closed. *)
Remove_MapOnly(T, c) ==
  /\ registered' = registered \ T
  /\ UNCHANGED <<closing, owner, stage, cause, exit, pump, attached, idle,
                 bridgeVars>>

Remove(T, c) ==
  /\ registered' = registered \ T
  /\ closing' = closing \cup (T \X {c})
  /\ UNCHANGED <<owner, stage, cause, exit, pump, attached, idle, bridgeVars>>

(* CloseTerminal looks the terminal up before it takes m.mu again to delete *)
(* it.  Another closer in between has deleted it already, and then close    *)
(* finds it closed or closes it: one step loses nothing.                    *)
CloseTerminal(t) == t \in registered /\ Remove({t}, "user")  /\ UNCHANGED mgrVars
CloseAny(t)      == t \in registered /\ Remove({t}, "admin") /\ UNCHANGED mgrVars

(* reapOnce.  One goroutine, so the previous round's closes have returned. *)
Expired == {t \in registered : attached[t] = None /\ idle[t] > Grace}

Reap ==
  /\ reaper = "running"
  /\ Expired # {}
  /\ \A t \in Terms : <<t, "abandoned">> \notin closing
  /\ Remove(Expired, "abandoned")
  /\ UNCHANGED mgrVars

(* Manager.Close: tell the reaper to stop, then end every terminal. *)
StopReaper ==
  /\ stopping = "no"
  /\ stopping' = "stop"
  /\ UNCHANGED <<termVars, bridgeVars, draining, reaper>>

ReaperExits ==
  /\ stopping # "no"
  /\ reaper = "running"
  /\ reaper' = "exited"
  /\ UNCHANGED <<termVars, bridgeVars, draining, stopping>>

CloseAll ==
  /\ stopping = "stop"
  /\ Remove(registered, "shutdown")
  /\ stopping' = "done"
  /\ UNCHANGED <<draining, reaper>>

(* SIGUSR1 toggles maintenance mode. *)
ToggleDraining ==
  /\ draining' = ~draining
  /\ UNCHANGED <<termVars, bridgeVars, reaper, stopping>>

(* The clock.  Ages past Grace are all alike to the reaper. *)
Tick ==
  /\ \E t \in Terms : idle[t] \in 0..Grace
  /\ idle' = [t \in Terms |-> IF idle[t] \in 0..Grace THEN idle[t] + 1
                                                      ELSE idle[t]]
  /\ UNCHANGED <<registered, owner, stage, cause, exit, pump, closing,
                 attached, bridgeVars, mgrVars>>

-----------------------------------------------------------------------------
BridgeStep(b) ==
  \/ Attach(b)
  \/ AttachEnded(b)
  \/ OutputEnded(b)
  \/ Detach(b)

CloseStep(t) ==
  \/ \E c \in Causes : CloseBegin(t, c) \/ CloseLost(t, c)
  \/ ShellClose(t)
  \/ Release(t)

Next ==
  \/ \E b \in Browsers :
       \/ StartConnect(b)
       \/ ConnectFailed(b)
       \/ \E t \in Terms : Open(b, t)
       \/ \E t \in Terms : Reattach(b, t)
       \/ BridgeStep(b)
       \/ BrowserGone(b)
       \/ KeystrokeEnded(b)
  \/ \E t \in Terms :
       \/ PumpEnds(t)
       \/ PumpDone(t)
       \/ CloseStep(t)
       \/ CloseTerminal(t)
       \/ CloseAny(t)
  \/ Reap
  \/ StopReaper
  \/ ReaperExits
  \/ CloseAll
  \/ ToggleDraining
  \/ Tick

Spec == Init /\ [][Next]_vars

(***************************************************************************)
(* Fairness.  Goroutines that are runnable run: the bridge, the closer,    *)
(* the pump once its shell is shut, the reaper and the clock.  What people *)
(* and remote hosts do is never assumed.                                   *)
(***************************************************************************)
PumpAfterShut(t) == stage[t] \in {"shut", "released"} /\ PumpEnds(t)

Fairness ==
  /\ \A b \in Browsers : WF_vars(BridgeStep(b))
  /\ \A t \in Terms : /\ WF_vars(CloseStep(t))
                      /\ WF_vars(PumpAfterShut(t))
                      /\ WF_vars(PumpDone(t))
  /\ WF_vars(Reap)
  /\ WF_vars(Tick)

FairSpec == Spec /\ Fairness

-----------------------------------------------------------------------------
(* Properties. *)

Types ==
  /\ registered \in SUBSET Terms
  /\ owner \in [Terms -> {UserOf[b] : b \in Browsers} \cup {None}]
  /\ stage \in [Terms -> Stages]
  /\ cause \in [Terms -> Causes \cup {"none"}]
  /\ exit \in [Terms -> {"none", "status"}]
  /\ pump \in [Terms -> {"idle", "reading", "closing", "done"}]
  /\ closing \in SUBSET (Terms \X Causes)
  /\ attached \in [Terms -> Browsers \cup {None}]
  /\ idle \in [Terms -> -1..(Grace + 1)]
  /\ pc \in [Browsers -> {"away", "dialling", "holding", "attached", "leaving"}]
  /\ at \in [Browsers -> Terms \cup {None}]
  /\ ch \in [Browsers -> {"none", "open", "closed"}]
  /\ report \in [Browsers -> {"none", "final", "lost"}]
  /\ draining \in BOOLEAN
  /\ reaper \in {"running", "exited"}
  /\ stopping \in {"no", "stop", "done"}

Shape ==
  /\ \A t \in Terms :
       /\ (cause[t] = "none") <=> (stage[t] \in {"unborn", "live"})
       /\ (pump[t] = "idle") <=> (stage[t] = "unborn")
       /\ stage[t] = "unborn" => /\ t \notin registered
                                 /\ \A c \in Causes : <<t, c>> \notin closing
  /\ \A b \in Browsers :
       pc[b] \in {"holding", "attached", "leaving"} => at[b] \in Terms

(* The types of the variables, and what a terminal's stage fixes: it has a  *)
(* pump once opened, a closeErr once closed, and is in the map or in a      *)
(* close call only after Open (session.go Open, pump, close).               *)
TypeOK == Types /\ Shape

(* The channel the pump sends on is open, so the send under t.mu can never  *)
(* hit a closed channel and no Attach, Detach or close closes one twice;    *)
(* and an open channel is always the attached one, so a bridge that lost    *)
(* its terminal is certain to be woken.                                     *)
ChannelsLive ==
  /\ \A t \in Terms : attached[t] # None =>
       ch[attached[t]] = "open" /\ at[attached[t]] = t
  /\ \A b \in Browsers : ch[b] = "open" =>
       /\ pc[b] \in {"attached", "leaving"}
       /\ attached[at[b]] = b

(* A running terminal that has left m.terminals (reapOnce, CloseTerminal,   *)
(* CloseAny, Manager.Close) has a close call on its way: no shell is ever   *)
(* left running where nothing can find it.                                  *)
NoOrphans ==
  \A t \in Terms :
    stage[t] = "live" /\ t \notin registered => \E c \in Causes : <<t, c>> \in closing

(* A running terminal without a browser has its detachedAt set, so the      *)
(* reaper can see it, or a handler that holds it is about to attach.        *)
Reapable ==
  \A t \in Terms :
    stage[t] = "live" /\ attached[t] = None =>
      idle[t] >= 0 \/ \E b \in Browsers : pc[b] = "holding" /\ at[b] = t

(* A running terminal can always be found by something that would end it: by  *)
(* a close call that is under way, by the reaper, or by the map it is in      *)
(* (Manager.terminals, Terminal.detachedAt).                                  *)
InReach == NoOrphans /\ Reapable

(* What reportClosed tells the browser stays true: "lost", the report that  *)
(* makes a browser redial, is never about a session ended on purpose, and   *)
(* "final" is never about one that failed without an exit status.           *)
ReportHonest ==
  \A b \in Browsers :
    /\ report[b] = "lost" => cause[at[b]] \in Failures
    /\ report[b] = "final" => cause[at[b]] \in Deliberate \/ exit[at[b]] = "status"

Drained ==
  /\ draining
  /\ OpenCount = 0
  /\ \A b \in Browsers : pc[b] # "dialling"

(* The drain the upgrade script waits for: once /healthz shows no open      *)
(* terminal and no dial is still in flight, the count stays at zero for as  *)
(* long as the server drains.                                               *)
DrainSettles == [][Drained /\ draining' => Drained']_vars

(* Every close call runs to its end: the shell is closed, what it borrowed  *)
(* is released, and the pump finishes; none is on its way for ever.         *)
ClosesFinish ==
  \A t \in Terms :
    []<>(Closed(t) => stage[t] = "released" /\ pump[t] = "done")

(* A terminal whose browsers have all gone does not live on for ever: it is *)
(* closed unless somebody comes back or the server stops (the reaper).      *)
AbandonedAreReaped ==
  \A t \in Terms :
    []<>(stage[t] = "live" /\ stopping = "no" => attached[t] # None)

(* A bridge whose terminal has ended always gets back to the handler. *)
BridgesReturn ==
  \A b \in Browsers : []<>(pc[b] \in {"attached", "leaving"} => ~Closed(at[b]))

(* Goroutines that keep running bring every terminal to its end: closes       *)
(* finish, the abandoned are reaped, and the bridges of what has ended return *)
(* (pump, close, reap, Bridge.Run).                                           *)
Progress == ClosesFinish /\ AbandonedAreReaped /\ BridgesReturn

(***************************************************************************)
(* What comments and docs say, and the code does not keep (README,         *)
(* Divergences).                                                           *)
(***************************************************************************)

(* session.go Attach: a second browser displaces the first and has the     *)
(* terminal from then on.  A browser loses the terminal only by leaving,   *)
(* by being displaced, or because the terminal ended.                      *)
NewcomerKeepsTerminal ==
  [][ \A t \in Terms, b \in Browsers :
        attached[t] = b /\ attached'[t] = None =>
          Closed(t)' \/ pc[b] = "leaving" ]_vars

(* session.go reap: only a terminal nobody has come back to is closed as   *)
(* abandoned, so none is while a browser is attached to it.                *)
ComebackIsSpared ==
  [][ \A t \in Terms :
        ~Closed(t) /\ Closed(t)' /\ cause'[t] = "abandoned" =>
          attached[t] = None ]_vars

(* docs/ARCHITECTURE.md: a terminal nobody is attached to is reaped, so a  *)
(* terminal that has ended does not stay in m.terminals for ever.          *)
EndedAreForgotten ==
  \A t \in Terms :
    (Closed(t) /\ t \in registered) ~> (t \notin registered \/ stopping # "no")

=============================================================================
