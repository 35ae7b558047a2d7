--------------------------- MODULE TerminalsProofs ---------------------------
(***************************************************************************)
(* Proofs about Terminals, for any sets of terminals and browsers and any  *)
(* grace period.  One lemma per part of the inductive invariant says that  *)
(* a step preserves it, with one case per action; the theorems at the end  *)
(* combine them.                                                           *)
(***************************************************************************)
EXTENDS Terminals, FiniteSetTheorems, TLAPS

(***************************************************************************)
(* ReportHonest is not inductive alone: a report must survive the browser  *)
(* moving on (at changes only while report is "none") and the pump         *)
(* finishing (exit is written once, when the pump stops reading).          *)
(***************************************************************************)
ReportsSettled ==
  \A b \in Browsers : /\ pc[b] = "dialling" => report[b] = "none"
                      /\ report[b] # "none" => at[b] \in Terms

ExitOnce ==
  \A t \in Terms : pump[t] \in {"idle", "reading"} => exit[t] = "none"

-----------------------------------------------------------------------------
(* Every action keeps the types. *)
LEMMA TypesStep ==
  ASSUME TypeOK, [Next]_vars
  PROVE  Types'
PROOF
<1> USE TermsAssumption DEF TypeOK, Types, Shape, Stages
<1>1. ASSUME NEW b \in Browsers, StartConnect(b) PROVE Types'
  BY <1>1 DEF StartConnect, termVars, bridgeVars, mgrVars
<1>2. ASSUME NEW b \in Browsers, ConnectFailed(b) PROVE Types'
  BY <1>2 DEF ConnectFailed, termVars, bridgeVars, mgrVars
<1>3. ASSUME NEW b \in Browsers, NEW t \in Terms, Open(b, t) PROVE Types'
  BY <1>3 DEF Open, termVars, bridgeVars, mgrVars
<1>4. ASSUME NEW b \in Browsers, NEW t \in Terms, Reattach(b, t) PROVE Types'
  BY <1>4 DEF Reattach, termVars, bridgeVars, mgrVars
<1>5. ASSUME NEW b \in Browsers, Attach(b) PROVE Types'
  <2>1. idle' \in [Terms -> -1..(Grace + 1)]
    BY <1>5 DEF Attach
  <2>2. QED
    BY <1>5, <2>1 DEF Attach, termVars, bridgeVars, mgrVars
<1>6. ASSUME NEW b \in Browsers, AttachEnded(b) PROVE Types'
  BY <1>6 DEF AttachEnded, Verdict, Closed, termVars, bridgeVars, mgrVars
<1>7. ASSUME NEW b \in Browsers, OutputEnded(b) PROVE Types'
  BY <1>7
  DEF OutputEnded, LeaveRun, Verdict, Closed, termVars, bridgeVars, mgrVars
<1>8. ASSUME NEW b \in Browsers, Detach(b) PROVE Types'
  <2>1. idle' \in [Terms -> -1..(Grace + 1)]
    BY <1>8 DEF Detach
  <2>2. QED
    BY <1>8, <2>1 DEF Detach, termVars, bridgeVars, mgrVars
<1>9. ASSUME NEW b \in Browsers, BrowserGone(b) PROVE Types'
  BY <1>9
  DEF BrowserGone, LeaveRun, LeaveSilently, Verdict, Closed, termVars, bridgeVars, mgrVars
<1>10. ASSUME NEW b \in Browsers, KeystrokeEnded(b) PROVE Types'
  BY <1>10
  DEF KeystrokeEnded, LeaveRun, Verdict, Closed, termVars, bridgeVars, mgrVars
<1>11. ASSUME NEW t \in Terms, PumpEnds(t) PROVE Types'
  <2>1. PICK how \in Failures : closing' = closing \cup {<<t, how>>}
    BY <1>11 DEF PumpEnds
  <2>2. closing' \in SUBSET (Terms \X Causes)
    BY <2>1 DEF Causes
  <2>3. exit' \in [Terms -> {"none", "status"}]
    BY <1>11 DEF PumpEnds
  <2>4. QED
    BY <1>11, <2>2, <2>3 DEF PumpEnds, termVars, bridgeVars, mgrVars
<1>12. ASSUME NEW t \in Terms, PumpDone(t) PROVE Types'
  BY <1>12 DEF PumpDone, termVars, bridgeVars, mgrVars
<1>13. ASSUME NEW t \in Terms, NEW c \in Causes, CloseBegin(t, c) PROVE Types'
  BY <1>13 DEF CloseBegin, Closed, termVars, bridgeVars, mgrVars
<1>14. ASSUME NEW t \in Terms, NEW c \in Causes, CloseLost(t, c) PROVE Types'
  BY <1>14 DEF CloseLost, Closed, termVars, bridgeVars, mgrVars
<1>15. ASSUME NEW t \in Terms, ShellClose(t) PROVE Types'
  BY <1>15 DEF ShellClose, termVars, bridgeVars, mgrVars
<1>16. ASSUME NEW t \in Terms, Release(t) PROVE Types'
  BY <1>16 DEF Release, termVars, bridgeVars, mgrVars
<1>17. ASSUME NEW t \in Terms, CloseTerminal(t) PROVE Types'
  <2>1. closing' \in SUBSET (Terms \X Causes)
    BY <1>17 DEF CloseTerminal, Remove, Causes, Deliberate
  <2>2. QED
    BY <1>17, <2>1 DEF CloseTerminal, Remove, termVars, bridgeVars, mgrVars
<1>18. ASSUME NEW t \in Terms, CloseAny(t) PROVE Types'
  <2>1. closing' \in SUBSET (Terms \X Causes)
    BY <1>18 DEF CloseAny, Remove, Causes, Deliberate
  <2>2. QED
    BY <1>18, <2>1 DEF CloseAny, Remove, termVars, bridgeVars, mgrVars
<1>19. ASSUME Reap PROVE Types'
  <2>1. closing' \in SUBSET (Terms \X Causes)
    BY <1>19 DEF Reap, Remove, Expired, Causes, Deliberate
  <2>2. QED
    BY <1>19, <2>1 DEF Reap, Remove, Expired, termVars, bridgeVars, mgrVars
<1>20. ASSUME StopReaper PROVE Types'
  BY <1>20 DEF StopReaper, termVars, bridgeVars, mgrVars
<1>21. ASSUME ReaperExits PROVE Types'
  BY <1>21 DEF ReaperExits, termVars, bridgeVars, mgrVars
<1>22. ASSUME CloseAll PROVE Types'
  <2>1. closing' \in SUBSET (Terms \X Causes)
    BY <1>22 DEF CloseAll, Remove, Causes, Deliberate
  <2>2. QED
    BY <1>22, <2>1 DEF CloseAll, Remove, termVars, bridgeVars, mgrVars
<1>23. ASSUME ToggleDraining PROVE Types'
  BY <1>23 DEF ToggleDraining, termVars, bridgeVars, mgrVars
<1>24. ASSUME Tick PROVE Types'
  <2>1. idle' \in [Terms -> -1..(Grace + 1)]
    BY <1>24 DEF Tick
  <2>2. QED
    BY <1>24, <2>1 DEF Tick, termVars, bridgeVars, mgrVars
<1>25. CASE UNCHANGED vars
  BY <1>25 DEF vars
<1>26. QED
  BY <1>1, <1>2, <1>3, <1>4, <1>5, <1>6, <1>7, <1>8, <1>9, <1>10, <1>11,
     <1>12, <1>13, <1>14, <1>15, <1>16, <1>17, <1>18, <1>19, <1>20, <1>21,
     <1>22, <1>23, <1>24, <1>25
     DEF Next, BridgeStep, CloseStep

(* Every action keeps what a stage fixes. *)
LEMMA ShapeStep ==
  ASSUME TypeOK, [Next]_vars
  PROVE  Shape'
PROOF
<1> USE DEF TypeOK, Types, Shape, Stages
<1>1. ASSUME NEW b \in Browsers, StartConnect(b) PROVE Shape'
  BY <1>1 DEF StartConnect, termVars, bridgeVars, mgrVars
<1>2. ASSUME NEW b \in Browsers, ConnectFailed(b) PROVE Shape'
  BY <1>2 DEF ConnectFailed, termVars, bridgeVars, mgrVars
<1>3. ASSUME NEW b \in Browsers, NEW t \in Terms, Open(b, t) PROVE Shape'
  BY <1>3 DEF Open, termVars, bridgeVars, mgrVars
<1>4. ASSUME NEW b \in Browsers, NEW t \in Terms, Reattach(b, t) PROVE Shape'
  BY <1>4 DEF Reattach, termVars, bridgeVars, mgrVars
<1>5. ASSUME NEW b \in Browsers, Attach(b) PROVE Shape'
  BY <1>5 DEF Attach, Closed, termVars, bridgeVars, mgrVars
<1>6. ASSUME NEW b \in Browsers, AttachEnded(b) PROVE Shape'
  BY <1>6 DEF AttachEnded, Verdict, Closed, termVars, bridgeVars, mgrVars
<1>7. ASSUME NEW b \in Browsers, OutputEnded(b) PROVE Shape'
  BY <1>7
  DEF OutputEnded, LeaveRun, Verdict, Closed, termVars, bridgeVars, mgrVars
<1>8. ASSUME NEW b \in Browsers, Detach(b) PROVE Shape'
  BY <1>8 DEF Detach, termVars, bridgeVars, mgrVars
<1>9. ASSUME NEW b \in Browsers, BrowserGone(b) PROVE Shape'
  BY <1>9
  DEF BrowserGone, LeaveRun, LeaveSilently, Verdict, Closed, termVars, bridgeVars, mgrVars
<1>10. ASSUME NEW b \in Browsers, KeystrokeEnded(b) PROVE Shape'
  BY <1>10
  DEF KeystrokeEnded, LeaveRun, Verdict, Closed, termVars, bridgeVars, mgrVars
<1>11. ASSUME NEW t \in Terms, PumpEnds(t) PROVE Shape'
  BY <1>11 DEF PumpEnds, termVars, bridgeVars, mgrVars
<1>12. ASSUME NEW t \in Terms, PumpDone(t) PROVE Shape'
  BY <1>12 DEF PumpDone, termVars, bridgeVars, mgrVars
<1>13. ASSUME NEW t \in Terms, NEW c \in Causes, CloseBegin(t, c) PROVE Shape'
  <2>1. /\ stage' = [stage EXCEPT ![t] = "closing"] /\ cause' = [cause EXCEPT ![t] = c]
        /\ stage[t] # "unborn" /\ c # "none"
        /\ UNCHANGED <<registered, pump, closing, pc, at>>
    BY <1>13 DEF CloseBegin, Causes, Deliberate, Failures
  <2>2. \A u \in Terms : (cause'[u] = "none") <=> (stage'[u] \in {"unborn", "live"})
    BY <2>1
  <2>3. \A u \in Terms : (pump'[u] = "idle") <=> (stage'[u] = "unborn")
    BY <2>1
  <2>4. \A u \in Terms : stage'[u] = "unborn" =>
          u \notin registered' /\ \A d \in Causes : <<u, d>> \notin closing'
    BY <2>1
  <2>5. \A b \in Browsers : pc'[b] \in {"holding", "attached", "leaving"} => at'[b] \in Terms
    BY <2>1
  <2>6. QED
    BY <2>2, <2>3, <2>4, <2>5
<1>14. ASSUME NEW t \in Terms, NEW c \in Causes, CloseLost(t, c) PROVE Shape'
  BY <1>14 DEF CloseLost, Closed, termVars, bridgeVars, mgrVars
<1>15. ASSUME NEW t \in Terms, ShellClose(t) PROVE Shape'
  BY <1>15 DEF ShellClose, termVars, bridgeVars, mgrVars
<1>16. ASSUME NEW t \in Terms, Release(t) PROVE Shape'
  BY <1>16 DEF Release, termVars, bridgeVars, mgrVars
<1>17. ASSUME NEW t \in Terms, CloseTerminal(t) PROVE Shape'
  BY <1>17 DEF CloseTerminal, Remove, termVars, bridgeVars, mgrVars
<1>18. ASSUME NEW t \in Terms, CloseAny(t) PROVE Shape'
  BY <1>18 DEF CloseAny, Remove, termVars, bridgeVars, mgrVars
<1>19. ASSUME Reap PROVE Shape'
  BY <1>19 DEF Reap, Remove, Expired, termVars, bridgeVars, mgrVars
<1>20. ASSUME StopReaper PROVE Shape'
  BY <1>20 DEF StopReaper, termVars, bridgeVars, mgrVars
<1>21. ASSUME ReaperExits PROVE Shape'
  BY <1>21 DEF ReaperExits, termVars, bridgeVars, mgrVars
<1>22. ASSUME CloseAll PROVE Shape'
  BY <1>22 DEF CloseAll, Remove, termVars, bridgeVars, mgrVars
<1>23. ASSUME ToggleDraining PROVE Shape'
  BY <1>23 DEF ToggleDraining, termVars, bridgeVars, mgrVars
<1>24. ASSUME Tick PROVE Shape'
  BY <1>24 DEF Tick, termVars, bridgeVars, mgrVars
<1>25. CASE UNCHANGED vars
  BY <1>25 DEF vars
<1>26. QED
  BY <1>1, <1>2, <1>3, <1>4, <1>5, <1>6, <1>7, <1>8, <1>9, <1>10, <1>11,
     <1>12, <1>13, <1>14, <1>15, <1>16, <1>17, <1>18, <1>19, <1>20, <1>21,
     <1>22, <1>23, <1>24, <1>25
     DEF Next, BridgeStep, CloseStep

(* Attach, Detach and close hand the output channel over consistently. *)
LEMMA ChannelsStep ==
  ASSUME TypeOK, ChannelsLive, [Next]_vars
  PROVE  ChannelsLive'
PROOF
<1> USE TermsAssumption DEF TypeOK, Types, Shape, ChannelsLive
<1>1. CASE UNCHANGED <<attached, ch, at, pc>>
  BY <1>1
<1>2. ASSUME NEW b \in Browsers, StartConnect(b) PROVE ChannelsLive'
  BY <1>2 DEF StartConnect, termVars
<1>3. ASSUME NEW b \in Browsers, ConnectFailed(b) PROVE ChannelsLive'
  BY <1>3 DEF ConnectFailed, termVars
<1>4. ASSUME NEW b \in Browsers, NEW t \in Terms, Open(b, t) PROVE ChannelsLive'
  BY <1>4 DEF Open
<1>5. ASSUME NEW b \in Browsers, NEW t \in Terms, Reattach(b, t) PROVE ChannelsLive'
  BY <1>5 DEF Reattach, termVars
<1>6. ASSUME NEW b \in Browsers, Attach(b) PROVE ChannelsLive'
  BY <1>6 DEF Attach
<1>7. ASSUME NEW b \in Browsers, AttachEnded(b) PROVE ChannelsLive'
  BY <1>7 DEF AttachEnded, termVars
<1>8. ASSUME NEW b \in Browsers, pc[b] = "attached", LeaveRun(b) \/ LeaveSilently(b)
      PROVE  ChannelsLive'
  BY <1>8 DEF LeaveRun, LeaveSilently, termVars, Closed
<1>9. ASSUME NEW b \in Browsers, Detach(b) PROVE ChannelsLive'
  BY <1>9 DEF Detach
<1>10. ASSUME NEW t \in Terms, NEW c \in Causes, CloseBegin(t, c) PROVE ChannelsLive'
  BY <1>10 DEF CloseBegin
<1>11. QED
  BY <1>1, <1>2, <1>3, <1>4, <1>5, <1>6, <1>7, <1>8, <1>9, <1>10
     DEF Next, vars, termVars, bridgeVars, mgrVars, BridgeStep, CloseStep,
         BrowserGone, OutputEnded, KeystrokeEnded, PumpEnds, PumpDone,
         CloseLost, ShellClose, Release, Remove, CloseTerminal, CloseAny,
         Reap, StopReaper, ReaperExits, CloseAll, ToggleDraining, Tick

(* Whatever leaves the map takes a close call with it. *)
LEMMA OrphansStep ==
  ASSUME TypeOK, NoOrphans, [Next]_vars
  PROVE  NoOrphans'
PROOF
<1> USE TermsAssumption DEF TypeOK, Types, Shape, NoOrphans
<1>1. CASE UNCHANGED <<stage, registered, closing>>
  BY <1>1
<1>2. ASSUME NEW b \in Browsers, NEW t \in Terms, Open(b, t) PROVE NoOrphans'
  BY <1>2 DEF Open
<1>3. ASSUME NEW t \in Terms, PumpEnds(t) PROVE NoOrphans'
  BY <1>3 DEF PumpEnds, Causes, Deliberate, Failures
<1>4. ASSUME NEW t \in Terms, NEW c \in Causes, CloseBegin(t, c) PROVE NoOrphans'
  BY <1>4 DEF CloseBegin, Closed
<1>5. ASSUME NEW t \in Terms, NEW c \in Causes, CloseLost(t, c) PROVE NoOrphans'
  BY <1>5 DEF CloseLost, Closed
<1>6. ASSUME NEW t \in Terms, ShellClose(t) PROVE NoOrphans'
  BY <1>6 DEF ShellClose
<1>7. ASSUME NEW t \in Terms, Release(t) PROVE NoOrphans'
  BY <1>7 DEF Release
<1>8. ASSUME NEW T \in SUBSET Terms, NEW c \in Causes, Remove(T, c) PROVE NoOrphans'
  BY <1>8 DEF Remove
<1> HIDE DEF TypeOK, Types, Shape, NoOrphans
<1>9. QED
  BY <1>1, <1>2, <1>3, <1>4, <1>5, <1>6, <1>7, <1>8
     DEF Next, vars, termVars, bridgeVars, mgrVars, BridgeStep, CloseStep,
         StartConnect, ConnectFailed, Reattach, Attach, AttachEnded,
         LeaveRun, LeaveSilently, BrowserGone, OutputEnded, Detach, KeystrokeEnded,
         PumpDone, CloseTerminal, CloseAny, Reap, StopReaper, ReaperExits,
         CloseAll, ToggleDraining, Tick, Expired, Causes, Deliberate, Types,
         TypeOK

(* A running terminal without a browser stays visible to the reaper. *)
LEMMA ReapableStep ==
  ASSUME TypeOK, Reapable, [Next]_vars
  PROVE  Reapable'
PROOF
<1> USE TermsAssumption DEF TypeOK, Types, Shape, Reapable
<1>1. CASE UNCHANGED <<stage, attached, idle, pc, at>>
  BY <1>1
<1>2. ASSUME NEW b \in Browsers, StartConnect(b) PROVE Reapable'
  BY <1>2 DEF StartConnect, termVars
<1>3. ASSUME NEW b \in Browsers, ConnectFailed(b) PROVE Reapable'
  BY <1>3 DEF ConnectFailed, termVars
<1>4. ASSUME NEW b \in Browsers, NEW t \in Terms, Open(b, t) PROVE Reapable'
  BY <1>4 DEF Open
<1>5. ASSUME NEW b \in Browsers, NEW t \in Terms, Reattach(b, t) PROVE Reapable'
  BY <1>5 DEF Reattach, termVars
<1>6. ASSUME NEW b \in Browsers, Attach(b) PROVE Reapable'
  BY <1>6 DEF Attach
<1>7. ASSUME NEW b \in Browsers, AttachEnded(b) PROVE Reapable'
  BY <1>7 DEF AttachEnded, Closed, termVars
<1>8. ASSUME NEW b \in Browsers, pc[b] = "attached", LeaveRun(b) \/ LeaveSilently(b)
      PROVE  Reapable'
  BY <1>8 DEF LeaveRun, LeaveSilently, termVars, Closed
<1>9. ASSUME NEW b \in Browsers, Detach(b) PROVE Reapable'
  BY <1>9 DEF Detach
<1>10. ASSUME NEW t \in Terms, NEW c \in Causes, CloseBegin(t, c) PROVE Reapable'
  BY <1>10 DEF CloseBegin, Closed
<1>11. ASSUME NEW t \in Terms, ShellClose(t) PROVE Reapable'
  BY <1>11 DEF ShellClose, bridgeVars
<1>12. ASSUME NEW t \in Terms, Release(t) PROVE Reapable'
  BY <1>12 DEF Release, bridgeVars
<1>13. ASSUME Tick PROVE Reapable'
  BY <1>13 DEF Tick, bridgeVars
<1>14. QED
  BY <1>1, <1>2, <1>3, <1>4, <1>5, <1>6, <1>7, <1>8, <1>9, <1>10, <1>11,
          <1>12, <1>13
     DEF Next, vars, termVars, bridgeVars, mgrVars, BridgeStep, CloseStep,
         BrowserGone, OutputEnded, KeystrokeEnded, PumpEnds, PumpDone,
         CloseLost, Remove, CloseTerminal, CloseAny, Reap, StopReaper,
         ReaperExits, CloseAll, ToggleDraining

(* How a terminal ended is written once: closeErr by the first close, the   *)
(* exit status by the pump when it stops reading.                           *)
LEMMA EndingsStep ==
  ASSUME TypeOK, ExitOnce, [Next]_vars
  PROVE  /\ \A t \in Terms : /\ cause[t] # "none" => cause'[t] = cause[t]
                             /\ exit[t] = "status" => exit'[t] = "status"
         /\ ExitOnce'
PROOF
<1> USE DEF TypeOK, Types, Shape, ExitOnce
<1>1. CASE UNCHANGED <<cause, exit, pump>>
  BY <1>1
<1>2. ASSUME NEW b \in Browsers, NEW t \in Terms, Open(b, t)
      PROVE  /\ cause' = cause /\ exit' = exit /\ ExitOnce'
  BY <1>2 DEF Open
<1>3. ASSUME NEW t \in Terms, PumpEnds(t)
      PROVE  /\ cause' = cause
             /\ \A u \in Terms : exit[u] = "status" => exit'[u] = "status"
             /\ ExitOnce'
  BY <1>3 DEF PumpEnds
<1>4. ASSUME NEW t \in Terms, PumpDone(t)
      PROVE  /\ cause' = cause /\ exit' = exit /\ ExitOnce'
  BY <1>4 DEF PumpDone
<1>5. ASSUME NEW t \in Terms, NEW c \in Causes, CloseBegin(t, c)
      PROVE  /\ \A u \in Terms : cause[u] # "none" => cause'[u] = cause[u]
             /\ exit' = exit /\ ExitOnce'
  BY <1>5 DEF CloseBegin, Closed, Stages
<1>6. QED
  BY <1>1, <1>2, <1>3, <1>4, <1>5
     DEF Next, vars, termVars, bridgeVars, mgrVars, BridgeStep, CloseStep,
         StartConnect, ConnectFailed, Reattach, Attach, AttachEnded,
         LeaveRun, LeaveSilently, BrowserGone, OutputEnded, Detach, KeystrokeEnded,
         CloseLost, ShellClose, Release, Remove, CloseTerminal, CloseAny,
         Reap, StopReaper, ReaperExits, CloseAll, ToggleDraining, Tick

(* A browser has no report, or keeps the one it had about the terminal it   *)
(* had it from, or is given the verdict on an ended terminal it holds.      *)
LEMMA ReportMoves ==
  ASSUME TypeOK, ReportsSettled, [Next]_vars,
         NEW b \in Browsers
  PROVE  \/ report'[b] = "none"
         \/ report'[b] = report[b] /\ at'[b] = at[b]
         \/ /\ report'[b] = Verdict(at[b])
            /\ at'[b] = at[b]
            /\ at[b] \in Terms
            /\ Closed(at[b])
PROOF
<1> USE DEF TypeOK, Types, Shape, ReportsSettled
<1> DEFINE Moved(x) == \/ report'[x] = "none"
                       \/ report'[x] = report[x] /\ at'[x] = at[x]
                       \/ /\ report'[x] = Verdict(at[x])
                          /\ at'[x] = at[x]
                          /\ at[x] \in Terms
                          /\ Closed(at[x])
<1>1. CASE UNCHANGED <<report, at>>
  BY <1>1
<1>2. ASSUME NEW c \in Browsers, StartConnect(c) PROVE Moved(b)
  BY <1>2 DEF StartConnect
<1>3. ASSUME NEW c \in Browsers, NEW t \in Terms, Open(c, t) PROVE Moved(b)
  BY <1>3 DEF Open
<1>4. ASSUME NEW c \in Browsers, NEW t \in Terms, Reattach(c, t)
      PROVE  Moved(b)
  BY <1>4 DEF Reattach
<1>5. ASSUME NEW c \in Browsers, AttachEnded(c) PROVE Moved(b)
  BY <1>5 DEF AttachEnded
<1>6. ASSUME NEW c \in Browsers, pc[c] = "attached", LeaveRun(c) \/ LeaveSilently(c)
      PROVE  Moved(b)
  BY <1>6 DEF LeaveRun, LeaveSilently
<1>7. QED
  BY <1>1, <1>2, <1>3, <1>4, <1>5, <1>6
     DEF Next, vars, termVars, bridgeVars, mgrVars, BridgeStep, CloseStep,
         ConnectFailed, Attach, BrowserGone, OutputEnded, Detach,
         KeystrokeEnded, PumpEnds, PumpDone, CloseBegin, CloseLost,
         ShellClose, Release, Remove, CloseTerminal, CloseAny, Reap,
         StopReaper, ReaperExits, CloseAll, ToggleDraining, Tick

(* A browser that is dialling was told nothing since it came back. *)
LEMMA SettledStep ==
  ASSUME TypeOK, ReportsSettled, [Next]_vars
  PROVE  ReportsSettled'
PROOF
<1> SUFFICES ASSUME NEW b \in Browsers
             PROVE  /\ pc'[b] = "dialling" => report'[b] = "none"
                    /\ report'[b] # "none" => at'[b] \in Terms
  BY DEF ReportsSettled
<1>1. report'[b] # "none" => at'[b] \in Terms
  BY ReportMoves DEF ReportsSettled
<1>2. pc'[b] = "dialling" => report'[b] = "none"
  <2> USE DEF TypeOK, Types, ReportsSettled
  <2>1. CASE UNCHANGED <<pc, report>>
    BY <2>1
  <2>2. ASSUME NEW c \in Browsers, StartConnect(c)
        PROVE  pc'[b] = "dialling" => report'[b] = "none"
    BY <2>2 DEF StartConnect
  <2>3. ASSUME NEW c \in Browsers,
               \/ ConnectFailed(c)
               \/ \E t \in Terms : Open(c, t) \/ Reattach(c, t)
               \/ Attach(c) \/ AttachEnded(c) \/ Detach(c)
               \/ LeaveRun(c) \/ LeaveSilently(c)
        PROVE  pc'[b] = "dialling" => report'[b] = "none"
    BY <2>3 DEF ConnectFailed, Open, Reattach, Attach, AttachEnded,
                LeaveRun, LeaveSilently, Detach
  <2>4. QED
    BY <2>1, <2>2, <2>3
       DEF Next, vars, termVars, bridgeVars, mgrVars, BridgeStep, CloseStep,
           BrowserGone, OutputEnded, KeystrokeEnded, PumpEnds, PumpDone,
           CloseBegin, CloseLost, ShellClose, Release, Remove,
           CloseTerminal, CloseAny, Reap, StopReaper, ReaperExits, CloseAll,
           ToggleDraining, Tick
<1>3. QED
  BY <1>1, <1>2

(* A verdict is true of the terminal it is about when it is given. *)
LEMMA VerdictTrue ==
  ASSUME TypeOK, NEW t \in Terms, Closed(t)
  PROVE  /\ Verdict(t) = "lost" => cause[t] \in Failures
         /\ Verdict(t) = "final" => cause[t] \in Deliberate \/ exit[t] = "status"
  BY DEF TypeOK, Types, Shape, Closed, Verdict, Causes

(* Reports stay true. *)
LEMMA ReportsStep ==
  ASSUME TypeOK, ExitOnce, ReportsSettled, ReportHonest, [Next]_vars
  PROVE  ReportHonest'
PROOF
<1> SUFFICES ASSUME NEW b \in Browsers
             PROVE  /\ report'[b] = "lost" => cause'[at'[b]] \in Failures
                    /\ report'[b] = "final" => \/ cause'[at'[b]] \in Deliberate
                                               \/ exit'[at'[b]] = "status"
  BY DEF ReportHonest
<1>1. CASE report'[b] = "none"
  BY <1>1
<1>2. CASE report'[b] # "none" /\ at'[b] = at[b] /\ at[b] \in Terms
  <2>1. /\ report'[b] = "lost" => cause[at[b]] \in Failures
        /\ report'[b] = "final" => \/ cause[at[b]] \in Deliberate
                                   \/ exit[at[b]] = "status"
    BY <1>2, ReportMoves, VerdictTrue DEF ReportHonest
  <2>2. /\ cause[at[b]] # "none" => cause'[at[b]] = cause[at[b]]
        /\ exit[at[b]] = "status" => exit'[at[b]] = "status"
    BY <1>2, EndingsStep
  <2>3. "none" \notin Failures /\ "none" \notin Deliberate
    BY DEF Failures, Deliberate
  <2>4. QED
    BY <1>2, <2>1, <2>2, <2>3
<1>3. QED
  BY <1>1, <1>2, ReportMoves DEF ReportsSettled

-----------------------------------------------------------------------------
(* The inductive invariant. *)
IInv == /\ TypeOK
        /\ ChannelsLive
        /\ NoOrphans
        /\ Reapable
        /\ ReportsSettled
        /\ ExitOnce
        /\ ReportHonest

(* It holds of a manager that has just started (NewManager). *)
LEMMA InitIInv == Init => IInv
PROOF
<1> SUFFICES ASSUME Init PROVE IInv
  OBVIOUS
<1> USE TermsAssumption DEF Init
<1>1. -1 \in -1..(Grace + 1)
  OBVIOUS
<1>2. TypeOK
  BY <1>1 DEF TypeOK, Types, Shape, Stages
<1>3. ChannelsLive /\ NoOrphans /\ Reapable
  BY DEF ChannelsLive, NoOrphans, Reapable
<1>4. ReportsSettled /\ ExitOnce /\ ReportHonest
  BY DEF ReportsSettled, ExitOnce, ReportHonest
<1>5. QED
  BY <1>2, <1>3, <1>4 DEF IInv

(* Every step of a handler, a pump, a closer or the manager keeps it. *)
LEMMA StepIInv == IInv /\ [Next]_vars => IInv'
PROOF
<1> SUFFICES ASSUME IInv, [Next]_vars PROVE IInv'
  OBVIOUS
<1>1. TypeOK'
  BY TypesStep, ShapeStep DEF IInv, TypeOK
<1>2. ChannelsLive' /\ NoOrphans' /\ Reapable'
  BY ChannelsStep, OrphansStep, ReapableStep DEF IInv
<1>3. ReportsSettled' /\ ExitOnce' /\ ReportHonest'
  BY SettledStep, EndingsStep, ReportsStep DEF IInv
<1>4. QED
  BY <1>1, <1>2, <1>3 DEF IInv

(* So it holds throughout. *)
LEMMA SpecIInv == Spec => []IInv
  BY InitIInv, StepIInv, PTL DEF Spec

(* Terminals are well formed in every reachable state of the manager.      *)
THEOREM TypeCorrect == Spec => []TypeOK
<1>1. IInv => TypeOK
  BY DEF IInv
<1>2. QED
  BY <1>1, SpecIInv, PTL

(* The pump never sends on a closed channel and no channel is closed twice, *)
(* whatever order Attach, Detach and close run in (session.go 441-456).     *)
THEOREM ChannelsAlwaysLive == Spec => []ChannelsLive
<1>1. IInv => ChannelsLive
  BY DEF IInv
<1>2. QED
  BY <1>1, SpecIInv, PTL

(* No running shell is ever out of the map without a close call coming, nor  *)
(* without a browser and invisible to the reaper (reapOnce, CloseTerminal,   *)
(* CloseAny, Manager.Close; Detach stamps detachedAt, only Attach clears it).*)
THEOREM AlwaysInReach == Spec => []InReach
<1>1. IInv => InReach
  BY DEF IInv, InReach
<1>2. QED
  BY <1>1, SpecIInv, PTL

(* What a browser was told about the end of its session stays true         *)
(* (EndedDeliberately, reportClosed).                                      *)
THEOREM ReportsAlwaysHonest == Spec => []ReportHonest
<1>1. IInv => ReportHonest
  BY DEF IInv
<1>2. QED
  BY <1>1, SpecIInv, PTL

-----------------------------------------------------------------------------
(* OpenCount counts a finite set: Open adds one terminal at a time to the    *)
(* map, and nothing else adds any.                                           *)
LEMMA MapFinite ==
  ASSUME IsFiniteSet(registered), [Next]_vars
  PROVE  IsFiniteSet(registered)'
PROOF
<1> USE DEF termVars, bridgeVars, mgrVars
<1>1. ASSUME NEW b \in Browsers, StartConnect(b) PROVE IsFiniteSet(registered)'
  BY <1>1 DEF StartConnect
<1>2. ASSUME NEW b \in Browsers, NEW t \in Terms, Open(b, t) PROVE IsFiniteSet(registered)'
  BY <1>2, FS_AddElement DEF Open
<1>3. ASSUME registered' \subseteq registered PROVE IsFiniteSet(registered)'
  BY <1>3, FS_Subset
<1>4. ASSUME NEW b \in Browsers, ConnectFailed(b) PROVE registered' \subseteq registered
  BY <1>4 DEF ConnectFailed
<1>5. ASSUME NEW b \in Browsers, NEW t \in Terms, Reattach(b, t) PROVE registered' \subseteq registered
  BY <1>5 DEF Reattach
<1>6. ASSUME NEW b \in Browsers, BridgeStep(b) PROVE registered' \subseteq registered
  BY <1>6 DEF BridgeStep, Attach, AttachEnded, OutputEnded, LeaveRun, Detach
<1>7. ASSUME NEW b \in Browsers, BrowserGone(b) PROVE registered' \subseteq registered
  BY <1>7 DEF BrowserGone, LeaveRun, LeaveSilently
<1>8. ASSUME NEW b \in Browsers, KeystrokeEnded(b) PROVE registered' \subseteq registered
  BY <1>8 DEF KeystrokeEnded, LeaveRun
<1>9. ASSUME NEW t \in Terms, PumpEnds(t) PROVE registered' \subseteq registered
  BY <1>9 DEF PumpEnds
<1>10. ASSUME NEW t \in Terms, PumpDone(t) PROVE registered' \subseteq registered
  BY <1>10 DEF PumpDone
<1>11. ASSUME NEW t \in Terms, CloseStep(t) PROVE registered' \subseteq registered
  BY <1>11 DEF CloseStep, CloseBegin, CloseLost, ShellClose, Release
<1>12. ASSUME NEW t \in Terms, CloseTerminal(t) PROVE registered' \subseteq registered
  BY <1>12 DEF CloseTerminal, Remove
<1>13. ASSUME NEW t \in Terms, CloseAny(t) PROVE registered' \subseteq registered
  BY <1>13 DEF CloseAny, Remove
<1>14. ASSUME Reap PROVE registered' \subseteq registered
  BY <1>14 DEF Reap, Remove
<1>15. ASSUME StopReaper PROVE registered' \subseteq registered
  BY <1>15 DEF StopReaper
<1>16. ASSUME ReaperExits PROVE registered' \subseteq registered
  BY <1>16 DEF ReaperExits
<1>17. ASSUME CloseAll PROVE registered' \subseteq registered
  BY <1>17 DEF CloseAll, Remove
<1>18. ASSUME ToggleDraining PROVE registered' \subseteq registered
  BY <1>18 DEF ToggleDraining
<1>19. ASSUME Tick PROVE registered' \subseteq registered
  BY <1>19 DEF Tick
<1>20. ASSUME UNCHANGED vars PROVE registered' \subseteq registered
  BY <1>20 DEF vars
<1> HIDE DEF termVars, bridgeVars, mgrVars
<1>21. QED
  BY <1>1, <1>2, <1>3, <1>4, <1>5, <1>6, <1>7, <1>8, <1>9, <1>10, <1>11,
     <1>12, <1>13, <1>14, <1>15, <1>16, <1>17, <1>18, <1>19, <1>20
  DEF Next

(* So the map is finite throughout. *)
LEMMA MapAlwaysFinite == Spec => []IsFiniteSet(registered)
<1>1. Init => IsFiniteSet(registered)
  BY FS_EmptySet DEF Init
<1>2. IsFiniteSet(registered) /\ [Next]_vars => IsFiniteSet(registered)'
  BY MapFinite
<1>3. QED
  BY <1>1, <1>2, PTL DEF Spec

(* A terminal that has ended does not come back, and while the server drains *)
(* and nobody is dialling no terminal joins the map and nobody starts to     *)
(* dial.                                                                     *)
LEMMA DrainingMapShrinks ==
  ASSUME IInv, draining, \A b \in Browsers : pc[b] # "dialling", [Next]_vars
  PROVE  /\ registered' \subseteq registered
         /\ \A t \in registered : Closed(t) => Closed(t)'
         /\ \A b \in Browsers : pc'[b] # "dialling"
PROOF
<1> DEFINE Goal == /\ registered' \subseteq registered
                   /\ \A t \in registered : Closed(t) => Closed(t)'
                   /\ \A b \in Browsers : pc'[b] # "dialling"
<1> USE DEF IInv, TypeOK, Types, Closed, termVars, bridgeVars, mgrVars
<1>1. ASSUME NEW b \in Browsers, StartConnect(b) PROVE Goal
  BY <1>1 DEF StartConnect
<1>2. ASSUME NEW b \in Browsers, NEW t \in Terms, Open(b, t) PROVE Goal
  BY <1>2 DEF Open
<1>3. ASSUME NEW b \in Browsers, ConnectFailed(b) PROVE Goal
  BY <1>3 DEF ConnectFailed
<1>4. ASSUME NEW b \in Browsers, NEW t \in Terms, Reattach(b, t) PROVE Goal
  BY <1>4 DEF Reattach
<1>5. ASSUME NEW b \in Browsers, BridgeStep(b) PROVE Goal
  <2>1. CASE Attach(b)
    BY <2>1 DEF Attach
  <2>2. CASE AttachEnded(b)
    BY <2>2 DEF AttachEnded
  <2>3. CASE OutputEnded(b)
    BY <2>3 DEF OutputEnded, LeaveRun
  <2>4. CASE Detach(b)
    BY <2>4 DEF Detach
  <2> HIDE DEF Goal
  <2>5. QED
    BY <1>5, <2>1, <2>2, <2>3, <2>4 DEF BridgeStep
<1>6. ASSUME NEW b \in Browsers, BrowserGone(b) PROVE Goal
  BY <1>6 DEF BrowserGone, LeaveRun, LeaveSilently
<1>7. ASSUME NEW b \in Browsers, KeystrokeEnded(b) PROVE Goal
  BY <1>7 DEF KeystrokeEnded, LeaveRun
<1>8. ASSUME NEW t \in Terms, PumpEnds(t) PROVE Goal
  BY <1>8 DEF PumpEnds
<1>9. ASSUME NEW t \in Terms, PumpDone(t) PROVE Goal
  BY <1>9 DEF PumpDone
<1>10. ASSUME NEW t \in Terms, CloseStep(t) PROVE Goal
  <2>1. ASSUME NEW c \in Causes, CloseBegin(t, c) PROVE Goal
    BY <2>1 DEF CloseBegin
  <2>2. ASSUME NEW c \in Causes, CloseLost(t, c) PROVE Goal
    BY <2>2 DEF CloseLost
  <2>3. CASE ShellClose(t)
    BY <2>3 DEF ShellClose
  <2>4. CASE Release(t)
    BY <2>4 DEF Release
  <2> HIDE DEF Goal
  <2>5. QED
    BY <1>10, <2>1, <2>2, <2>3, <2>4 DEF CloseStep
<1>11. ASSUME NEW t \in Terms, CloseTerminal(t) PROVE Goal
  BY <1>11 DEF CloseTerminal, Remove
<1>12. ASSUME NEW t \in Terms, CloseAny(t) PROVE Goal
  BY <1>12 DEF CloseAny, Remove
<1>13. ASSUME Reap PROVE Goal
  BY <1>13 DEF Reap, Remove
<1>14. ASSUME StopReaper PROVE Goal
  BY <1>14 DEF StopReaper
<1>15. ASSUME ReaperExits PROVE Goal
  BY <1>15 DEF ReaperExits
<1>16. ASSUME CloseAll PROVE Goal
  BY <1>16 DEF CloseAll, Remove
<1>17. ASSUME ToggleDraining PROVE Goal
  BY <1>17 DEF ToggleDraining
<1>18. ASSUME Tick PROVE Goal
  BY <1>18 DEF Tick
<1>19. ASSUME UNCHANGED vars PROVE Goal
  BY <1>19 DEF vars
<1> HIDE DEF Goal, IInv, TypeOK, Types, Closed, termVars, bridgeVars, mgrVars
<1>20. Goal
  BY <1>1, <1>2, <1>3, <1>4, <1>5, <1>6, <1>7, <1>8, <1>9, <1>10, <1>11,
     <1>12, <1>13, <1>14, <1>15, <1>16, <1>17, <1>18, <1>19
  DEF Next
<1>21. QED
  BY <1>20 DEF Goal

(* What the upgrade script waits for lasts: once /healthz has shown no open  *)
(* terminal with no dial under way, it goes on showing none until draining   *)
(* is called off (Manager.OpenCount, the ?session= branch of the socket      *)
(* handler).                                                                 *)
THEOREM DrainAlwaysSettles == Spec => DrainSettles
<1>1. ASSUME IInv, IsFiniteSet(registered), IsFiniteSet(registered)', [Next]_vars,
             Drained, draining'
      PROVE  Drained'
  <2> DEFINE Running == {t \in registered : ~Closed(t)}
  <2>1. IsFiniteSet(Running) /\ IsFiniteSet(Running)'
    <3>1. Running \subseteq registered /\ Running' \subseteq registered'
      OBVIOUS
    <3> HIDE DEF Running
    <3>2. QED
      BY <1>1, <3>1, FS_Subset
  <2>2. Running = {}
    <3>1. Cardinality(Running) = 0
      BY <1>1 DEF Drained, OpenCount
    <3> HIDE DEF Running
    <3>2. QED
      BY <2>1, <3>1, FS_EmptySet
  <2>3. /\ registered' \subseteq registered
        /\ \A t \in registered : Closed(t) => Closed(t)'
        /\ \A b \in Browsers : pc'[b] # "dialling"
    BY <1>1, DrainingMapShrinks DEF Drained
  <2>4. Running' = {}
    BY <2>2, <2>3
  <2>5. Cardinality(Running') = 0
    BY <2>4, FS_EmptySet
  <2>6. QED
    BY <1>1, <2>3, <2>5 DEF Drained, OpenCount
<1>2. IInv /\ IsFiniteSet(registered) /\ IsFiniteSet(registered)' /\ [Next]_vars
        => [Drained /\ draining' => Drained']_vars
  BY <1>1
<1>3. QED
  BY <1>2, SpecIInv, MapAlwaysFinite, PTL DEF Spec, DrainSettles

=============================================================================
