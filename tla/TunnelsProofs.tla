---------------------------- MODULE TunnelsProofs ----------------------------
(***************************************************************************)
(* Proofs about Tunnels, for any sets of tunnels, forwarded connections    *)
(* and ports, any kinds the settings permit and any limits.                *)
(***************************************************************************)
EXTENDS Tunnels, TLAPS

(***************************************************************************)
(* The inductive invariant: what a tunnel has at each stage of its opening *)
(* and closing, and which tunnels a forwarded connection can be over.      *)
(***************************************************************************)
Begun  == {"unused", "asked", "leased", "allocated"}
Closed == {"stopping", "waiting", "freeing", "abandoned", "gone"}
Leased == {"leased", "allocated", "ready", "open", "doomed", "stopping", "waiting"}

(* The map has the open tunnels; the connection is held from the dial to     *)
(* the end of the wait, and the listener from its making to its closing.     *)
StageShape ==
  \A t \in Tunnels :
    /\ t \in tunnels <=> stage[t] = "open"
    /\ lease[t] <=> stage[t] \in Leased
    /\ listening[t] <=> /\ stage[t] \in {"ready", "open", "doomed", "stopping"}
                        /\ kind[t] # "web"
    /\ cancelled[t] <=> stage[t] \in Closed
    /\ accepting[t] => stage[t] \notin Begun /\ kind[t] # "web"
    /\ stage[t] = "allocated" => kind[t] = "local" /\ localPort[t] # None
    /\ stage[t] = "ready" => kind[t] # "web"
    /\ stage[t] \in Begun => tries[t] < Attempts
    /\ stage[t] \in {"unused", "asked", "leased"} => localPort[t] = None

(* Connections come over tunnels that have begun to listen or to serve, and  *)
(* only a listener's are counted.                                            *)
ConnShape ==
  \A c \in Conns : cpc[c] # "free" =>
    /\ over[c] \in Tunnels
    /\ stage[over[c]] \notin Begun \cup {"refused"}
    /\ cpc[c] \in {"accepted", "counted", "entered"} => kind[over[c]] # "web"

(* Whoever has come as far as serve since the reaper looked has touched the   *)
(* clock the reaper is going to read.                                         *)
LookShape ==
  \A c \in Conns :
    /\ looking # None
    /\ over[c] = looking
    /\ cpc[c] \in {"asking", "dialling", "piping"}
    /\ kind[looking] # "web"
    => ~idle[looking]

IInv == /\ TypeOK /\ StageShape /\ ConnShape /\ LookShape
        /\ PortsAccounted /\ ForwardsHaveLease
-----------------------------------------------------------------------------
(* The steps of forwarded connections, of an accept loop and of the clock,  *)
(* the reaper's first read and its exit.                                    *)
Aside ==
  \/ \E t \in Tunnels : \/ AcceptExits(t) \/ AcceptFails(t) \/ Idle(t) \/ ReapLook(t)
                        \/ \E c \in Conns : Accept(t, c) \/ ProxyRequest(t, c)
  \/ \E c \in Conns : ConnStep(c)
  \/ ReaperExits

(* They leave what the manager and the goroutines that open and close       *)
(* tunnels keep alone; a loop that has stopped stays so.                    *)
LEMMA AsideKeeps ==
  ASSUME TypeOK, Aside
  PROVE  /\ UNCHANGED <<closed, tunnels, ports, stage, by, kind, tries, localPort,
                        lease, listening, cancelled>>
         /\ \A t \in Tunnels : accepting'[t] => accepting[t]
PROOF
<1> DEFINE Goal == /\ UNCHANGED <<closed, tunnels, ports, stage, by, kind, tries,
                                  localPort, lease, listening, cancelled>>
                   /\ \A t \in Tunnels : accepting'[t] => accepting[t]
<1> USE DEF managerVars, openVars, liveVars
<1>1. ASSUME NEW t \in Tunnels, AcceptExits(t) PROVE Goal
  BY <1>1 DEF AcceptExits, TypeOK
<1>2. ASSUME NEW t \in Tunnels, AcceptFails(t) PROVE Goal
  BY <1>2 DEF AcceptFails, TypeOK
<1>3. ASSUME NEW t \in Tunnels, Idle(t) PROVE Goal
  BY <1>3 DEF Idle
<1>4. ASSUME ReaperExits PROVE Goal
  BY <1>4 DEF ReaperExits
<1>5. ASSUME NEW t \in Tunnels, NEW c \in Conns, Accept(t, c) PROVE Goal
  BY <1>5 DEF Accept, TypeOK
<1>6. ASSUME NEW t \in Tunnels, NEW c \in Conns, ProxyRequest(t, c) PROVE Goal
  BY <1>6 DEF ProxyRequest
<1>7. ASSUME NEW c \in Conns, Count(c) PROVE Goal
  BY <1>7 DEF Count
<1>8. ASSUME NEW c \in Conns, Serve(c) PROVE Goal
  BY <1>8 DEF Serve
<1>9. ASSUME NEW c \in Conns, StartDial(c) PROVE Goal
  BY <1>9 DEF StartDial
<1>10. ASSUME NEW c \in Conns, NoDial(c) PROVE Goal
  BY <1>10 DEF NoDial
<1>11. ASSUME NEW c \in Conns, DialOK(c) PROVE Goal
  BY <1>11 DEF DialOK
<1>12. ASSUME NEW c \in Conns, DialFails(c) PROVE Goal
  BY <1>12 DEF DialFails
<1>13. ASSUME NEW c \in Conns, PipeEnds(c) PROVE Goal
  BY <1>13 DEF PipeEnds
<1>14. ASSUME NEW c \in Conns, Done(c) PROVE Goal
  BY <1>14 DEF Done
<1>15. ASSUME NEW c \in Conns, Enter(c) PROVE Goal
  BY <1>15 DEF Enter
<1>16. ASSUME NEW t \in Tunnels, ReapLook(t) PROVE Goal
  BY <1>16 DEF ReapLook
<1> HIDE DEF Goal
<1>17. Goal
  BY <1>1, <1>2, <1>3, <1>4, <1>5, <1>6, <1>7, <1>8, <1>9, <1>10, <1>11,
     <1>12, <1>13, <1>14, <1>15, <1>16
  DEF Aside, ConnStep, DialEnds
<1>18. QED
  BY <1>17 DEF Goal

(* t.touch keeps the clocks well formed. *)
LEMMA Touched ==
  ASSUME NEW t, idle \in [Tunnels -> BOOLEAN], UNCHANGED idle \/ Touch(t)
  PROVE  idle' \in [Tunnels -> BOOLEAN]
<1>1. CASE UNCHANGED idle
  BY <1>1
<1>2. CASE Touch(t)
  BY <1>2 DEF Touch
<1>3. QED
  BY <1>1, <1>2

(* Every action keeps the types; listenAttempts bounds the tries. *)
LEMMA TypesStep ==
  ASSUME IInv, [Next]_vars
  PROVE  TypeOK'
PROOF
<1> USE TunnelsAssumption DEF IInv, TypeOK, StageShape, ConnShape, Stages,
        Closing, Places, Kinds, Begun, managerVars, openVars, liveVars,
        connVars
<1>1. ASSUME NEW t \in Tunnels, NEW k \in Allowed, CheckQuota(t, k) PROVE TypeOK'
  BY <1>1 DEF CheckQuota, To
<1>2. ASSUME NEW t \in Tunnels, DialFailed(t) PROVE TypeOK'
  BY <1>2 DEF DialFailed, To
<1>3. ASSUME NEW t \in Tunnels, Dialled(t) PROVE TypeOK'
  BY <1>3 DEF Dialled, To
<1>4. ASSUME NEW t \in Tunnels, AllocatePort(t) PROVE TypeOK'
  BY <1>4 DEF AllocatePort, FreePort, To
<1>5. ASSUME NEW t \in Tunnels, NoPort(t) PROVE TypeOK'
  BY <1>5 DEF NoPort, GiveUp, To
<1>6. ASSUME NEW t \in Tunnels, Bind(t) PROVE TypeOK'
  BY <1>6 DEF Bind, To
<1>7. ASSUME NEW t \in Tunnels, BindFailed(t) PROVE TypeOK'
  <2>1. tries' \in [Tunnels -> 0..Attempts]
    BY <1>7 DEF BindFailed
  <2>2. CASE LastTry(t)
    <3>1. lease' = [lease EXCEPT ![t] = FALSE] /\ To(t, "refused")
      BY <1>7, <2>2 DEF BindFailed, GiveUp
    <3>2. lease' \in [Tunnels -> BOOLEAN]
      BY <3>1
    <3>3. QED
      BY <1>7, <2>1, <3>1, <3>2 DEF BindFailed, To
  <2>3. CASE ~LastTry(t)
    BY <1>7, <2>1, <2>3 DEF BindFailed, To
  <2>4. QED
    BY <2>2, <2>3
<1>8. ASSUME NEW t \in Tunnels, ListenRemote(t) PROVE TypeOK'
  BY <1>8 DEF ListenRemote, To
<1>9. ASSUME NEW t \in Tunnels, ListenRemoteFailed(t) PROVE TypeOK'
  BY <1>9 DEF ListenRemoteFailed, GiveUp, To
<1>10. ASSUME NEW t \in Tunnels, Register(t) PROVE TypeOK'
  BY <1>10 DEF Register, Opened, To
<1>11. ASSUME NEW t \in Tunnels, RegisterRefused(t) PROVE TypeOK'
  BY <1>11 DEF RegisterRefused, Opened, To
<1>12. ASSUME NEW t \in Tunnels, CloseTunnel(t) PROVE TypeOK'
  BY <1>12 DEF CloseTunnel, Found, Doom
<1>13. ASSUME NEW t \in Tunnels, CloseBegin(t) PROVE TypeOK'
  BY <1>13 DEF CloseBegin, Turn, To
<1>14. ASSUME NEW t \in Tunnels, CloseListener(t) PROVE TypeOK'
  BY <1>14 DEF CloseListener, To
<1>15. ASSUME NEW t \in Tunnels, Release(t) PROVE TypeOK'
  BY <1>15 DEF Release, To
<1>16. ASSUME NEW t \in Tunnels, ReleasePort(t) PROVE TypeOK'
  BY <1>16 DEF ReleasePort, PortOf, To
<1>17. ASSUME ReapTake PROVE TypeOK'
  BY <1>17 DEF ReapTake, Doom
<1>18. ASSUME Shutdown PROVE TypeOK'
  BY <1>18 DEF Shutdown, Doom
<1>19. ASSUME NEW t \in Tunnels, AcceptExits(t) PROVE TypeOK'
  BY <1>19 DEF AcceptExits, LoopFree
<1>20. ASSUME NEW t \in Tunnels, AcceptFails(t) PROVE TypeOK'
  BY <1>20 DEF AcceptFails, LoopFree, Failed
<1>21. ASSUME NEW t \in Tunnels, Idle(t) PROVE TypeOK'
  BY <1>21 DEF Idle
<1>22. ASSUME ReaperExits PROVE TypeOK'
  BY <1>22 DEF ReaperExits
<1>23. ASSUME NEW t \in Tunnels, NEW c \in Conns, Accept(t, c) PROVE TypeOK'
  BY <1>23 DEF Accept, At, LoopFree
<1>24. ASSUME NEW t \in Tunnels, NEW c \in Conns, ProxyRequest(t, c) PROVE TypeOK'
  BY <1>24 DEF ProxyRequest, TunnelForHost, At
<1>25. ASSUME NEW c \in Conns, Count(c) PROVE TypeOK'
  BY <1>25 DEF Count, At
<1>26. ASSUME NEW c \in Conns, Serve(c) PROVE TypeOK'
  BY <1>26 DEF Serve, At, Touch
<1>27. ASSUME NEW c \in Conns, StartDial(c) PROVE TypeOK'
  <2>1. UNCHANGED idle \/ Touch(over[c])
    BY <1>27 DEF StartDial
  <2>2. idle' \in [Tunnels -> BOOLEAN]
    BY <2>1, Touched
  <2>3. QED
    BY <1>27, <2>2 DEF StartDial, At
<1>28. ASSUME NEW c \in Conns, NoDial(c) PROVE TypeOK'
  BY <1>28 DEF NoDial, At
<1>29. ASSUME NEW c \in Conns, DialOK(c) PROVE TypeOK'
  <2>1. UNCHANGED idle \/ Touch(over[c])
    BY <1>29 DEF DialOK
  <2>2. idle' \in [Tunnels -> BOOLEAN]
    BY <2>1, Touched
  <2>3. QED
    BY <1>29, <2>2 DEF DialOK, At
<1>30. ASSUME NEW c \in Conns, DialFails(c) PROVE TypeOK'
  BY <1>30 DEF DialFails, At, Failed
<1>31. ASSUME NEW c \in Conns, PipeEnds(c) PROVE TypeOK'
  <2>1. UNCHANGED idle \/ Touch(over[c])
    BY <1>31 DEF PipeEnds
  <2>2. idle' \in [Tunnels -> BOOLEAN]
    BY <2>1, Touched
  <2>3. QED
    BY <1>31, <2>2 DEF PipeEnds, At
<1>32. ASSUME NEW c \in Conns, Done(c) PROVE TypeOK'
  BY <1>32 DEF Done, At
<1>33. ASSUME NEW c \in Conns, Enter(c) PROVE TypeOK'
  BY <1>33 DEF Enter, At
<1>34. ASSUME NEW t \in Tunnels, ReapLook(t) PROVE TypeOK'
  BY <1>34 DEF ReapLook
<1>35. CASE UNCHANGED vars
  BY <1>35 DEF vars
<1> HIDE DEF IInv, TypeOK, StageShape, ConnShape, Stages, Closing, Places,
        Kinds, Begun
<1>36. QED
  BY <1>1, <1>2, <1>3, <1>4, <1>5, <1>6, <1>7, <1>8, <1>9, <1>10, <1>11,
     <1>12, <1>13, <1>14, <1>15, <1>16, <1>17, <1>18, <1>19, <1>20, <1>21,
     <1>22, <1>23, <1>24, <1>25, <1>26, <1>27, <1>28, <1>29, <1>30, <1>31,
     <1>32, <1>33, <1>34, <1>35
  DEF Next, Open, CloseStep, ConnStep, DialEnds

(* Every stage of opening and closing takes and gives back what it should. *)
LEMMA ShapeStep ==
  ASSUME IInv, [Next]_vars
  PROVE  StageShape'
PROOF
<1> USE TunnelsAssumption DEF IInv, TypeOK, StageShape, Stages, Closing,
        Kinds, Begun, Closed, Leased, managerVars, openVars, liveVars,
        connVars
<1>1. ASSUME NEW t \in Tunnels, NEW k \in Allowed, CheckQuota(t, k) PROVE StageShape'
  BY <1>1 DEF CheckQuota, To
<1>2. ASSUME NEW t \in Tunnels, DialFailed(t) PROVE StageShape'
  BY <1>2 DEF DialFailed, To
<1>3. ASSUME NEW t \in Tunnels, Dialled(t) PROVE StageShape'
  BY <1>3 DEF Dialled, To
<1>4. ASSUME NEW t \in Tunnels, AllocatePort(t) PROVE StageShape'
  BY <1>4 DEF AllocatePort, FreePort, To
<1>5. ASSUME NEW t \in Tunnels, NoPort(t) PROVE StageShape'
  BY <1>5 DEF NoPort, GiveUp, To
<1>6. ASSUME NEW t \in Tunnels, Bind(t) PROVE StageShape'
  BY <1>6 DEF Bind, To
<1>7. ASSUME NEW t \in Tunnels, BindFailed(t) PROVE StageShape'
  BY <1>7 DEF BindFailed, LastTry, GiveUp, To
<1>8. ASSUME NEW t \in Tunnels, ListenRemote(t) PROVE StageShape'
  BY <1>8 DEF ListenRemote, To
<1>9. ASSUME NEW t \in Tunnels, ListenRemoteFailed(t) PROVE StageShape'
  BY <1>9 DEF ListenRemoteFailed, GiveUp, To
<1>10. ASSUME NEW t \in Tunnels, Register(t) PROVE StageShape'
  BY <1>10 DEF Register, Opened, To
<1>11. ASSUME NEW t \in Tunnels, RegisterRefused(t) PROVE StageShape'
  BY <1>11 DEF RegisterRefused, Opened, To
<1>12. ASSUME NEW t \in Tunnels, CloseTunnel(t) PROVE StageShape'
  BY <1>12 DEF CloseTunnel, Found, Doom
<1>13. ASSUME NEW t \in Tunnels, CloseBegin(t) PROVE StageShape'
  BY <1>13 DEF CloseBegin, Turn, To
<1>14. ASSUME NEW t \in Tunnels, CloseListener(t) PROVE StageShape'
  BY <1>14 DEF CloseListener, To
<1>15. ASSUME NEW t \in Tunnels, Release(t) PROVE StageShape'
  BY <1>15 DEF Release, To
<1>16. ASSUME NEW t \in Tunnels, ReleasePort(t) PROVE StageShape'
  BY <1>16 DEF ReleasePort, PortOf, To
<1>17. ASSUME ReapTake PROVE StageShape'
  BY <1>17 DEF ReapTake, Doom
<1>18. ASSUME Shutdown PROVE StageShape'
  BY <1>18 DEF Shutdown, Doom
<1>19. ASSUME Aside PROVE StageShape'
  BY <1>19, AsideKeeps
<1>20. CASE UNCHANGED vars
  BY <1>20 DEF vars
<1> HIDE DEF IInv, TypeOK, StageShape, Stages, Closing, Kinds, Begun, Closed,
        Leased
<1>21. QED
  BY <1>1, <1>2, <1>3, <1>4, <1>5, <1>6, <1>7, <1>8, <1>9, <1>10, <1>11,
     <1>12, <1>13, <1>14, <1>15, <1>16, <1>17, <1>18, <1>19, <1>20
  DEF Next, Open, CloseStep, ConnStep, DialEnds, Aside

(* No tunnel that connections are over goes back to an earlier stage. *)
LEMMA ConnsStep ==
  ASSUME IInv, [Next]_vars
  PROVE  ConnShape'
PROOF
<1> USE TunnelsAssumption DEF IInv, TypeOK, StageShape, Stages, Closing,
        Kinds, Begun, Closed, Leased, ConnShape, Places, managerVars,
        openVars, liveVars, connVars
<1>1. ASSUME NEW t \in Tunnels, NEW k \in Allowed, CheckQuota(t, k) PROVE ConnShape'
  BY <1>1 DEF CheckQuota, To
<1>2. ASSUME NEW t \in Tunnels, DialFailed(t) PROVE ConnShape'
  BY <1>2 DEF DialFailed, To
<1>3. ASSUME NEW t \in Tunnels, Dialled(t) PROVE ConnShape'
  BY <1>3 DEF Dialled, To
<1>4. ASSUME NEW t \in Tunnels, AllocatePort(t) PROVE ConnShape'
  BY <1>4 DEF AllocatePort, FreePort, To
<1>5. ASSUME NEW t \in Tunnels, NoPort(t) PROVE ConnShape'
  BY <1>5 DEF NoPort, GiveUp, To
<1>6. ASSUME NEW t \in Tunnels, Bind(t) PROVE ConnShape'
  BY <1>6 DEF Bind, To
<1>7. ASSUME NEW t \in Tunnels, BindFailed(t) PROVE ConnShape'
  BY <1>7 DEF BindFailed, LastTry, GiveUp, To
<1>8. ASSUME NEW t \in Tunnels, ListenRemote(t) PROVE ConnShape'
  BY <1>8 DEF ListenRemote, To
<1>9. ASSUME NEW t \in Tunnels, ListenRemoteFailed(t) PROVE ConnShape'
  BY <1>9 DEF ListenRemoteFailed, GiveUp, To
<1>10. ASSUME NEW t \in Tunnels, Register(t) PROVE ConnShape'
  BY <1>10 DEF Register, Opened, To
<1>11. ASSUME NEW t \in Tunnels, RegisterRefused(t) PROVE ConnShape'
  BY <1>11 DEF RegisterRefused, Opened, To
<1>12. ASSUME NEW t \in Tunnels, CloseTunnel(t) PROVE ConnShape'
  BY <1>12 DEF CloseTunnel, Found, Doom
<1>13. ASSUME NEW t \in Tunnels, CloseBegin(t) PROVE ConnShape'
  BY <1>13 DEF CloseBegin, Turn, To
<1>14. ASSUME NEW t \in Tunnels, CloseListener(t) PROVE ConnShape'
  BY <1>14 DEF CloseListener, To
<1>15. ASSUME NEW t \in Tunnels, Release(t) PROVE ConnShape'
  BY <1>15 DEF Release, To
<1>16. ASSUME NEW t \in Tunnels, ReleasePort(t) PROVE ConnShape'
  BY <1>16 DEF ReleasePort, PortOf, To
<1>17. ASSUME ReapTake PROVE ConnShape'
  BY <1>17 DEF ReapTake, Doom
<1>18. ASSUME Shutdown PROVE ConnShape'
  BY <1>18 DEF Shutdown, Doom
<1>19. ASSUME NEW t \in Tunnels, AcceptExits(t) PROVE ConnShape'
  BY <1>19 DEF AcceptExits, LoopFree
<1>20. ASSUME NEW t \in Tunnels, AcceptFails(t) PROVE ConnShape'
  BY <1>20 DEF AcceptFails, LoopFree, Failed
<1>21. ASSUME NEW t \in Tunnels, Idle(t) PROVE ConnShape'
  BY <1>21 DEF Idle
<1>22. ASSUME ReaperExits PROVE ConnShape'
  BY <1>22 DEF ReaperExits
<1>23. ASSUME NEW t \in Tunnels, NEW c \in Conns, Accept(t, c) PROVE ConnShape'
  BY <1>23 DEF Accept, At, LoopFree
<1>24. ASSUME NEW t \in Tunnels, NEW c \in Conns, ProxyRequest(t, c) PROVE ConnShape'
  BY <1>24 DEF ProxyRequest, TunnelForHost, At
<1>25. ASSUME NEW c \in Conns, Count(c) PROVE ConnShape'
  BY <1>25 DEF Count, At
<1>26. ASSUME NEW c \in Conns, Serve(c) PROVE ConnShape'
  BY <1>26 DEF Serve, At, Touch
<1>27. ASSUME NEW c \in Conns, StartDial(c) PROVE ConnShape'
  BY <1>27 DEF StartDial, MayDial, At, Touch
<1>28. ASSUME NEW c \in Conns, NoDial(c) PROVE ConnShape'
  BY <1>28 DEF NoDial, At
<1>29. ASSUME NEW c \in Conns, DialOK(c) PROVE ConnShape'
  BY <1>29 DEF DialOK, At, Touch
<1>30. ASSUME NEW c \in Conns, DialFails(c) PROVE ConnShape'
  BY <1>30 DEF DialFails, At, Failed
<1>31. ASSUME NEW c \in Conns, PipeEnds(c) PROVE ConnShape'
  BY <1>31 DEF PipeEnds, At, Touch
<1>32. ASSUME NEW c \in Conns, Done(c) PROVE ConnShape'
  BY <1>32 DEF Done, At
<1>33. ASSUME NEW c \in Conns, Enter(c) PROVE ConnShape'
  BY <1>33 DEF Enter, At
<1>34. ASSUME NEW t \in Tunnels, ReapLook(t) PROVE ConnShape'
  BY <1>34 DEF ReapLook
<1>35. CASE UNCHANGED vars
  BY <1>35 DEF vars
<1> HIDE DEF IInv, TypeOK, StageShape, Stages, Closing, Kinds, Begun, Closed,
        Leased, ConnShape, Places
<1>36. QED
  BY <1>1, <1>2, <1>3, <1>4, <1>5, <1>6, <1>7, <1>8, <1>9, <1>10, <1>11,
     <1>12, <1>13, <1>14, <1>15, <1>16, <1>17, <1>18, <1>19, <1>20, <1>21,
     <1>22, <1>23, <1>24, <1>25, <1>26, <1>27, <1>28, <1>29, <1>30, <1>31,
     <1>32, <1>33, <1>34, <1>35
  DEF Next, Open, CloseStep, ConnStep, DialEnds

(* Between the reaper's two reads a connection that reaches serve touches   *)
(* the clock, and nothing sets it back.                                     *)
LEMMA LookStep ==
  ASSUME IInv, [Next]_vars
  PROVE  LookShape'
PROOF
<1> USE TunnelsAssumption DEF IInv, TypeOK, ConnShape, LookShape, Begun,
        managerVars, openVars, liveVars, connVars
<1>1. ASSUME NEW t \in Tunnels, Open(t) \/ CloseStep(t) \/ CloseTunnel(t)
      PROVE  LookShape'
  <2>1. UNCHANGED <<looking, idle, cpc, over>>
    BY <1>1
    DEF Open, CloseStep, CheckQuota, DialFailed, Dialled, AllocatePort, NoPort,
        Bind, BindFailed, ListenRemote, ListenRemoteFailed, Register,
        RegisterRefused, CloseBegin, CloseListener, Release, ReleasePort,
        CloseTunnel
  <2>2. \A u \in Tunnels : stage[u] # "unused" => kind'[u] = kind[u]
    BY <1>1
    DEF Open, CloseStep, CheckQuota, DialFailed, Dialled, AllocatePort, NoPort,
        Bind, BindFailed, ListenRemote, ListenRemoteFailed, Register,
        RegisterRefused, CloseBegin, CloseListener, Release, ReleasePort,
        CloseTunnel
  <2>3. QED
    BY <2>1, <2>2
<1>2. ASSUME NEW t \in Tunnels, ReapLook(t) PROVE LookShape'
  BY <1>2 DEF ReapLook, Active, On
<1>3. ASSUME ReapTake PROVE LookShape'
  BY <1>3 DEF ReapTake
<1>4. ASSUME Shutdown PROVE LookShape'
  BY <1>4 DEF Shutdown
<1>5. ASSUME ReaperExits PROVE LookShape'
  BY <1>5 DEF ReaperExits
<1>6. ASSUME NEW t \in Tunnels, AcceptExits(t) \/ AcceptFails(t) PROVE LookShape'
  BY <1>6 DEF AcceptExits, AcceptFails
<1>7. ASSUME NEW t \in Tunnels, Idle(t) PROVE LookShape'
  BY <1>7 DEF Idle
<1>8. ASSUME NEW t \in Tunnels, NEW c \in Conns, Accept(t, c) PROVE LookShape'
  BY <1>8 DEF Accept, At
<1>9. ASSUME NEW t \in Tunnels, NEW c \in Conns, ProxyRequest(t, c) PROVE LookShape'
  BY <1>9 DEF ProxyRequest, TunnelForHost, At
<1>10. ASSUME NEW c \in Conns, Count(c) PROVE LookShape'
  BY <1>10 DEF Count, At
<1>11. ASSUME NEW c \in Conns, Enter(c) PROVE LookShape'
  BY <1>11 DEF Enter, At
<1>12. ASSUME NEW c \in Conns, Serve(c) PROVE LookShape'
  BY <1>12 DEF Serve, At, Touch
<1>13. ASSUME NEW c \in Conns, StartDial(c) PROVE LookShape'
  BY <1>13 DEF StartDial, At, Touch
<1>14. ASSUME NEW c \in Conns, NoDial(c) PROVE LookShape'
  BY <1>14 DEF NoDial, At
<1>15. ASSUME NEW c \in Conns, DialOK(c) PROVE LookShape'
  BY <1>15 DEF DialOK, At, Touch
<1>16. ASSUME NEW c \in Conns, DialFails(c) PROVE LookShape'
  BY <1>16 DEF DialFails, At
<1>17. ASSUME NEW c \in Conns, PipeEnds(c) PROVE LookShape'
  BY <1>17 DEF PipeEnds, At, Touch
<1>18. ASSUME NEW c \in Conns, Done(c) PROVE LookShape'
  BY <1>18 DEF Done, At
<1>19. CASE UNCHANGED vars
  BY <1>19 DEF vars
<1> HIDE DEF IInv, TypeOK, ConnShape, LookShape, Begun
<1>20. QED
  BY <1>1, <1>2, <1>3, <1>4, <1>5, <1>6, <1>7, <1>8, <1>9, <1>10, <1>11,
     <1>12, <1>13, <1>14, <1>15, <1>16, <1>17, <1>18, <1>19
  DEF Next, ConnStep, DialEnds

(* allocatePort takes a port nobody has; the retries of listen and forget *)
(* give back the tunnel's own.                                            *)
LEMMA PortsStep ==
  ASSUME IInv, [Next]_vars
  PROVE  PortsAccounted'
PROOF
<1> USE TunnelsAssumption DEF IInv, TypeOK, StageShape, PortsAccounted,
        PortsExclusive, PortsReturned, HasPort, Closing, managerVars,
        openVars, liveVars, connVars
<1>1. ASSUME NEW t \in Tunnels, NEW k \in Allowed, CheckQuota(t, k) PROVE PortsAccounted'
  BY <1>1 DEF CheckQuota, To
<1>2. ASSUME NEW t \in Tunnels, DialFailed(t) PROVE PortsAccounted'
  BY <1>2 DEF DialFailed, To
<1>3. ASSUME NEW t \in Tunnels, Dialled(t) PROVE PortsAccounted'
  BY <1>3 DEF Dialled, To
<1>4. ASSUME NEW t \in Tunnels, AllocatePort(t) PROVE PortsAccounted'
  BY <1>4 DEF AllocatePort, FreePort, To
<1>5. ASSUME NEW t \in Tunnels, NoPort(t) PROVE PortsAccounted'
  BY <1>5 DEF NoPort, GiveUp, To
<1>6. ASSUME NEW t \in Tunnels, Bind(t) PROVE PortsAccounted'
  BY <1>6 DEF Bind, To
<1>7. ASSUME NEW t \in Tunnels, BindFailed(t) PROVE PortsAccounted'
  BY <1>7 DEF BindFailed, LastTry, GiveUp, To
<1>8. ASSUME NEW t \in Tunnels, ListenRemote(t) PROVE PortsAccounted'
  BY <1>8 DEF ListenRemote, To
<1>9. ASSUME NEW t \in Tunnels, ListenRemoteFailed(t) PROVE PortsAccounted'
  BY <1>9 DEF ListenRemoteFailed, GiveUp, To
<1>10. ASSUME NEW t \in Tunnels, Register(t) PROVE PortsAccounted'
  BY <1>10 DEF Register, Opened, To
<1>11. ASSUME NEW t \in Tunnels, RegisterRefused(t) PROVE PortsAccounted'
  BY <1>11 DEF RegisterRefused, Opened, To
<1>12. ASSUME NEW t \in Tunnels, CloseTunnel(t) PROVE PortsAccounted'
  BY <1>12 DEF CloseTunnel, Found, Doom
<1>13. ASSUME NEW t \in Tunnels, CloseBegin(t) PROVE PortsAccounted'
  BY <1>13 DEF CloseBegin, Turn, To
<1>14. ASSUME NEW t \in Tunnels, CloseListener(t) PROVE PortsAccounted'
  BY <1>14 DEF CloseListener, To
<1>15. ASSUME NEW t \in Tunnels, Release(t) PROVE PortsAccounted'
  BY <1>15 DEF Release, To
<1>16. ASSUME NEW t \in Tunnels, ReleasePort(t) PROVE PortsAccounted'
  BY <1>16 DEF ReleasePort, PortOf, To
<1>17. ASSUME ReapTake PROVE PortsAccounted'
  BY <1>17 DEF ReapTake, Doom
<1>18. ASSUME Shutdown PROVE PortsAccounted'
  BY <1>18 DEF Shutdown, Doom
<1>19. ASSUME Aside PROVE PortsAccounted'
  BY <1>19, AsideKeeps
<1>20. CASE UNCHANGED vars
  BY <1>20 DEF vars
<1> HIDE DEF IInv, TypeOK, StageShape, PortsAccounted, PortsExclusive,
        PortsReturned, HasPort, Closing
<1>21. QED
  BY <1>1, <1>2, <1>3, <1>4, <1>5, <1>6, <1>7, <1>8, <1>9, <1>10, <1>11,
     <1>12, <1>13, <1>14, <1>15, <1>16, <1>17, <1>18, <1>19, <1>20
  DEF Next, Open, CloseStep, ConnStep, DialEnds, Aside

(* The wait of close covers what is being copied, and what it does not     *)
(* cover finds its context over.                                           *)
LEMMA ForwardsStep ==
  ASSUME IInv, [Next]_vars
  PROVE  ForwardsHaveLease'
PROOF
<1> USE TunnelsAssumption DEF IInv, TypeOK, StageShape, ConnShape,
        ForwardsHaveLease, Places, Stages, Begun, Closed, Leased, Closing,
        managerVars, openVars, liveVars, connVars
<1>1. ASSUME NEW t \in Tunnels, NEW k \in Allowed, CheckQuota(t, k) PROVE ForwardsHaveLease'
  BY <1>1 DEF CheckQuota, To
<1>2. ASSUME NEW t \in Tunnels, DialFailed(t) PROVE ForwardsHaveLease'
  BY <1>2 DEF DialFailed, To
<1>3. ASSUME NEW t \in Tunnels, Dialled(t) PROVE ForwardsHaveLease'
  BY <1>3 DEF Dialled, To
<1>4. ASSUME NEW t \in Tunnels, AllocatePort(t) PROVE ForwardsHaveLease'
  BY <1>4 DEF AllocatePort, FreePort, To
<1>5. ASSUME NEW t \in Tunnels, NoPort(t) PROVE ForwardsHaveLease'
  BY <1>5 DEF NoPort, GiveUp, To
<1>6. ASSUME NEW t \in Tunnels, Bind(t) PROVE ForwardsHaveLease'
  BY <1>6 DEF Bind, To
<1>7. ASSUME NEW t \in Tunnels, BindFailed(t) PROVE ForwardsHaveLease'
  BY <1>7 DEF BindFailed, LastTry, GiveUp, To
<1>8. ASSUME NEW t \in Tunnels, ListenRemote(t) PROVE ForwardsHaveLease'
  BY <1>8 DEF ListenRemote, To
<1>9. ASSUME NEW t \in Tunnels, ListenRemoteFailed(t) PROVE ForwardsHaveLease'
  BY <1>9 DEF ListenRemoteFailed, GiveUp, To
<1>10. ASSUME NEW t \in Tunnels, Register(t) PROVE ForwardsHaveLease'
  BY <1>10 DEF Register, Opened, To
<1>11. ASSUME NEW t \in Tunnels, RegisterRefused(t) PROVE ForwardsHaveLease'
  BY <1>11 DEF RegisterRefused, Opened, To
<1>12. ASSUME NEW t \in Tunnels, CloseTunnel(t) PROVE ForwardsHaveLease'
  BY <1>12 DEF CloseTunnel, Found, Doom
<1>13. ASSUME NEW t \in Tunnels, CloseBegin(t) PROVE ForwardsHaveLease'
  BY <1>13 DEF CloseBegin, Turn, To
<1>14. ASSUME NEW t \in Tunnels, CloseListener(t) PROVE ForwardsHaveLease'
  BY <1>14 DEF CloseListener, To
<1>15. ASSUME NEW t \in Tunnels, Release(t) PROVE ForwardsHaveLease'
  BY <1>15 DEF Release, Drained, Live, On, To
<1>16. ASSUME NEW t \in Tunnels, ReleasePort(t) PROVE ForwardsHaveLease'
  BY <1>16 DEF ReleasePort, PortOf, To
<1>17. ASSUME ReapTake PROVE ForwardsHaveLease'
  BY <1>17 DEF ReapTake, Doom
<1>18. ASSUME Shutdown PROVE ForwardsHaveLease'
  BY <1>18 DEF Shutdown, Doom
<1>19. ASSUME NEW t \in Tunnels, AcceptExits(t) PROVE ForwardsHaveLease'
  BY <1>19 DEF AcceptExits, LoopFree
<1>20. ASSUME NEW t \in Tunnels, AcceptFails(t) PROVE ForwardsHaveLease'
  BY <1>20 DEF AcceptFails, LoopFree, Failed
<1>21. ASSUME NEW t \in Tunnels, Idle(t) PROVE ForwardsHaveLease'
  BY <1>21 DEF Idle
<1>22. ASSUME ReaperExits PROVE ForwardsHaveLease'
  BY <1>22 DEF ReaperExits
<1>23. ASSUME NEW t \in Tunnels, NEW c \in Conns, Accept(t, c) PROVE ForwardsHaveLease'
  BY <1>23 DEF Accept, At, LoopFree
<1>24. ASSUME NEW t \in Tunnels, NEW c \in Conns, ProxyRequest(t, c) PROVE ForwardsHaveLease'
  BY <1>24 DEF ProxyRequest, TunnelForHost, At
<1>25. ASSUME NEW c \in Conns, Count(c) PROVE ForwardsHaveLease'
  BY <1>25 DEF Count, At
<1>26. ASSUME NEW c \in Conns, Serve(c) PROVE ForwardsHaveLease'
  BY <1>26 DEF Serve, At, Touch
<1>27. ASSUME NEW c \in Conns, StartDial(c) PROVE ForwardsHaveLease'
  <2>1. kind[over[c]] = "web" \/ lease[over[c]]
    BY <1>27 DEF StartDial, MayDial
  <2>2. \A d \in Conns \ {c} : cpc'[d] = cpc[d]
    BY <1>27 DEF StartDial, At
  <2>3. UNCHANGED <<stage, kind, lease, over>>
    BY <1>27 DEF StartDial
  <2>4. QED
    BY <2>1, <2>2, <2>3
<1>28. ASSUME NEW c \in Conns, NoDial(c) PROVE ForwardsHaveLease'
  BY <1>28 DEF NoDial, At
<1>29. ASSUME NEW c \in Conns, DialOK(c) PROVE ForwardsHaveLease'
  BY <1>29 DEF DialOK, At, Touch
<1>30. ASSUME NEW c \in Conns, DialFails(c) PROVE ForwardsHaveLease'
  BY <1>30 DEF DialFails, At, Failed
<1>31. ASSUME NEW c \in Conns, PipeEnds(c) PROVE ForwardsHaveLease'
  BY <1>31 DEF PipeEnds, At, Touch
<1>32. ASSUME NEW c \in Conns, Done(c) PROVE ForwardsHaveLease'
  BY <1>32 DEF Done, At
<1>33. ASSUME NEW c \in Conns, Enter(c) PROVE ForwardsHaveLease'
  BY <1>33 DEF Enter, At
<1>34. ASSUME NEW t \in Tunnels, ReapLook(t) PROVE ForwardsHaveLease'
  BY <1>34 DEF ReapLook
<1>35. CASE UNCHANGED vars
  BY <1>35 DEF vars
<1> HIDE DEF IInv, TypeOK, StageShape, ConnShape, ForwardsHaveLease, Places,
        Stages, Begun, Closed, Leased, Closing
<1>36. QED
  BY <1>1, <1>2, <1>3, <1>4, <1>5, <1>6, <1>7, <1>8, <1>9, <1>10, <1>11,
     <1>12, <1>13, <1>14, <1>15, <1>16, <1>17, <1>18, <1>19, <1>20, <1>21,
     <1>22, <1>23, <1>24, <1>25, <1>26, <1>27, <1>28, <1>29, <1>30, <1>31,
     <1>32, <1>33, <1>34, <1>35
  DEF Next, Open, CloseStep, ConnStep, DialEnds

(* The manager starts with no tunnels. *)
LEMMA InitIInv == Init => IInv
PROOF
<1> SUFFICES ASSUME Init PROVE IInv
  OBVIOUS
<1> USE TunnelsAssumption DEF Init
<1>1. TypeOK
  <2>1. /\ closed \in BOOLEAN /\ tunnels \subseteq Tunnels /\ ports \subseteq Ports
        /\ stage \in [Tunnels -> Stages] /\ cpc \in [Conns -> Places]
    BY DEF Stages, Places
  <2>2. tries \in [Tunnels -> 0..Attempts]
    OBVIOUS
  <2>3. QED
    BY <2>1, <2>2 DEF TypeOK
<1>2. StageShape /\ ConnShape /\ LookShape
  BY DEF StageShape, ConnShape, LookShape, Begun, Closed, Leased
<1>3. PortsAccounted /\ ForwardsHaveLease
  BY DEF PortsAccounted, PortsExclusive, PortsReturned, HasPort,
         ForwardsHaveLease
<1>4. QED
  BY <1>1, <1>2, <1>3 DEF IInv

(* Every step of Open, close, the reaper, Shutdown, an accept loop or a      *)
(* forwarded connection keeps it.                                            *)
LEMMA StepIInv == IInv /\ [Next]_vars => IInv'
  BY TypesStep, ShapeStep, ConnsStep, LookStep, PortsStep, ForwardsStep DEF IInv

(* So it holds throughout. *)
LEMMA SpecIInv == Spec => []IInv
  BY InitIInv, StepIInv, PTL DEF Spec

(* Tunnels are well formed in every reachable state; in particular listen    *)
(* stops after listenAttempts tries.                                         *)
THEOREM TypeCorrect == Spec => []TypeOK
<1>1. IInv => TypeOK
  BY DEF IInv
<1>2. QED
  BY <1>1, SpecIInv, PTL

(* m.ports is exactly the ports tunnels have, whatever Open, its retries,    *)
(* close, the reaper and Shutdown do at once: no port is in two tunnels'     *)
(* hands, none is freed under its tunnel, none is lost while the manager     *)
(* runs.                                                                     *)
THEOREM PortsAlwaysAccounted == Spec => []PortsAccounted
<1>1. IInv => PortsAccounted
  BY DEF IInv
<1>2. QED
  BY <1>1, SpecIInv, PTL

(* A tunnel has its connection and its listener while it is used and not a   *)
(* moment longer: every failure of Open and every close gives both back, and *)
(* nothing is copied over a connection already given back.                   *)
THEOREM AlwaysHeldWhileUsed == Spec => []HeldWhileUsed
<1>1. IInv => HeldWhileUsed
  BY DEF IInv, HeldWhileUsed, NothingHeld, StageShape, Leased
<1>2. QED
  BY <1>1, SpecIInv, PTL

(* reapOnce never takes a tunnel from under a connection that has come as    *)
(* far as serve, although it reads the count and the clock one after the     *)
(* other and connections arrive in between (LookShape).                      *)
THEOREM ReaperAlwaysSpares == Spec => ReaperSparesActive
PROOF
<1> DEFINE Spares == \A c \in Conns :
             cpc[c] \in {"asking", "dialling", "piping"}
               /\ kind[over[c]] # "web" /\ over[c] \in tunnels
               /\ over[c] \notin tunnels' => by'[over[c]] # "reaper"
<1>1. ASSUME IInv, [Next]_vars PROVE Spares \/ UNCHANGED vars
  <2> USE <1>1 DEF IInv
  <2>1. ASSUME tunnels \subseteq tunnels' PROVE Spares
    BY <2>1
  <2>2. ASSUME NEW t \in Tunnels, CloseTunnel(t) PROVE Spares
    BY <2>2 DEF CloseTunnel, Doom, TypeOK
  <2>3. ASSUME ReapTake PROVE Spares
    BY <2>3, TunnelsAssumption DEF ReapTake, Doom, LookShape, TypeOK
  <2>4. ASSUME Shutdown PROVE Spares
    BY <2>4 DEF Shutdown, Doom, TypeOK
  <2>5. ASSUME NEW t \in Tunnels, Open(t) \/ CloseStep(t) PROVE Spares
    BY <2>1, <2>5
    DEF Open, CloseStep, CheckQuota, DialFailed, Dialled, AllocatePort, NoPort,
        Bind, BindFailed, ListenRemote, ListenRemoteFailed, Register,
        RegisterRefused, CloseBegin, CloseListener, Release, ReleasePort,
        managerVars
  <2>6. ASSUME Aside PROVE Spares
    BY <2>1, <2>6, AsideKeeps
  <2> HIDE DEF Spares
  <2>7. QED
    BY <2>2, <2>3, <2>4, <2>5, <2>6 DEF Next, Aside
<1>2. QED
  BY <1>1, SpecIInv, PTL DEF Spec, ReaperSparesActive

=============================================================================
