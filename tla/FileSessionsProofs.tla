------------------------- MODULE FileSessionsProofs -------------------------
(***************************************************************************)
(* Proofs about FileSessions, for any sets of connections, sessions and    *)
(* requests: no connection a session holds is forgotten or given back      *)
(* twice, and the manager implements FileAccess.                           *)
(***************************************************************************)
EXTENDS FileSessions, FiniteSetTheorems, TLAPS

(***************************************************************************)
(* The inductive invariant.  NoLeaseForgotten counts the goroutines that   *)
(* answer for a session; its induction needs who they are, that marking a  *)
(* session closed moves it from the first half of Session.close to the     *)
(* second, and that the map's entries are live and each its own.           *)
(***************************************************************************)
Holds(k, s) == \/ s \in closing[k]
               \/ s \in releasing[k]
               \/ k \in Requests /\ pc[k] = s

InMap(s) == \E c \in Conns : sessions[c] = s

(* A session's connection is held as long as the map or a goroutine has it. *)
Leased == \A s \in Sessions :
  lease[s] <=> InMap(s) \/ \E k \in Closers : Holds(k, s)

(* Nobody holds what the map has, and no two goroutines hold the same. *)
OneHolder ==
  /\ \A s \in Sessions, k \in Closers : Holds(k, s) => ~InMap(s)
  /\ \A s \in Sessions, j, k \in Closers : Holds(j, s) /\ Holds(k, s) => j = k

(* A goroutine holds a session in one way: dialled, to close or to release. *)
Halves ==
  /\ \A k \in Closers, s \in Sessions :
       /\ s \in closing[k] => ~shut[s]
       /\ s \in releasing[k] => shut[s]
  /\ \A r \in Requests, s \in Sessions :
       pc[r] = s => ~shut[s] /\ s \notin closing[r]

(* The map's entries are live sessions of their own connections. *)
MapSound ==
  \A c \in Conns : sessions[c] # None => /\ conn[sessions[c]] = c
                                         /\ ~shut[sessions[c]]

(* A session is made by a dial, for the connection the request is about. *)
Made ==
  /\ \A s \in Sessions : conn[s] = None => ~lease[s] /\ ~shut[s]
  /\ \A r \in Requests : pc[r] # "idle" => want[r] \in Conns
  /\ \A r \in Requests, s \in Sessions : pc[r] = s => conn[s] = want[r]

(* Shutdown closes nothing before it begins. *)
ShutdownOnce == ~closed => closing[Shutdown] = {}

IInv == /\ TypeOK /\ Leased /\ OneHolder /\ Halves
        /\ MapSound /\ Made /\ ShutdownOnce
-----------------------------------------------------------------------------
(* Open's first critical section finds the entry it forgets already gone:  *)
(* the map never holds a closed session, so deleting a dead one there      *)
(* (manager.go 179) changes nothing.                                       *)
LEMMA CheckEffect ==
  ASSUME IInv, NEW r \in Requests, OpenCheck(r)
  PROVE  /\ sessions' = sessions /\ pc[r] = "opening"
         /\ \/ /\ pc' = [pc EXCEPT ![r] = "idle"]
               /\ want' = [want EXCEPT ![r] = None]
            \/ /\ pc' = [pc EXCEPT ![r] = "dialling"]
               /\ want' = want
         /\ idle' \in [Sessions -> BOOLEAN]
         /\ UNCHANGED <<closed, stop, reaper, objectVars, closeVars>>
PROOF
<1>1. want[r] \in Conns /\ (~Found(want[r]) => sessions[want[r]] = None)
  BY FileSessionsAssumption
     DEF IInv, TypeOK, MapSound, Made, OpenCheck, Found, managerVars
<1>2. sessions' = sessions
  BY <1>1 DEF OpenCheck, IInv, TypeOK
<1>3. idle' \in [Sessions -> BOOLEAN]
  BY DEF OpenCheck, Touch, IInv, TypeOK
<1>4. QED
  BY <1>2, <1>3 DEF OpenCheck, Answer

(* Nor does it take a session into anybody's hands. *)
LEMMA CheckHolds ==
  ASSUME IInv, NEW r \in Requests, OpenCheck(r)
  PROVE  \A k \in Closers, s \in Sessions : Holds(k, s)' <=> Holds(k, s)
  BY CheckEffect, FileSessionsAssumption
  DEF IInv, TypeOK, Holds, Closers, closeVars

(* Every action keeps the types. *)
LEMMA TypesStep ==
  ASSUME IInv, [Next]_vars
  PROVE  TypeOK'
PROOF
<1> USE FileSessionsAssumption DEF managerVars, objectVars, closeVars,
        requestVars, IInv, TypeOK, Closers, Made
<1>1. ASSUME NEW r \in Requests, NEW c \in Conns, OpenExisting(r, c) PROVE TypeOK'
  BY <1>1 DEF OpenExisting, Touch
<1>2. ASSUME NEW r \in Requests, NEW c \in Conns, OpenMissing(r, c) PROVE TypeOK'
  BY <1>2 DEF OpenMissing
<1>3. ASSUME NEW r \in Requests, NEW c \in Conns, Close(r, c) PROVE TypeOK'
  BY <1>3 DEF Close
<1>4. ASSUME NEW r \in Requests, OpenCheck(r) PROVE TypeOK'
  BY <1>4, CheckEffect DEF objectVars, closeVars
<1>5. ASSUME NEW r \in Requests, DialFails(r) PROVE TypeOK'
  BY <1>5 DEF DialFails, Answer
<1>6. ASSUME NEW r \in Requests, NEW s \in Sessions, Dialled(r, s) PROVE TypeOK'
  BY <1>6 DEF Dialled, Touch
<1>7. ASSUME NEW r \in Requests, NEW s \in Sessions, Register(r, s) PROVE TypeOK'
  BY <1>7 DEF Register, Answer
<1>8. ASSUME NEW k \in Closers, NEW s \in Sessions, MarkClosed(k, s) PROVE TypeOK'
  BY <1>8 DEF MarkClosed
<1>9. ASSUME NEW k \in Closers, NEW s \in Sessions, Release(k, s) PROVE TypeOK'
  BY <1>9 DEF Release
<1>10. ASSUME ReapOnce PROVE TypeOK'
  BY <1>10 DEF ReapOnce, Stale, Registered
<1>11. ASSUME BeginShutdown PROVE TypeOK'
  BY <1>11 DEF BeginShutdown, Registered
<1>12. ASSUME ReaperExits PROVE TypeOK'
  BY <1>12 DEF ReaperExits
<1>13. ASSUME NEW s \in Sessions, Tick(s) PROVE TypeOK'
  BY <1>13 DEF Tick
<1>14. CASE UNCHANGED vars
  BY <1>14 DEF vars
<1> HIDE DEF IInv, TypeOK, Closers, Made
<1>15. QED
  BY <1>1, <1>2, <1>3, <1>4, <1>5, <1>6, <1>7, <1>8, <1>9, <1>10, <1>11,
     <1>12, <1>13, <1>14
  DEF Next

(* No action gives back what someone has, or drops what is held. *)
LEMMA LeasedStep ==
  ASSUME IInv, [Next]_vars
  PROVE  Leased'
PROOF
<1> USE FileSessionsAssumption DEF managerVars, objectVars, closeVars,
        requestVars, IInv, TypeOK, Closers, Leased, OneHolder, Halves,
        MapSound, Made, ShutdownOnce, Holds, InMap, Busy
<1>1. ASSUME NEW r \in Requests, NEW c \in Conns, OpenExisting(r, c) PROVE Leased'
  BY <1>1 DEF OpenExisting, Touch
<1>2. ASSUME NEW r \in Requests, NEW c \in Conns, OpenMissing(r, c) PROVE Leased'
  BY <1>2 DEF OpenMissing
<1>3. ASSUME NEW r \in Requests, NEW c \in Conns, Close(r, c) PROVE Leased'
  <2>1. \A s \in Sessions, k \in Closers :
          Holds(k, s)' <=> Holds(k, s) \/ (k = r /\ s = sessions[c])
    BY <1>3 DEF Close
  <2>2. lease' = lease /\ sessions[c] \in Sessions
        /\ \A s \in Sessions : InMap(s)' <=> InMap(s) /\ s # sessions[c]
    BY <1>3 DEF Close
  <2>3. InMap(sessions[c])
    BY <2>2
  <2> HIDE DEF TypeOK, Holds, InMap, OneHolder, MapSound, Made, Halves, ShutdownOnce
  <2>4. QED
    BY <2>1, <2>2, <2>3
<1>4. ASSUME NEW r \in Requests, OpenCheck(r) PROVE Leased'
  <2>1. \A s \in Sessions : InMap(s)' <=> InMap(s)
    BY <1>4, CheckEffect
  <2>2. lease' = lease
    BY <1>4, CheckEffect DEF objectVars
  <2> HIDE DEF TypeOK, Holds, InMap, MapSound, Made, Halves
  <2>3. QED
    BY <1>4, <2>1, <2>2, CheckHolds
<1>5. ASSUME NEW r \in Requests, DialFails(r) PROVE Leased'
  <2>1. \A s \in Sessions, k \in Closers : Holds(k, s)' <=> Holds(k, s)
    BY <1>5 DEF DialFails, Answer
  <2>2. lease' = lease /\ \A s \in Sessions : InMap(s)' <=> InMap(s)
    BY <1>5 DEF DialFails
  <2> HIDE DEF TypeOK, Holds, InMap, OneHolder, MapSound, Made, Halves, ShutdownOnce
  <2>3. QED
    BY <2>1, <2>2
<1>6. ASSUME NEW r \in Requests, NEW s \in Sessions, Dialled(r, s) PROVE Leased'
  <2>1. \A x \in Sessions, k \in Closers :
          Holds(k, x)' <=> Holds(k, x) \/ (k = r /\ x = s)
    BY <1>6 DEF Dialled
  <2>2. /\ lease' = [lease EXCEPT ![s] = TRUE] /\ lease \in [Sessions -> BOOLEAN]
        /\ r \in Closers /\ \A x \in Sessions : InMap(x)' <=> InMap(x)
    BY <1>6 DEF Dialled
  <2> HIDE DEF TypeOK, Holds, InMap, OneHolder, MapSound, Made, Halves, ShutdownOnce
  <2>3. QED
    BY <2>1, <2>2
<1>7. ASSUME NEW r \in Requests, NEW s \in Sessions, Register(r, s) PROVE Leased'
  BY <1>7 DEF Register, Answer
<1>8. ASSUME NEW k \in Closers, NEW s \in Sessions, MarkClosed(k, s) PROVE Leased'
  BY <1>8 DEF MarkClosed
<1>9. ASSUME NEW k \in Closers, NEW s \in Sessions, Release(k, s) PROVE Leased'
  <2>1. \A x \in Sessions, j \in Closers :
          Holds(j, x)' <=> Holds(j, x) /\ ~(j = k /\ x = s)
    BY <1>9 DEF Release
  <2>2. /\ lease' = [lease EXCEPT ![s] = FALSE] /\ lease \in [Sessions -> BOOLEAN]
        /\ Holds(k, s) /\ \A x \in Sessions : InMap(x)' <=> InMap(x)
    BY <1>9 DEF Release
  <2> HIDE DEF TypeOK, Holds, InMap, MapSound, Made, Halves, ShutdownOnce
  <2>3. QED
    BY <2>1, <2>2
<1>10. ASSUME ReapOnce PROVE Leased'
  <2>1. \A s \in Sessions, k \in Closers :
          Holds(k, s)' <=> Holds(k, s) \/ (k = Reaper /\ InMap(s) /\ idle[s])
    BY <1>10 DEF ReapOnce, Stale, Registered
  <2>2. lease' = lease /\ \A s \in Sessions : InMap(s)' <=> InMap(s) /\ ~idle[s]
    BY <1>10 DEF ReapOnce, Stale, Registered
  <2> HIDE DEF TypeOK, Holds, InMap, OneHolder, MapSound, Made, Halves, ShutdownOnce
  <2>3. QED
    BY <2>1, <2>2
<1>11. ASSUME BeginShutdown PROVE Leased'
  <2>1. \A s \in Sessions, k \in Closers :
          Holds(k, s)' <=> Holds(k, s) \/ (k = Shutdown /\ InMap(s))
    BY <1>11 DEF BeginShutdown, Registered
  <2>2. lease' = lease /\ \A s \in Sessions : ~InMap(s)'
    BY <1>11 DEF BeginShutdown
  <2> HIDE DEF TypeOK, Holds, InMap, OneHolder, MapSound, Made, Halves, ShutdownOnce
  <2>3. QED
    BY <2>1, <2>2
<1>12. ASSUME ReaperExits PROVE Leased'
  BY <1>12 DEF ReaperExits
<1>13. ASSUME NEW s \in Sessions, Tick(s) PROVE Leased'
  <2> HIDE DEF TypeOK, MapSound, Made, Halves, ShutdownOnce
  <2>1. QED
    BY <1>13 DEF Tick
<1>14. CASE UNCHANGED vars
  BY <1>14 DEF vars
<1> HIDE DEF IInv, TypeOK, Closers, Leased, OneHolder, Halves, MapSound, Made,
        ShutdownOnce, Holds, InMap, Busy
<1>15. QED
  BY <1>1, <1>2, <1>3, <1>4, <1>5, <1>6, <1>7, <1>8, <1>9, <1>10, <1>11,
     <1>12, <1>13, <1>14
  DEF Next

(* Every action that takes a session takes it from the map or from itself. *)
LEMMA HolderStep ==
  ASSUME IInv, [Next]_vars
  PROVE  OneHolder'
PROOF
<1> USE FileSessionsAssumption DEF managerVars, objectVars, closeVars,
        requestVars, IInv, TypeOK, Closers, Leased, OneHolder, Halves,
        MapSound, Made, ShutdownOnce, Holds, InMap, Busy
<1>1. ASSUME NEW r \in Requests, NEW c \in Conns, OpenExisting(r, c) PROVE OneHolder'
  BY <1>1 DEF OpenExisting, Touch
<1>2. ASSUME NEW r \in Requests, NEW c \in Conns, OpenMissing(r, c) PROVE OneHolder'
  BY <1>2 DEF OpenMissing
<1>3. ASSUME NEW r \in Requests, NEW c \in Conns, Close(r, c) PROVE OneHolder'
  BY <1>3 DEF Close
<1>4. ASSUME NEW r \in Requests, OpenCheck(r) PROVE OneHolder'
  <2>1. \A s \in Sessions : InMap(s)' <=> InMap(s)
    BY <1>4, CheckEffect
  <2> HIDE DEF TypeOK, Holds, InMap, MapSound, Made, Halves
  <2>3. QED
    BY <1>4, <2>1, CheckHolds
<1>5. ASSUME NEW r \in Requests, DialFails(r) PROVE OneHolder'
  BY <1>5 DEF DialFails, Answer
<1>6. ASSUME NEW r \in Requests, NEW s \in Sessions, Dialled(r, s) PROVE OneHolder'
  BY <1>6 DEF Dialled, Touch
<1>7. ASSUME NEW r \in Requests, NEW s \in Sessions, Register(r, s) PROVE OneHolder'
  BY <1>7 DEF Register, Answer
<1>8. ASSUME NEW k \in Closers, NEW s \in Sessions, MarkClosed(k, s) PROVE OneHolder'
  BY <1>8 DEF MarkClosed
<1>9. ASSUME NEW k \in Closers, NEW s \in Sessions, Release(k, s) PROVE OneHolder'
  BY <1>9 DEF Release
<1>10. ASSUME ReapOnce PROVE OneHolder'
  BY <1>10 DEF ReapOnce, Stale, Registered
<1>11. ASSUME BeginShutdown PROVE OneHolder'
  BY <1>11 DEF BeginShutdown, Registered
<1>12. ASSUME ReaperExits PROVE OneHolder'
  BY <1>12 DEF ReaperExits
<1>13. ASSUME NEW s \in Sessions, Tick(s) PROVE OneHolder'
  BY <1>13 DEF Tick
<1>14. CASE UNCHANGED vars
  BY <1>14 DEF vars
<1> HIDE DEF IInv, TypeOK, Closers, Leased, OneHolder, Halves, MapSound, Made,
        ShutdownOnce, Holds, InMap, Busy
<1>15. QED
  BY <1>1, <1>2, <1>3, <1>4, <1>5, <1>6, <1>7, <1>8, <1>9, <1>10, <1>11,
     <1>12, <1>13, <1>14
  DEF Next

(* Session.close marks before it releases, and only its first call does. *)
LEMMA HalvesStep ==
  ASSUME IInv, [Next]_vars
  PROVE  Halves'
PROOF
<1> USE FileSessionsAssumption DEF managerVars, objectVars, closeVars,
        requestVars, IInv, TypeOK, Closers, Leased, OneHolder, Halves,
        MapSound, Made, ShutdownOnce, Holds, InMap, Busy
<1>1. ASSUME NEW r \in Requests, NEW c \in Conns, OpenExisting(r, c) PROVE Halves'
  BY <1>1 DEF OpenExisting, Touch
<1>2. ASSUME NEW r \in Requests, NEW c \in Conns, OpenMissing(r, c) PROVE Halves'
  BY <1>2 DEF OpenMissing
<1>3. ASSUME NEW r \in Requests, NEW c \in Conns, Close(r, c) PROVE Halves'
  BY <1>3 DEF Close
<1>4. ASSUME NEW r \in Requests, OpenCheck(r) PROVE Halves'
  <2>1. /\ shut' = shut /\ closing' = closing /\ releasing' = releasing
        /\ \A q \in Requests : pc'[q] = pc[q] \/ pc'[q] \in {"idle", "dialling"}
    BY <1>4, CheckEffect DEF objectVars, closeVars
  <2> HIDE DEF TypeOK, Leased, OneHolder, MapSound, Made, Holds, InMap
  <2>2. QED
    BY <2>1
<1>5. ASSUME NEW r \in Requests, DialFails(r) PROVE Halves'
  BY <1>5 DEF DialFails, Answer
<1>6. ASSUME NEW r \in Requests, NEW s \in Sessions, Dialled(r, s) PROVE Halves'
  BY <1>6 DEF Dialled, Touch
<1>7. ASSUME NEW r \in Requests, NEW s \in Sessions, Register(r, s) PROVE Halves'
  BY <1>7 DEF Register, Answer
<1>8. ASSUME NEW k \in Closers, NEW s \in Sessions, MarkClosed(k, s) PROVE Halves'
  BY <1>8 DEF MarkClosed
<1>9. ASSUME NEW k \in Closers, NEW s \in Sessions, Release(k, s) PROVE Halves'
  BY <1>9 DEF Release
<1>10. ASSUME ReapOnce PROVE Halves'
  BY <1>10 DEF ReapOnce, Stale, Registered
<1>11. ASSUME BeginShutdown PROVE Halves'
  BY <1>11 DEF BeginShutdown, Registered
<1>12. ASSUME ReaperExits PROVE Halves'
  BY <1>12 DEF ReaperExits
<1>13. ASSUME NEW s \in Sessions, Tick(s) PROVE Halves'
  BY <1>13 DEF Tick
<1>14. CASE UNCHANGED vars
  BY <1>14 DEF vars
<1> HIDE DEF IInv, TypeOK, Closers, Leased, OneHolder, Halves, MapSound, Made,
        ShutdownOnce, Holds, InMap, Busy
<1>15. QED
  BY <1>1, <1>2, <1>3, <1>4, <1>5, <1>6, <1>7, <1>8, <1>9, <1>10, <1>11,
     <1>12, <1>13, <1>14
  DEF Next

(* Open puts a live session under its own connection. *)
LEMMA MapStep ==
  ASSUME IInv, [Next]_vars
  PROVE  MapSound'
PROOF
<1> USE FileSessionsAssumption DEF managerVars, objectVars, closeVars,
        requestVars, IInv, TypeOK, Closers, Leased, OneHolder, Halves,
        MapSound, Made, ShutdownOnce, Holds, InMap
<1>1. ASSUME NEW r \in Requests, NEW c \in Conns, OpenExisting(r, c) PROVE MapSound'
  BY <1>1 DEF OpenExisting, Touch
<1>2. ASSUME NEW r \in Requests, NEW c \in Conns, OpenMissing(r, c) PROVE MapSound'
  BY <1>2 DEF OpenMissing
<1>3. ASSUME NEW r \in Requests, NEW c \in Conns, Close(r, c) PROVE MapSound'
  BY <1>3 DEF Close
<1>4. ASSUME NEW r \in Requests, OpenCheck(r) PROVE MapSound'
  BY <1>4, CheckEffect DEF objectVars, closeVars
<1>5. ASSUME NEW r \in Requests, DialFails(r) PROVE MapSound'
  BY <1>5 DEF DialFails, Answer
<1>6. ASSUME NEW r \in Requests, NEW s \in Sessions, Dialled(r, s) PROVE MapSound'
  BY <1>6 DEF Dialled, Touch
<1>7. ASSUME NEW r \in Requests, NEW s \in Sessions, Register(r, s) PROVE MapSound'
  BY <1>7 DEF Register, Answer
<1>8. ASSUME NEW k \in Closers, NEW s \in Sessions, MarkClosed(k, s) PROVE MapSound'
  BY <1>8 DEF MarkClosed
<1>9. ASSUME NEW k \in Closers, NEW s \in Sessions, Release(k, s) PROVE MapSound'
  BY <1>9 DEF Release
<1>10. ASSUME ReapOnce PROVE MapSound'
  BY <1>10 DEF ReapOnce, Stale, Registered
<1>11. ASSUME BeginShutdown PROVE MapSound'
  BY <1>11 DEF BeginShutdown, Registered
<1>12. ASSUME ReaperExits PROVE MapSound'
  BY <1>12 DEF ReaperExits
<1>13. ASSUME NEW s \in Sessions, Tick(s) PROVE MapSound'
  BY <1>13 DEF Tick
<1>14. CASE UNCHANGED vars
  BY <1>14 DEF vars
<1> HIDE DEF IInv, TypeOK, Closers, Leased, OneHolder, Halves, MapSound, Made,
        ShutdownOnce, Holds, InMap
<1>15. QED
  BY <1>1, <1>2, <1>3, <1>4, <1>5, <1>6, <1>7, <1>8, <1>9, <1>10, <1>11,
     <1>12, <1>13, <1>14
  DEF Next

(* Sessions are made by dials only. *)
LEMMA MadeStep ==
  ASSUME IInv, [Next]_vars
  PROVE  Made'
PROOF
<1> USE FileSessionsAssumption DEF managerVars, objectVars, closeVars,
        requestVars, IInv, TypeOK, Closers, Leased, Halves, MapSound, Made,
        Holds, InMap
<1>1. ASSUME NEW r \in Requests, NEW c \in Conns, OpenExisting(r, c) PROVE Made'
  BY <1>1 DEF OpenExisting, Touch
<1>2. ASSUME NEW r \in Requests, NEW c \in Conns, OpenMissing(r, c) PROVE Made'
  BY <1>2 DEF OpenMissing
<1>3. ASSUME NEW r \in Requests, NEW c \in Conns, Close(r, c) PROVE Made'
  BY <1>3 DEF Close
<1>4. ASSUME NEW r \in Requests, OpenCheck(r) PROVE Made'
  BY <1>4, CheckEffect DEF objectVars, closeVars
<1>5. ASSUME NEW r \in Requests, DialFails(r) PROVE Made'
  BY <1>5 DEF DialFails, Answer
<1>6. ASSUME NEW r \in Requests, NEW s \in Sessions, Dialled(r, s) PROVE Made'
  BY <1>6 DEF Dialled, Touch
<1>7. ASSUME NEW r \in Requests, NEW s \in Sessions, Register(r, s) PROVE Made'
  BY <1>7 DEF Register, Answer
<1>8. ASSUME NEW k \in Closers, NEW s \in Sessions, MarkClosed(k, s) PROVE Made'
  BY <1>8 DEF MarkClosed
<1>9. ASSUME NEW k \in Closers, NEW s \in Sessions, Release(k, s) PROVE Made'
  BY <1>9 DEF Release
<1>10. ASSUME ReapOnce PROVE Made'
  BY <1>10 DEF ReapOnce, Stale, Registered
<1>11. ASSUME BeginShutdown PROVE Made'
  BY <1>11 DEF BeginShutdown, Registered
<1>12. ASSUME ReaperExits PROVE Made'
  BY <1>12 DEF ReaperExits
<1>13. ASSUME NEW s \in Sessions, Tick(s) PROVE Made'
  BY <1>13 DEF Tick
<1>14. CASE UNCHANGED vars
  BY <1>14 DEF vars
<1> HIDE DEF IInv, TypeOK, Closers, Leased, Halves, MapSound, Made, Holds,
        InMap
<1>15. QED
  BY <1>1, <1>2, <1>3, <1>4, <1>5, <1>6, <1>7, <1>8, <1>9, <1>10, <1>11,
     <1>12, <1>13, <1>14
  DEF Next

(* m.closed lets Shutdown in once. *)
LEMMA ShutdownStep ==
  ASSUME IInv, [Next]_vars
  PROVE  ShutdownOnce'
PROOF
<1> USE FileSessionsAssumption DEF managerVars, objectVars, closeVars,
        requestVars, IInv, TypeOK, Closers, ShutdownOnce
<1>1. ASSUME NEW r \in Requests, NEW c \in Conns, OpenExisting(r, c) PROVE ShutdownOnce'
  BY <1>1 DEF OpenExisting, Touch
<1>2. ASSUME NEW r \in Requests, NEW c \in Conns, OpenMissing(r, c) PROVE ShutdownOnce'
  BY <1>2 DEF OpenMissing
<1>3. ASSUME NEW r \in Requests, NEW c \in Conns, Close(r, c) PROVE ShutdownOnce'
  BY <1>3 DEF Close
<1>4. ASSUME NEW r \in Requests, OpenCheck(r) PROVE ShutdownOnce'
  BY <1>4, CheckEffect DEF objectVars, closeVars
<1>5. ASSUME NEW r \in Requests, DialFails(r) PROVE ShutdownOnce'
  BY <1>5 DEF DialFails, Answer
<1>6. ASSUME NEW r \in Requests, NEW s \in Sessions, Dialled(r, s) PROVE ShutdownOnce'
  BY <1>6 DEF Dialled, Touch
<1>7. ASSUME NEW r \in Requests, NEW s \in Sessions, Register(r, s) PROVE ShutdownOnce'
  BY <1>7 DEF Register, Answer
<1>8. ASSUME NEW k \in Closers, NEW s \in Sessions, MarkClosed(k, s) PROVE ShutdownOnce'
  BY <1>8 DEF MarkClosed
<1>9. ASSUME NEW k \in Closers, NEW s \in Sessions, Release(k, s) PROVE ShutdownOnce'
  BY <1>9 DEF Release
<1>10. ASSUME ReapOnce PROVE ShutdownOnce'
  BY <1>10 DEF ReapOnce, Stale, Registered
<1>11. ASSUME BeginShutdown PROVE ShutdownOnce'
  BY <1>11 DEF BeginShutdown, Registered
<1>12. ASSUME ReaperExits PROVE ShutdownOnce'
  BY <1>12 DEF ReaperExits
<1>13. ASSUME NEW s \in Sessions, Tick(s) PROVE ShutdownOnce'
  BY <1>13 DEF Tick
<1>14. CASE UNCHANGED vars
  BY <1>14 DEF vars
<1> HIDE DEF IInv, TypeOK, Closers, ShutdownOnce
<1>15. QED
  BY <1>1, <1>2, <1>3, <1>4, <1>5, <1>6, <1>7, <1>8, <1>9, <1>10, <1>11,
     <1>12, <1>13, <1>14
  DEF Next

(* The manager starts with nothing open. *)
LEMMA InitIInv == Init => IInv
PROOF
<1> SUFFICES ASSUME Init PROVE IInv
  OBVIOUS
<1> USE FileSessionsAssumption DEF Init, Closers
<1>1. TypeOK
  BY DEF TypeOK
<1>2. Leased /\ OneHolder /\ Halves
  BY DEF Leased, OneHolder, Halves, Holds, InMap
<1>3. MapSound /\ Made /\ ShutdownOnce
  BY DEF MapSound, Made, ShutdownOnce
<1>4. QED
  BY <1>1, <1>2, <1>3 DEF IInv

(* Every step of a request, the reaper or Shutdown keeps it. *)
LEMMA StepIInv == IInv /\ [Next]_vars => IInv'
  BY TypesStep, LeasedStep, HolderStep, HalvesStep, MapStep, MadeStep,
     ShutdownStep DEF IInv

(* So it holds throughout. *)
LEMMA SpecIInv == Spec => []IInv
  BY InitIInv, StepIInv, PTL DEF Spec

(* The manager's state is well formed in every reachable state. *)
THEOREM TypeCorrect == Spec => []TypeOK
<1>1. IInv => TypeOK
  BY DEF IInv
<1>2. QED
  BY <1>1, SpecIInv, PTL

(* No path of Open, Close, the reaper or Shutdown forgets a connection or   *)
(* gives one back twice: a held one is in the map, with nobody closing it,  *)
(* or in the hands of exactly one goroutine, which will register it or give *)
(* it back; one that was given back is in nobody's hands.                   *)
THEOREM LeasesNeverForgotten == Spec => []NoLeaseForgotten
<1>1. ASSUME IInv PROVE NoLeaseForgotten
  <2> DEFINE owners(s) == {k \in Closers : s \in closing[k] \cup releasing[k]}
                          \cup {r \in Requests : pc[r] = s}
  <2>1. ASSUME NEW s \in Sessions
        PROVE  owners(s) = {k \in Closers : Holds(k, s)}
    BY DEF Holds, Closers
  <2>2. ASSUME NEW s \in Sessions PROVE s \in Registered <=> InMap(s)
    BY FileSessionsAssumption DEF Registered, InMap
  <2> HIDE DEF owners
  <2>3. ASSUME NEW s \in Sessions, ~lease[s] PROVE owners(s) = {}
    BY <1>1, <2>1, <2>3 DEF IInv, Leased
  <2>4. ASSUME NEW s \in Sessions, lease[s], InMap(s) PROVE owners(s) = {}
    BY <1>1, <2>1, <2>4 DEF IInv, OneHolder
  <2>5. ASSUME NEW s \in Sessions, lease[s], ~InMap(s)
        PROVE  Cardinality(owners(s)) = 1
    <3>1. PICK k \in Closers : Holds(k, s)
      BY <1>1, <2>5 DEF IInv, Leased
    <3>2. owners(s) = {k}
      BY <1>1, <2>1, <3>1 DEF IInv, OneHolder
    <3>3. QED
      BY <3>2, FS_Singleton
  <2>6. QED
    BY <2>2, <2>3, <2>4, <2>5 DEF NoLeaseForgotten, owners
<1>2. QED
  BY <1>1, SpecIInv, PTL

-----------------------------------------------------------------------------
(***************************************************************************)
(* The refinement.  The first three lemmas say what Life is in terms of    *)
(* who has the session, so that the steps below need not unfold it.        *)
(***************************************************************************)
(* What a request has dialled, or nobody has, has not begun to live. *)
Dialling(s) == \E r \in Requests : pc[r] = s

(* Life, with the map asked by entry. *)
LifeSays ==
  \A s \in Sessions :
    /\ Life(s) = "dead" <=> shut[s]
    /\ Life(s) = "open" <=> InMap(s)
    /\ Life(s) = "none" <=> ~shut[s] /\ (conn[s] = None \/ Dialling(s))
    /\ Life(s) = "leaving" <=> /\ ~shut[s] /\ ~InMap(s)
                              /\ conn[s] # None /\ ~Dialling(s)
    /\ Life(s) \in {"none", "open", "leaving", "dead"}

(* What is in the map is live and in nobody's hands, so the cases of Life   *)
(* do not overlap.                                                          *)
LEMMA LifeIs == IInv => LifeSays
PROOF
<1> SUFFICES ASSUME IInv, NEW s \in Sessions
             PROVE  LifeSays!(s)
  BY DEF LifeSays
<1>1. s \in Registered <=> InMap(s)
  BY FileSessionsAssumption DEF Registered, InMap
<1>2. InMap(s) => ~shut[s] /\ conn[s] # None /\ ~Dialling(s)
  BY FileSessionsAssumption
  DEF IInv, TypeOK, MapSound, OneHolder, Holds, InMap, Dialling, Closers
<1>3. Life(s) = IF shut[s] THEN "dead"
                ELSE IF InMap(s) THEN "open"
                ELSE IF conn[s] = None \/ Dialling(s) THEN "none"
                ELSE "leaving"
  BY <1>1 DEF Life, Dialling
<1>4. QED
  BY <1>2, <1>3

(* The same of the state a step leads to. *)
LEMMA LifeIsNext == IInv' => LifeSays'
  BY LifeIs, PTL

(* The open session a connection is found by is the map's entry. *)
LEMMA OpenOnIs ==
  ASSUME IInv, NEW c \in Conns
  PROVE  Access!OpenOn(c) = {} <=> sessions[c] = None
PROOF
<1>1. ASSUME sessions[c] # None
      PROVE  /\ sessions[c] \in Sessions /\ Life(sessions[c]) = "open"
             /\ conn[sessions[c]] = c
  BY <1>1, LifeIs DEF LifeSays, IInv, TypeOK, MapSound, InMap
<1>2. ASSUME NEW s \in Sessions, Life(s) = "open", conn[s] = c
      PROVE  sessions[c] = s
  BY <1>2, LifeIs, FileSessionsAssumption
  DEF LifeSays, IInv, TypeOK, MapSound, InMap
<1>3. QED
  BY <1>1, <1>2, FileSessionsAssumption DEF Access!OpenOn

(* A step that moves no session from one stage of its life to another is   *)
(* none of FileAccess.                                                     *)
LEMMA Unmoved ==
  ASSUME \A s \in Sessions : /\ Life(s)' = Life(s)
                             /\ Life(s) # "none" => conn'[s] = conn[s]
  PROVE  UNCHANGED Access!accessVars
  BY DEF Access!accessVars

(* Sessions that go out of the map into somebody's hands leave. *)
LEMMA Leaving ==
  ASSUME NEW S \in SUBSET Sessions, conn' = conn,
         \A s \in S : Life(s) = "open" /\ Life(s)' = "leaving",
         \A s \in Sessions \ S : Life(s)' = Life(s)
  PROVE  [Access!AccessNext]_(Access!accessVars)
PROOF
<1>1. CASE S = {}
  BY <1>1, Unmoved
<1>2. CASE S # {}
  <2>1. Access!Leave(S)
    BY <1>2 DEF Access!Leave
  <2>2. QED
    BY <2>1 DEF Access!AccessNext
<1>3. QED
  BY <1>1, <1>2

(* Every step of the manager is one of FileAccess, or moves no session. *)
LEMMA StepRefines ==
  ASSUME IInv, IInv', [Next]_vars
  PROVE  [Access!AccessNext]_(Access!accessVars)
PROOF
<1> DEFINE Goal == [Access!AccessNext]_(Access!accessVars)
<1> SUFFICES Goal
  OBVIOUS
<1>0. LifeSays /\ LifeSays' /\ TypeOK /\ Made
  BY LifeIs, LifeIsNext DEF IInv
<1> USE FileSessionsAssumption DEF managerVars, objectVars, closeVars,
        requestVars
<1>1. ASSUME sessions' = sessions, conn' = conn, shut' = shut,
             \A s \in Sessions : Dialling(s)' = Dialling(s)
      PROVE  Goal
  <2>1. \A s \in Sessions : Life(s)' = Life(s)
    BY <1>0, <1>1 DEF LifeSays, InMap
  <2>2. QED
    BY <1>1, <2>1, Unmoved
<1> HIDE DEF Goal
<1>2. ASSUME NEW r \in Requests, NEW c \in Conns, OpenExisting(r, c) PROVE Goal
  BY <1>1, <1>2 DEF OpenExisting, Dialling
<1>3. ASSUME NEW r \in Requests, NEW c \in Conns, OpenMissing(r, c) PROVE Goal
  BY <1>0, <1>1, <1>3 DEF OpenMissing, Dialling, TypeOK
<1>4. ASSUME NEW r \in Requests, OpenCheck(r) PROVE Goal
  BY <1>0, <1>1, <1>4, CheckEffect DEF Dialling, TypeOK
<1>5. ASSUME NEW r \in Requests, DialFails(r) PROVE Goal
  BY <1>0, <1>1, <1>5 DEF DialFails, Answer, Dialling, TypeOK
<1>6. ASSUME NEW r \in Requests, NEW s \in Sessions, Dialled(r, s) PROVE Goal
  <2>1. \A t \in Sessions : Life(t)' = Life(t)
    BY <1>0, <1>6 DEF Dialled, LifeSays, InMap, Dialling, TypeOK, IInv, Made
  <2>2. \A t \in Sessions : Life(t) # "none" => conn'[t] = conn[t]
    BY <1>0, <1>6 DEF Dialled, LifeSays, TypeOK, Made
  <2>3. QED
    BY <2>1, <2>2, Unmoved DEF Goal
<1>7. ASSUME NEW r \in Requests, NEW s \in Sessions, Register(r, s) PROVE Goal
  <2>0. PICK c \in Conns : c = want[r]
    BY <1>0, <1>7 DEF Register, Made
  <2>1. /\ conn[s] = c /\ conn' = conn
        /\ Life(s) = "none" /\ ~InMap(s)
    BY <1>0, <1>7, <2>0
    DEF Register, LifeSays, IInv, Made, Halves, Dialling, TypeOK
  <2>2. ~Dialling(s)' /\ \A t \in Sessions \ {s} : Dialling(t)' = Dialling(t)
    BY <1>0, <1>7
    DEF Register, Answer, Dialling, IInv, OneHolder, Holds, Closers, TypeOK
  <2>3. CASE sessions[c] # None
    <3>1. Life(s)' = "leaving" /\ \A t \in Sessions \ {s} : Life(t)' = Life(t)
      BY <1>0, <1>7, <2>0, <2>1, <2>2, <2>3 DEF Register, LifeSays, InMap
    <3>2. Access!OpenOn(c) # {}
      BY <2>1, <2>3, OpenOnIs
    <3>3. Access!Loses(s, c)
      BY <2>1, <3>1, <3>2 DEF Access!Loses
    <3>4. QED
      BY <2>1, <3>3 DEF Goal, Access!AccessNext
  <2>4. CASE sessions[c] = None
    <3>1. Life(s)' = "open" /\ \A t \in Sessions \ {s} : Life(t)' = Life(t)
      BY <1>0, <1>7, <2>0, <2>1, <2>2, <2>4
      DEF Register, LifeSays, InMap, TypeOK
    <3>2. Access!OpenOn(c) = {}
      BY <2>1, <2>4, OpenOnIs
    <3>3. Access!Opens(s, c)
      BY <2>1, <3>1, <3>2 DEF Access!Opens
    <3>4. QED
      BY <2>1, <3>3 DEF Goal, Access!AccessNext
  <2>5. QED
    BY <2>3, <2>4
<1>8. ASSUME NEW r \in Requests, NEW c \in Conns, Close(r, c) PROVE Goal
  <2>1. PICK s \in Sessions : s = sessions[c]
    BY <1>0, <1>8 DEF Close, TypeOK
  <2>2. Life(s) = "open" /\ Life(s)' = "leaving"
    BY <1>0, <1>8, <2>1
    DEF Close, LifeSays, InMap, TypeOK, IInv, MapSound, Dialling
  <2>3. \A t \in Sessions \ {s} : Life(t)' = Life(t)
    BY <1>0, <1>8, <2>1 DEF Close, LifeSays, InMap, TypeOK, Dialling
  <2>4. /\ {s} \in SUBSET Sessions /\ conn' = conn
        /\ \A t \in {s} : Life(t) = "open" /\ Life(t)' = "leaving"
    BY <1>8, <2>2 DEF Close
  <2>5. QED
    BY <2>3, <2>4, Leaving DEF Goal
<1>9. ASSUME NEW k \in Closers, NEW s \in Sessions, MarkClosed(k, s) PROVE Goal
  <2>1. /\ Life(s) = "leaving" /\ Life(s)' = "dead" /\ conn' = conn
    BY <1>0, <1>9 DEF MarkClosed, LifeSays, TypeOK, IInv, Leased, OneHolder,
                      Halves, Made, Holds, Dialling, Closers
  <2>2. \A t \in Sessions \ {s} : Life(t)' = Life(t)
    BY <1>0, <1>9 DEF MarkClosed, LifeSays, InMap, TypeOK, Dialling
  <2>3. Access!Dies(s)
    BY <2>1, <2>2 DEF Access!Dies
  <2>4. QED
    BY <2>3 DEF Goal, Access!AccessNext
<1>10. ASSUME NEW k \in Closers, NEW s \in Sessions, Release(k, s) PROVE Goal
  BY <1>1, <1>10 DEF Release, Dialling
<1>11. ASSUME ReapOnce PROVE Goal
  <2>1. \A t \in Stale : t \in Sessions /\ Life(t) = "open" /\ Life(t)' = "leaving"
    BY <1>0, <1>11 DEF ReapOnce, Stale, Registered, LifeSays, InMap, TypeOK,
                       IInv, MapSound, Dialling
  <2>2. \A t \in Sessions \ Stale : Life(t)' = Life(t)
    BY <1>0, <1>11 DEF ReapOnce, LifeSays, InMap, TypeOK, Dialling
  <2>3. QED
    BY <1>11, <2>1, <2>2, Leaving DEF Goal, ReapOnce
<1>12. ASSUME BeginShutdown PROVE Goal
  <2>1. \A t \in Registered :
          t \in Sessions /\ Life(t) = "open" /\ Life(t)' = "leaving"
    BY <1>0, <1>12 DEF BeginShutdown, Registered, LifeSays, InMap, TypeOK,
                       IInv, MapSound, Dialling
  <2>2. \A t \in Sessions \ Registered : Life(t)' = Life(t)
    BY <1>0, <1>12
    DEF BeginShutdown, Registered, LifeSays, InMap, TypeOK, Dialling
  <2>3. QED
    BY <1>12, <2>1, <2>2, Leaving DEF Goal, BeginShutdown
<1>13. ASSUME ReaperExits PROVE Goal
  BY <1>1, <1>13 DEF ReaperExits, Dialling
<1>14. ASSUME NEW s \in Sessions, Tick(s) PROVE Goal
  BY <1>1, <1>14 DEF Tick, Dialling
<1>15. CASE UNCHANGED vars
  BY <1>1, <1>15 DEF vars, Dialling
<1>16. QED
  BY <1>2, <1>3, <1>4, <1>5, <1>6, <1>7, <1>8, <1>9, <1>10, <1>11, <1>12,
     <1>13, <1>14, <1>15 DEF Next

(* The manager implements FileAccess: Open registers a session only where   *)
(* its connection has none, Close, the reaper and Shutdown take it out of   *)
(* the map before anyone closes it, and what was closed never comes back.   *)
THEOREM AccessImplemented == Spec => ImplementsAccess
PROOF
<1>1. Init => Access!AccessInit
  <2> SUFFICES ASSUME Init PROVE Access!AccessInit
    OBVIOUS
  <2>1. LifeSays
    BY InitIInv, LifeIs
  <2>2. \A s \in Sessions : Life(s) = "none"
    BY <2>1 DEF Init, LifeSays
  <2>3. QED
    BY <2>2 DEF Access!AccessInit
<1>2. IInv /\ IInv' /\ [Next]_vars => [Access!AccessNext]_(Access!accessVars)
  BY StepRefines
<1>3. QED
  BY <1>1, <1>2, SpecIInv, PTL DEF Spec, ImplementsAccess, Access!AccessSpec

=============================================================================
