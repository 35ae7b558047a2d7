---------------------------- MODULE ShellProofs ----------------------------
(***************************************************************************)
(* Proofs about what surrounds one shell: how it is connected (Connect),   *)
(* recorded (Recording) and typed into (Broadcast).  For any sets of       *)
(* attempts, host keys, algorithms and serial lines; of sessions and       *)
(* transcripts, any cap and any stretch of the clock; of terminals,        *)
(* however many are the user's, and any number of keystrokes.              *)
(***************************************************************************)
EXTENDS Connect, Recording, Broadcast, FiniteSetTheorems, TLAPS

(***************************************************************************)
(* Connect: the inductive invariant.                                       *)
(***************************************************************************)
Dialling  == {"prepare", "agent", "route", "dial"}
Handshake == {"verify", "ask", "trust", "insert", "auth"}

(* What an attempt holds before it has a connection: nothing, then at most  *)
(* the transport, which HandshakeFails closes.                              *)
HeldShape ==
  \A a \in Attempts :
    /\ at[a].pc \in Dialling \cup {"idle", "imported"} => held[a] = {}
    /\ at[a].pc \in Handshake => held[a] \subseteq {"net"}
    /\ at[a].pc \in {"trust", "insert"} /\ at[a].kind = "import" => held[a] = {}

(* A line is claimed by the attempt that is on its way to or from it, and   *)
(* the claim is held as long as that.                                       *)
LineShape ==
  /\ \A a \in Attempts : at[a].line # None =>
       /\ at[a].pc \in {"port", "logon", "record", "open", "up", "release"}
       /\ claims[at[a].line] = a
  /\ \A l \in Lines : claims[l] # None =>
       at[claims[l]].line = l /\ "claim" \in held[claims[l]]

(* Keys on record are the user's, each under its algorithm; a key about to  *)
(* be recorded has been vouched for, and one that was asked about is not of *)
(* an algorithm the administrator has published a key of.                   *)
KeyShape ==
  /\ \A t \in Types :
       known[t] # None => known[t] \in vouched /\ TypeOf[known[t]] = t
  /\ \A a \in Attempts :
       /\ at[a].pc \in Handshake => at[a].key \in Keys
       /\ at[a].pc \in Dialling \cup {"verify", "ask"}
            => at[a].kind \in {"terminal", "files"}
       /\ at[a].accept # None => at[a].accept \in vouched
       /\ at[a].pc \in {"trust", "insert"} => at[a].key \in vouched
       /\ at[a].pc \in {"ask", "trust", "insert"} /\ at[a].kind # "import"
            => org = None \/ TypeOf[org] # TypeOf[at[a].key]

ConnectInv ==
  /\ ConnectTypeOK /\ HeldShape /\ LineShape
  /\ KeyShape /\ KeysVetted /\ AuthOnRecord
-----------------------------------------------------------------------------
(* The steps of an attempt: on its way to the host, *)
ReachStep(a) ==
  \/ \E kind \in {"terminal", "files"}, accept \in Keys \cup {None} :
       StartSSH(a, kind, accept)
  \/ buildCredential(a) \/ buildAgent(a) \/ PrepareFails(a) \/ Dials(a)
  \/ Reuse(a) \/ Unreachable(a)
  \/ \E k \in Keys : Presents(a, k)

(* in the handshake and Trust, *)
KeyStep(a) ==
  \/ \E k \in Keys : StartImport(a, k)
  \/ Trusted(a) \/ Changed(a) \/ Asks(a) \/ Accepted(a) \/ Rejected(a)
  \/ TrustLookup(a) \/ TrustRefused(a) \/ TrustInsert(a) \/ InsertFails(a)
  \/ GivesUp(a) \/ Authenticates(a) \/ AuthFails(a) \/ Imported(a)

(* and from a connection to a terminal and back. *)
TermStep(a) ==
  \/ StartTelnet(a) \/ OpenPort(a) \/ Shell(a) \/ LogonFor(a) \/ Open(a)
  \/ \E l \in Lines : Claim(a, l)
  \/ \E wanted \in BOOLEAN : recordingFor(a, wanted)
  \/ ShellFails(a) \/ PortFails(a) \/ LogonFails(a) \/ RecordFails(a) \/ Ended(a)
  \/ Release(a)

(* There are no others but Forget. *)
LEMMA StepsAre ==
  ASSUME ConnectNext
  PROVE  Forget \/ \E a \in Attempts : ReachStep(a) \/ KeyStep(a) \/ TermStep(a)
  BY DEF ConnectNext, ReachStep, KeyStep, TermStep

(* Moving on changes where the attempt is and nothing else. *)
LEMMA GoesOn ==
  ASSUME ConnectTypeOK, NEW a \in Attempts, NEW p \in PCs, Goes(a, p)
  PROVE  /\ at' \in [Attempts -> Attempt]
         /\ at'[a].pc = p /\ at'[a].kind = at[a].kind /\ at'[a].key = at[a].key
         /\ at'[a].line = at[a].line /\ at'[a].accept = at[a].accept
         /\ \A b \in Attempts \ {a} : at'[b] = at[b]
PROOF
<1>1. at[a] \in Attempt /\ at' = [at EXCEPT ![a] = [at[a] EXCEPT !.pc = p]]
  BY DEF ConnectTypeOK, Goes
<1>2. [at[a] EXCEPT !.pc = p] \in Attempt
  BY <1>1 DEF Attempt
<1>3. at' \in [Attempts -> Attempt]
  BY <1>1, <1>2 DEF ConnectTypeOK
<1>4. QED
  BY <1>1, <1>3 DEF ConnectTypeOK, Attempt

(* An attempt that ends is about nothing. *)
LEMMA EndsIdle ==
  ASSUME ConnectTypeOK, NEW a \in Attempts, Ends(a)
  PROVE  /\ at' \in [Attempts -> Attempt]
         /\ at'[a].pc = "idle" /\ at'[a].line = None /\ at'[a].accept = None
         /\ \A b \in Attempts \ {a} : at'[b] = at[b]
         /\ given' = given \ {a} /\ forgotten' = forgotten \ {a}
PROOF
<1>1. Idle \in Attempt
  BY DEF Idle, Attempt, PCs
<1>2. at' \in [Attempts -> Attempt]
  BY <1>1 DEF ConnectTypeOK, Ends
<1>3. QED
  BY <1>2 DEF ConnectTypeOK, Ends, Idle

(* A key shown, or an answer used up, makes an attempt too. *)
LEMMA Shown ==
  ASSUME NEW r \in Attempt, NEW p \in PCs, NEW x \in Keys \cup {None}
  PROVE  /\ [r EXCEPT !.pc = p, !.accept = x] \in Attempt
         /\ [r EXCEPT !.pc = p, !.key = x] \in Attempt
         /\ [r EXCEPT !.pc = p, !.key = x, !.accept = x] \in Attempt
  BY DEF Attempt

(* Every action keeps the types. *)
LEMMA ConnectTypesStep ==
  ASSUME ConnectInv, [ConnectNext]_connectVars
  PROVE  (ConnectTypeOK)'
PROOF
<1> DEFINE Goal == ConnectTypeOK
<1> USE ConnectAssumption DEF ConnectInv, ConnectTypeOK, PCs, Things, At, hostVars,
        ghostVars
<1>1. ASSUME Forget PROVE Goal'
  BY <1>1 DEF Forget
<1>2. ASSUME NEW a \in Attempts, NEW kind \in {"terminal", "files"},
             NEW accept \in Keys \cup {None}, StartSSH(a, kind, accept)
      PROVE  Goal'
  BY <1>2 DEF StartSSH, Attempt, Idle
<1>3. ASSUME NEW a \in Attempts, buildCredential(a) PROVE Goal'
  BY <1>3, GoesOn DEF buildCredential
<1>4. ASSUME NEW a \in Attempts, buildAgent(a) PROVE Goal'
  BY <1>4, GoesOn DEF buildAgent
<1>5. ASSUME NEW a \in Attempts, PrepareFails(a) PROVE Goal'
  BY <1>5, EndsIdle DEF PrepareFails
<1>6. ASSUME NEW a \in Attempts, Dials(a) PROVE Goal'
  BY <1>6, GoesOn DEF Dials
<1>7. ASSUME NEW a \in Attempts, Reuse(a) PROVE Goal'
  <2>1. [at[a] EXCEPT !.pc = "shell", !.accept = None] \in Attempt
    BY Shown, Zenon
  <2>2. at' \in [Attempts -> Attempt]
    BY <1>7, <2>1 DEF Reuse
  <2>3. QED
    BY <1>7, <2>2 DEF Reuse, Holds
<1>8. ASSUME NEW a \in Attempts, Unreachable(a) PROVE Goal'
  BY <1>8, EndsIdle DEF Unreachable
<1>9. ASSUME NEW a \in Attempts, NEW k \in Keys, Presents(a, k) PROVE Goal'
  <2>1. [at[a] EXCEPT !.pc = "verify", !.key = k] \in Attempt
    BY Shown, Zenon
  <2>2. at' \in [Attempts -> Attempt]
    BY <1>9, <2>1 DEF Presents
  <2>3. QED
    BY <1>9, <2>2 DEF Presents, Holds
<1>10. ASSUME NEW a \in Attempts, NEW k \in Keys, StartImport(a, k)
      PROVE  Goal'
  BY <1>10 DEF StartImport, Attempt, Idle
<1>11. ASSUME NEW a \in Attempts, Trusted(a) PROVE Goal'
  BY <1>11, GoesOn DEF Trusted
<1>12. ASSUME NEW a \in Attempts, Changed(a) PROVE Goal'
  BY <1>12, EndsIdle DEF Changed, HandshakeFails, Holds
<1>13. ASSUME NEW a \in Attempts, Asks(a) PROVE Goal'
  BY <1>13, GoesOn DEF Asks
<1>14. ASSUME NEW a \in Attempts, Accepted(a) PROVE Goal'
  BY <1>14, GoesOn DEF Accepted, KeyShape, Handshake
<1>15. ASSUME NEW a \in Attempts, Rejected(a) PROVE Goal'
  BY <1>15, EndsIdle DEF Rejected, HandshakeFails, Holds
<1>16. ASSUME NEW a \in Attempts, TrustLookup(a) PROVE Goal'
  BY <1>16, GoesOn DEF TrustLookup
<1>17. ASSUME NEW a \in Attempts, TrustRefused(a) PROVE Goal'
  BY <1>17, EndsIdle DEF TrustRefused, HandshakeFails, Holds
<1>18. ASSUME NEW a \in Attempts, TrustInsert(a) PROVE Goal'
  BY <1>18, GoesOn DEF TrustInsert, KeyShape, Handshake
<1>19. ASSUME NEW a \in Attempts, InsertFails(a) PROVE Goal'
  BY <1>19, EndsIdle DEF InsertFails, HandshakeFails, Holds
<1>20. ASSUME NEW a \in Attempts, GivesUp(a) PROVE Goal'
  BY <1>20 DEF GivesUp, Holds
<1>21. ASSUME NEW a \in Attempts, Authenticates(a) PROVE Goal'
  <2>1. [at[a] EXCEPT !.pc = "shell", !.key = None, !.accept = None] \in Attempt
    BY Shown, Zenon
  <2>2. at' \in [Attempts -> Attempt]
    BY <1>21, <2>1 DEF Authenticates
  <2>3. QED
    BY <1>21, <2>2 DEF Authenticates, Holds
<1>22. ASSUME NEW a \in Attempts, AuthFails(a) PROVE Goal'
  BY <1>22, EndsIdle DEF AuthFails, HandshakeFails, Holds
<1>23. ASSUME NEW a \in Attempts, Imported(a) PROVE Goal'
  BY <1>23, EndsIdle DEF Imported
<1>24. ASSUME NEW a \in Attempts, StartTelnet(a) PROVE Goal'
  BY <1>24 DEF StartTelnet, Holds, Attempt, Idle
<1>25. ASSUME NEW a \in Attempts, OpenPort(a) PROVE Goal'
  BY <1>25, GoesOn DEF OpenPort, Holds
<1>26. ASSUME NEW a \in Attempts, Shell(a) PROVE Goal'
  BY <1>26, GoesOn DEF Shell, Holds
<1>27. ASSUME NEW a \in Attempts, LogonFor(a) PROVE Goal'
  BY <1>27, GoesOn DEF LogonFor
<1>28. ASSUME NEW a \in Attempts, Open(a) PROVE Goal'
  BY <1>28, GoesOn DEF Open
<1>29. ASSUME NEW a \in Attempts, NEW l \in Lines, Claim(a, l) PROVE Goal'
  BY <1>29 DEF Claim, Holds, Attempt, Idle
<1>30. ASSUME NEW a \in Attempts, NEW wanted \in BOOLEAN, recordingFor(a, wanted)
      PROVE  Goal'
  BY <1>30, GoesOn DEF recordingFor, Holds
<1>31. ASSUME NEW a \in Attempts, ShellFails(a) PROVE Goal'
  BY <1>31, GoesOn DEF ShellFails, Closes, Holds
<1>32. ASSUME NEW a \in Attempts, PortFails(a) PROVE Goal'
  BY <1>32, GoesOn DEF PortFails, Closes, Holds
<1>33. ASSUME NEW a \in Attempts, LogonFails(a) PROVE Goal'
  BY <1>33, GoesOn DEF LogonFails, Closes, Holds
<1>34. ASSUME NEW a \in Attempts, RecordFails(a) PROVE Goal'
  BY <1>34, GoesOn DEF RecordFails, Closes, Holds
<1>35. ASSUME NEW a \in Attempts, Ended(a) PROVE Goal'
  BY <1>35, GoesOn DEF Ended, Closes, Holds
<1>36. ASSUME NEW a \in Attempts, Release(a) PROVE Goal'
  BY <1>36, EndsIdle DEF Release, Holds
<1>37. ASSUME UNCHANGED connectVars PROVE Goal'
  BY <1>37 DEF connectVars
<1> HIDE ConnectAssumption DEF Goal, ConnectInv, ConnectTypeOK, PCs, Things, At, hostVars,
        ghostVars
<1>38. ASSUME NEW a \in Attempts, ReachStep(a) PROVE Goal'
  BY <1>38, <1>2, <1>3, <1>4, <1>5, <1>6, <1>7, <1>8, <1>9 DEF ReachStep
<1>39. ASSUME NEW a \in Attempts, KeyStep(a) PROVE Goal'
  BY <1>39, <1>10, <1>11, <1>12, <1>13, <1>14, <1>15, <1>16, <1>17, <1>18,
     <1>19, <1>20, <1>21, <1>22, <1>23
  DEF KeyStep
<1>40. ASSUME NEW a \in Attempts, TermStep(a) PROVE Goal'
  BY <1>40, <1>24, <1>25, <1>26, <1>27, <1>28, <1>29, <1>30, <1>31, <1>32,
     <1>33, <1>34, <1>35, <1>36
  DEF TermStep
<1>41. Goal'
  BY <1>1, <1>37, <1>38, <1>39, <1>40, StepsAre
<1>42. QED
  BY <1>41 DEF Goal

(* Every way out of an attempt closes what it holds, and a claim is given    *)
(* back last.                                                                *)
LEMMA HeldStep ==
  ASSUME ConnectInv, [ConnectNext]_connectVars
  PROVE  (HeldShape /\ LineShape)'
PROOF
<1> DEFINE Goal == HeldShape /\ LineShape
<1> USE ConnectAssumption DEF ConnectInv, ConnectTypeOK, HeldShape, LineShape, KeyShape,
        Attempt, PCs, Dialling, Handshake, At, Idle, hostVars, ghostVars
<1>1. ASSUME Forget PROVE Goal'
  BY <1>1 DEF Forget
<1>2. ASSUME NEW a \in Attempts, NEW kind \in {"terminal", "files"},
             NEW accept \in Keys \cup {None}, StartSSH(a, kind, accept)
      PROVE  Goal'
  BY <1>2 DEF StartSSH
<1>3. ASSUME NEW a \in Attempts, buildCredential(a) PROVE Goal'
  BY <1>3 DEF buildCredential, Goes
<1>4. ASSUME NEW a \in Attempts, buildAgent(a) PROVE Goal'
  BY <1>4 DEF buildAgent, Goes
<1>5. ASSUME NEW a \in Attempts, PrepareFails(a) PROVE Goal'
  BY <1>5 DEF PrepareFails, Ends
<1>6. ASSUME NEW a \in Attempts, Dials(a) PROVE Goal'
  BY <1>6 DEF Dials, Goes
<1>7. ASSUME NEW a \in Attempts, Reuse(a) PROVE Goal'
  BY <1>7 DEF Reuse, Holds
<1>8. ASSUME NEW a \in Attempts, Unreachable(a) PROVE Goal'
  BY <1>8 DEF Unreachable, Ends
<1>9. ASSUME NEW a \in Attempts, NEW k \in Keys, Presents(a, k) PROVE Goal'
  BY <1>9 DEF Presents, Holds
<1>10. ASSUME NEW a \in Attempts, NEW k \in Keys, StartImport(a, k)
      PROVE  Goal'
  BY <1>10 DEF StartImport
<1>11. ASSUME NEW a \in Attempts, Trusted(a) PROVE Goal'
  BY <1>11 DEF Trusted, Verify, Goes
<1>12. ASSUME NEW a \in Attempts, Changed(a) PROVE Goal'
  BY <1>12 DEF Changed, HandshakeFails, Holds, Ends
<1>13. ASSUME NEW a \in Attempts, Asks(a) PROVE Goal'
  BY <1>13 DEF Asks, Verify, Goes
<1>14. ASSUME NEW a \in Attempts, Accepted(a) PROVE Goal'
  BY <1>14 DEF Accepted, fingerprintPrompter, Goes
<1>15. ASSUME NEW a \in Attempts, Rejected(a) PROVE Goal'
  BY <1>15 DEF Rejected, HandshakeFails, Holds, Ends
<1>16. ASSUME NEW a \in Attempts, TrustLookup(a) PROVE Goal'
  <2>1. PICK pc \in {"insert", "imported", "auth"} :
               /\ Goes(a, pc)
               /\ pc = "imported" <=> pc # "insert" /\ at[a].kind = "import"
    BY <1>16 DEF TrustLookup
  <2>2. QED
    BY <1>16, <2>1 DEF TrustLookup, Goes
<1>17. ASSUME NEW a \in Attempts, TrustRefused(a) PROVE Goal'
  BY <1>17 DEF TrustRefused, HandshakeFails, Holds, Ends
<1>18. ASSUME NEW a \in Attempts, TrustInsert(a) PROVE Goal'
  <2>1. PICK pc \in {"imported", "auth"} :
               Goes(a, pc) /\ (pc = "imported" <=> at[a].kind = "import")
    BY <1>18 DEF TrustInsert
  <2>2. QED
    BY <1>18, <2>1 DEF TrustInsert, Goes
<1>19. ASSUME NEW a \in Attempts, InsertFails(a) PROVE Goal'
  BY <1>19 DEF InsertFails, HandshakeFails, Holds, Ends
<1>20. ASSUME NEW a \in Attempts, GivesUp(a) PROVE Goal'
  BY <1>20 DEF GivesUp, Holds
<1>21. ASSUME NEW a \in Attempts, Authenticates(a) PROVE Goal'
  BY <1>21 DEF Authenticates, Holds
<1>22. ASSUME NEW a \in Attempts, AuthFails(a) PROVE Goal'
  BY <1>22 DEF AuthFails, HandshakeFails, Holds, Ends
<1>23. ASSUME NEW a \in Attempts, Imported(a) PROVE Goal'
  BY <1>23 DEF Imported, Ends
<1>24. ASSUME NEW a \in Attempts, StartTelnet(a) PROVE Goal'
  BY <1>24 DEF StartTelnet, Holds
<1>25. ASSUME NEW a \in Attempts, OpenPort(a) PROVE Goal'
  BY <1>25 DEF OpenPort, Goes, Holds
<1>26. ASSUME NEW a \in Attempts, Shell(a) PROVE Goal'
  BY <1>26 DEF Shell, Goes, Holds
<1>27. ASSUME NEW a \in Attempts, LogonFor(a) PROVE Goal'
  BY <1>27 DEF LogonFor, Goes
<1>28. ASSUME NEW a \in Attempts, Open(a) PROVE Goal'
  BY <1>28 DEF Open, Goes
<1>29. ASSUME NEW a \in Attempts, NEW l \in Lines, Claim(a, l) PROVE Goal'
  BY <1>29 DEF Claim, Holds
<1>30. ASSUME NEW a \in Attempts, NEW wanted \in BOOLEAN, recordingFor(a, wanted)
      PROVE  Goal'
  BY <1>30 DEF recordingFor, Goes, Holds
<1>31. ASSUME NEW a \in Attempts, ShellFails(a) PROVE Goal'
  BY <1>31 DEF ShellFails, Closes, Goes, Holds
<1>32. ASSUME NEW a \in Attempts, PortFails(a) PROVE Goal'
  BY <1>32 DEF PortFails, Closes, Goes, Holds
<1>33. ASSUME NEW a \in Attempts, LogonFails(a) PROVE Goal'
  BY <1>33 DEF LogonFails, Closes, Goes, Holds
<1>34. ASSUME NEW a \in Attempts, RecordFails(a) PROVE Goal'
  BY <1>34 DEF RecordFails, Closes, Goes, Holds
<1>35. ASSUME NEW a \in Attempts, Ended(a) PROVE Goal'
  BY <1>35 DEF Ended, Closes, Goes, Holds
<1>36. ASSUME NEW a \in Attempts, Release(a) PROVE Goal'
  BY <1>36 DEF Release, Holds, Ends
<1>37. ASSUME UNCHANGED connectVars PROVE Goal'
  BY <1>37 DEF connectVars
<1> HIDE ConnectAssumption DEF Goal, ConnectInv, ConnectTypeOK, HeldShape, LineShape,
        KeyShape, Attempt, PCs, Dialling, Handshake, At, Idle, hostVars,
        ghostVars
<1>38. ASSUME NEW a \in Attempts, ReachStep(a) PROVE Goal'
  BY <1>38, <1>2, <1>3, <1>4, <1>5, <1>6, <1>7, <1>8, <1>9 DEF ReachStep
<1>39. ASSUME NEW a \in Attempts, KeyStep(a) PROVE Goal'
  BY <1>39, <1>10, <1>11, <1>12, <1>13, <1>14, <1>15, <1>16, <1>17, <1>18,
     <1>19, <1>20, <1>21, <1>22, <1>23
  DEF KeyStep
<1>40. ASSUME NEW a \in Attempts, TermStep(a) PROVE Goal'
  BY <1>40, <1>24, <1>25, <1>26, <1>27, <1>28, <1>29, <1>30, <1>31, <1>32,
     <1>33, <1>34, <1>35, <1>36
  DEF TermStep
<1>41. Goal'
  BY <1>1, <1>37, <1>38, <1>39, <1>40, StepsAre
<1>42. QED
  BY <1>41 DEF Goal

(* A key comes on record, and to its authentication, only past the user or   *)
(* the administrator.                                                        *)
LEMMA KeysStep ==
  ASSUME ConnectInv, [ConnectNext]_connectVars
  PROVE  (KeyShape /\ KeysVetted /\ AuthOnRecord)'
PROOF
<1> DEFINE Goal == KeyShape /\ KeysVetted /\ AuthOnRecord
<1> USE ConnectAssumption DEF ConnectInv, ConnectTypeOK, KeyShape, KeysVetted,
        AuthOnRecord, Attempt, PCs, Dialling, Handshake, At, Idle, hostVars,
        ghostVars
<1>1. ASSUME Forget PROVE Goal'
  BY <1>1 DEF Forget
<1>2. ASSUME NEW a \in Attempts, NEW kind \in {"terminal", "files"},
             NEW accept \in Keys \cup {None}, StartSSH(a, kind, accept)
      PROVE  Goal'
  BY <1>2 DEF StartSSH
<1>3. ASSUME NEW a \in Attempts, buildCredential(a) PROVE Goal'
  BY <1>3 DEF buildCredential, Goes
<1>4. ASSUME NEW a \in Attempts, buildAgent(a) PROVE Goal'
  BY <1>4 DEF buildAgent, Goes
<1>5. ASSUME NEW a \in Attempts, PrepareFails(a) PROVE Goal'
  BY <1>5 DEF PrepareFails, Ends
<1>6. ASSUME NEW a \in Attempts, Dials(a) PROVE Goal'
  BY <1>6 DEF Dials, Goes
<1>7. ASSUME NEW a \in Attempts, Reuse(a) PROVE Goal'
  BY <1>7 DEF Reuse, Holds
<1>8. ASSUME NEW a \in Attempts, Unreachable(a) PROVE Goal'
  BY <1>8 DEF Unreachable, Ends
<1>9. ASSUME NEW a \in Attempts, NEW k \in Keys, Presents(a, k) PROVE Goal'
  BY <1>9 DEF Presents, Holds
<1>10. ASSUME NEW a \in Attempts, NEW k \in Keys, StartImport(a, k)
      PROVE  Goal'
  BY <1>10 DEF StartImport
<1>11. ASSUME NEW a \in Attempts, Trusted(a) PROVE Goal'
  BY <1>11 DEF Trusted, Verify, Goes
<1>12. ASSUME NEW a \in Attempts, Changed(a) PROVE Goal'
  BY <1>12 DEF Changed, HandshakeFails, Holds, Ends
<1>13. ASSUME NEW a \in Attempts, Asks(a) PROVE Goal'
  BY <1>13 DEF Asks, Verify, Goes
<1>14. ASSUME NEW a \in Attempts, Accepted(a) PROVE Goal'
  BY <1>14 DEF Accepted, fingerprintPrompter, Goes
<1>15. ASSUME NEW a \in Attempts, Rejected(a) PROVE Goal'
  BY <1>15 DEF Rejected, HandshakeFails, Holds, Ends
<1>16. ASSUME NEW a \in Attempts, TrustLookup(a) PROVE Goal'
  BY <1>16 DEF TrustLookup, Goes
<1>17. ASSUME NEW a \in Attempts, TrustRefused(a) PROVE Goal'
  BY <1>17 DEF TrustRefused, HandshakeFails, Holds, Ends
<1>18. ASSUME NEW a \in Attempts, TrustInsert(a) PROVE Goal'
  BY <1>18 DEF TrustInsert, UniqueKey, Goes
<1>19. ASSUME NEW a \in Attempts, InsertFails(a) PROVE Goal'
  BY <1>19 DEF InsertFails, HandshakeFails, Holds, Ends
<1>20. ASSUME NEW a \in Attempts, GivesUp(a) PROVE Goal'
  BY <1>20 DEF GivesUp, Holds
<1>21. ASSUME NEW a \in Attempts, Authenticates(a) PROVE Goal'
  BY <1>21 DEF Authenticates, Holds
<1>22. ASSUME NEW a \in Attempts, AuthFails(a) PROVE Goal'
  BY <1>22 DEF AuthFails, HandshakeFails, Holds, Ends
<1>23. ASSUME NEW a \in Attempts, Imported(a) PROVE Goal'
  BY <1>23 DEF Imported, Ends
<1>24. ASSUME NEW a \in Attempts, StartTelnet(a) PROVE Goal'
  BY <1>24 DEF StartTelnet, Holds
<1>25. ASSUME NEW a \in Attempts, OpenPort(a) PROVE Goal'
  BY <1>25 DEF OpenPort, Goes, Holds
<1>26. ASSUME NEW a \in Attempts, Shell(a) PROVE Goal'
  BY <1>26 DEF Shell, Goes, Holds
<1>27. ASSUME NEW a \in Attempts, LogonFor(a) PROVE Goal'
  BY <1>27 DEF LogonFor, Goes
<1>28. ASSUME NEW a \in Attempts, Open(a) PROVE Goal'
  BY <1>28 DEF Open, Goes
<1>29. ASSUME NEW a \in Attempts, NEW l \in Lines, Claim(a, l) PROVE Goal'
  BY <1>29 DEF Claim, Holds
<1>30. ASSUME NEW a \in Attempts, NEW wanted \in BOOLEAN, recordingFor(a, wanted)
      PROVE  Goal'
  BY <1>30 DEF recordingFor, Goes, Holds
<1>31. ASSUME NEW a \in Attempts, ShellFails(a) PROVE Goal'
  BY <1>31 DEF ShellFails, Closes, Goes, Holds
<1>32. ASSUME NEW a \in Attempts, PortFails(a) PROVE Goal'
  BY <1>32 DEF PortFails, Closes, Goes, Holds
<1>33. ASSUME NEW a \in Attempts, LogonFails(a) PROVE Goal'
  BY <1>33 DEF LogonFails, Closes, Goes, Holds
<1>34. ASSUME NEW a \in Attempts, RecordFails(a) PROVE Goal'
  BY <1>34 DEF RecordFails, Closes, Goes, Holds
<1>35. ASSUME NEW a \in Attempts, Ended(a) PROVE Goal'
  BY <1>35 DEF Ended, Closes, Goes, Holds
<1>36. ASSUME NEW a \in Attempts, Release(a) PROVE Goal'
  BY <1>36 DEF Release, Holds, Ends
<1>37. ASSUME UNCHANGED connectVars PROVE Goal'
  BY <1>37 DEF connectVars
<1> HIDE ConnectAssumption DEF Goal, ConnectInv, ConnectTypeOK, KeyShape, KeysVetted,
        AuthOnRecord, Attempt, PCs, Dialling, Handshake, At, Idle, hostVars,
        ghostVars
<1>38. ASSUME NEW a \in Attempts, ReachStep(a) PROVE Goal'
  BY <1>38, <1>2, <1>3, <1>4, <1>5, <1>6, <1>7, <1>8, <1>9 DEF ReachStep
<1>39. ASSUME NEW a \in Attempts, KeyStep(a) PROVE Goal'
  BY <1>39, <1>10, <1>11, <1>12, <1>13, <1>14, <1>15, <1>16, <1>17, <1>18,
     <1>19, <1>20, <1>21, <1>22, <1>23
  DEF KeyStep
<1>40. ASSUME NEW a \in Attempts, TermStep(a) PROVE Goal'
  BY <1>40, <1>24, <1>25, <1>26, <1>27, <1>28, <1>29, <1>30, <1>31, <1>32,
     <1>33, <1>34, <1>35, <1>36
  DEF TermStep
<1>41. Goal'
  BY <1>1, <1>37, <1>38, <1>39, <1>40, StepsAre
<1>42. QED
  BY <1>41 DEF Goal

(* Nothing is connected to at the start; one key may be published. *)
LEMMA ConnectInvInit == ConnectInit => ConnectInv
PROOF
<1> SUFFICES ASSUME ConnectInit PROVE ConnectInv
  OBVIOUS
<1> USE ConnectAssumption DEF ConnectInit
<1>1. ConnectTypeOK
  <2>1. at \in [Attempts -> Attempt]
    BY DEF Attempt, Idle, PCs
  <2>2. QED
    BY <2>1 DEF ConnectTypeOK
<1>2. HeldShape /\ LineShape
  BY DEF HeldShape, LineShape, Handshake, Dialling, Idle
<1>3. KeyShape /\ KeysVetted /\ AuthOnRecord
  BY DEF KeyShape, KeysVetted, AuthOnRecord, At, Handshake,
         Dialling, Idle
<1>4. QED
  BY <1>1, <1>2, <1>3 DEF ConnectInv

(* Every step of an attempt, and Forget, keeps it. *)
LEMMA ConnectInvStep == ConnectInv /\ [ConnectNext]_connectVars => ConnectInv'
  BY ConnectTypesStep, HeldStep, KeysStep DEF ConnectInv

(* So it holds throughout. *)
LEMMA ConnectInvHolds == ConnectSpec => []ConnectInv
  BY ConnectInvInit, ConnectInvStep, PTL DEF ConnectSpec

(* Attempts are well formed in every reachable state. *)
THEOREM ConnectTypeCorrect == ConnectSpec => []ConnectTypeOK
<1>1. ConnectInv => ConnectTypeOK
  BY DEF ConnectInv
<1>2. QED
  BY <1>1, ConnectInvHolds, PTL

(* A credential only ever goes to a host whose key the user said yes to by   *)
(* fingerprint or the administrator published, and never past a published    *)
(* key of the same algorithm (dialOne's decide, fingerprintPrompter,         *)
(* Store.Verify).                                                            *)
THEOREM KeysAlwaysVetted == ConnectSpec => []KeysVetted
<1>1. ConnectInv => KeysVetted
  BY DEF ConnectInv
<1>2. QED
  BY <1>1, ConnectInvHolds, PTL

(* The key a credential goes to is the one on record, however many dials,    *)
(* imports and late answers record keys for the host at once (Store.insert   *)
(* against the unique index of known_hosts).                                 *)
THEOREM AuthAlwaysOnRecord == ConnectSpec => []AuthOnRecord
<1>1. ConnectInv => AuthOnRecord
  BY DEF ConnectInv
<1>2. QED
  BY <1>1, ConnectInvHolds, PTL

(* Every way out of connectSSH, connectTelnet, connectSerial and             *)
(* Terminal.close leaves nothing open, and no serial line is ever open       *)
(* twice: whoever has its port has its claim, and there is one claim.        *)
THEOREM NothingEverLeft == ConnectSpec => []NothingLeft
<1>1. ASSUME ConnectInv PROVE NothingLeft
  <2>1. \A a \in Attempts : At(a, "idle") => held[a] = {}
    BY <1>1 DEF ConnectInv, HeldShape, At
  <2>2. ASSUME NEW l \in Lines
        PROVE  Cardinality({a \in Attempts : at[a].line = l /\ "port" \in held[a]}) <= 1
    <3> DEFINE S == {a \in Attempts : at[a].line = l /\ "port" \in held[a]}
    <3>1. S \subseteq {claims[l]}
      BY <1>1, ConnectAssumption DEF ConnectInv, LineShape
    <3>2. IsFiniteSet({claims[l]}) /\ Cardinality({claims[l]}) = 1
      BY FS_Singleton
    <3>3. Cardinality(S) <= Cardinality({claims[l]})
      BY <3>1, <3>2, FS_Subset
    <3>4. QED
      BY <3>2, <3>3
  <2>3. \A l \in Lines : claims[l] # None => "claim" \in held[claims[l]]
    BY <1>1 DEF ConnectInv, LineShape
  <2>4. QED
    BY <2>1, <2>2, <2>3 DEF NothingLeft
<1>2. QED
  BY <1>1, ConnectInvHolds, PTL

-----------------------------------------------------------------------------
(***************************************************************************)
(* Recording: the inductive invariant.                                     *)
(***************************************************************************)

(* A transcript that can be written to, now or later, is below the cap. *)
BelowCap == \A l \in Logs : file[l] \in {"none", "open"} => written[l] < MaxBytes

(* A file that was made is of a session, and the holder of a session, a      *)
(* request to record it and its pump refer to files that were made; the      *)
(* first two to files of that session, and never to the same one.            *)
Owned ==
  /\ \A l \in Logs : file[l] # "none" => of[l] \in Sessions
  /\ \A s \in Sessions :
       /\ holder[s] # Nil => file[holder[s]] # "none" /\ of[holder[s]] = s
       /\ asking[s] # Nil => /\ file[asking[s]] # "none" /\ of[asking[s]] = s
                              /\ holder[s] # asking[s]
       /\ loaded[s] # Nil => file[loaded[s]] # "none"

(* Somebody has yet to close an open file: its session, or the request that  *)
(* opened it.                                                                *)
Watched ==
  \A l \in Logs : file[l] = "open" =>
    \/ holder[of[l]] = l /\ life[of[l]] \in {"open", "closed"}
    \/ asking[of[l]] = l

RecordingInv == RecordingTypeOK /\ BelowCap /\ Owned /\ Watched /\ ForcedIsKept /\ OwnFiles
-----------------------------------------------------------------------------
(* The names NewTranscript tries are names, and so is the lack of one. *)
LEMMA Named ==
  /\ \A t \in 0..Seconds, x \in Suffixes : <<t, x>> \in FileNames
  /\ Unnamed \in FileNames
  BY DEF FileNames, Names, Unnamed

(* Every action keeps the types, and no write takes a transcript past the cap. *)
LEMMA RecordingTypesStep ==
  ASSUME RecordingInv, [RecordingNext]_recordingVars
  PROVE  (RecordingTypeOK /\ BelowCap)'
PROOF
<1> DEFINE Goal == RecordingTypeOK /\ BelowCap
<1> USE RecordingAssumption DEF RecordingInv, RecordingTypeOK, BelowCap, sessionVars, logVars
<1>1. ASSUME NEW s \in Sessions, OpenPlain(s) PROVE Goal'
  BY <1>1 DEF OpenPlain
<1>2. ASSUME NEW s \in Sessions, NEW l \in Logs, OpenRecorded(s, l)
      PROVE  Goal'
  <2>1. PICK n \in {<<now, x>> : x \in Suffixes} : name' = [name EXCEPT ![l] = n]
    BY <1>2 DEF OpenRecorded, NewTranscript
  <2>2. n \in FileNames
    BY Named
  <2>3. name' \in [Logs -> FileNames]
    BY <2>1, <2>2
  <2>4. QED
    BY <1>2, <2>3 DEF OpenRecorded, NewTranscript
<1>3. ASSUME NEW s \in Sessions, Refused(s) PROVE Goal'
  BY <1>3 DEF Refused
<1>4. ASSUME NEW s \in Sessions, Load(s) PROVE Goal'
  BY <1>4 DEF Load
<1>5. ASSUME NEW s \in Sessions, Tee(s) PROVE Goal'
  BY <1>5 DEF Tee, AppendTo
<1>6. ASSUME NEW s \in Sessions, TeeFails(s) PROVE Goal'
  BY <1>6 DEF TeeFails
<1>7. ASSUME NEW s \in Sessions, NEW l \in Logs, AskRecording(s, l)
      PROVE  Goal'
  <2>1. PICK n \in {<<now, x>> : x \in Suffixes} : name' = [name EXCEPT ![l] = n]
    BY <1>7 DEF AskRecording, NewTranscript
  <2>2. n \in FileNames
    BY Named
  <2>3. name' \in [Logs -> FileNames]
    BY <2>1, <2>2
  <2>4. QED
    BY <1>7, <2>3 DEF AskRecording, NewTranscript
<1>8. ASSUME NEW s \in Sessions, StartRecording(s) PROVE Goal'
  BY <1>8 DEF StartRecording, MayStart
<1>9. ASSUME NEW s \in Sessions, StartRefused(s) PROVE Goal'
  BY <1>9 DEF StartRefused, Finish
<1>10. ASSUME NEW s \in Sessions, StopRecording(s) PROVE Goal'
  BY <1>10 DEF StopRecording, Finish
<1>11. ASSUME NEW s \in Sessions, CloseBegin(s) PROVE Goal'
  BY <1>11 DEF CloseBegin
<1>12. ASSUME NEW s \in Sessions, ShellClose(s) PROVE Goal'
  BY <1>12 DEF ShellClose, Finish
<1>13. ASSUME Tick PROVE Goal'
  BY <1>13 DEF Tick
<1>14. ASSUME UNCHANGED recordingVars PROVE Goal'
  BY <1>14 DEF recordingVars
<1> HIDE RecordingAssumption DEF Goal, RecordingInv, RecordingTypeOK, BelowCap, sessionVars,
        logVars
<1>15. Goal'
  BY <1>1, <1>2, <1>3, <1>4, <1>5, <1>6, <1>7, <1>8, <1>9, <1>10, <1>11,
     <1>12, <1>13, <1>14
  DEF RecordingNext, SessionStep
<1>16. QED
  BY <1>15 DEF Goal

(* NewTranscript makes a new file for one session; nothing hands it to       *)
(* another one.                                                              *)
LEMMA OwnedStep ==
  ASSUME RecordingInv, [RecordingNext]_recordingVars
  PROVE  (Owned)'
PROOF
<1> DEFINE Goal == Owned
<1> USE RecordingAssumption DEF RecordingInv, RecordingTypeOK, Owned, sessionVars, logVars
<1>1. ASSUME NEW s \in Sessions, OpenPlain(s) PROVE Goal'
  BY <1>1 DEF OpenPlain
<1>2. ASSUME NEW s \in Sessions, NEW l \in Logs, OpenRecorded(s, l)
      PROVE  Goal'
  BY <1>2 DEF OpenRecorded, NewTranscript
<1>3. ASSUME NEW s \in Sessions, Refused(s) PROVE Goal'
  BY <1>3 DEF Refused
<1>4. ASSUME NEW s \in Sessions, Load(s) PROVE Goal'
  BY <1>4 DEF Load
<1>5. ASSUME NEW s \in Sessions, Tee(s) PROVE Goal'
  BY <1>5 DEF Tee, AppendTo
<1>6. ASSUME NEW s \in Sessions, TeeFails(s) PROVE Goal'
  BY <1>6 DEF TeeFails
<1>7. ASSUME NEW s \in Sessions, NEW l \in Logs, AskRecording(s, l)
      PROVE  Goal'
  BY <1>7 DEF AskRecording, NewTranscript
<1>8. ASSUME NEW s \in Sessions, StartRecording(s) PROVE Goal'
  BY <1>8 DEF StartRecording, MayStart
<1>9. ASSUME NEW s \in Sessions, StartRefused(s) PROVE Goal'
  BY <1>9 DEF StartRefused, Finish
<1>10. ASSUME NEW s \in Sessions, StopRecording(s) PROVE Goal'
  BY <1>10 DEF StopRecording, Finish
<1>11. ASSUME NEW s \in Sessions, CloseBegin(s) PROVE Goal'
  BY <1>11 DEF CloseBegin
<1>12. ASSUME NEW s \in Sessions, ShellClose(s) PROVE Goal'
  BY <1>12 DEF ShellClose, Finish
<1>13. ASSUME Tick PROVE Goal'
  BY <1>13 DEF Tick
<1>14. ASSUME UNCHANGED recordingVars PROVE Goal'
  BY <1>14 DEF recordingVars
<1> HIDE RecordingAssumption DEF Goal, RecordingInv, RecordingTypeOK, Owned, sessionVars,
        logVars
<1>15. Goal'
  BY <1>1, <1>2, <1>3, <1>4, <1>5, <1>6, <1>7, <1>8, <1>9, <1>10, <1>11,
     <1>12, <1>13, <1>14
  DEF RecordingNext, SessionStep
<1>16. QED
  BY <1>15 DEF Goal

(* Whoever lets go of an open transcript closes it or gives it to the session. *)
LEMMA WatchedStep ==
  ASSUME RecordingInv, [RecordingNext]_recordingVars
  PROVE  (Watched)'
PROOF
<1> DEFINE Goal == Watched
<1> USE RecordingAssumption DEF RecordingInv, RecordingTypeOK, Owned, Watched, sessionVars,
        logVars
<1>1. ASSUME NEW s \in Sessions, OpenPlain(s) PROVE Goal'
  BY <1>1 DEF OpenPlain
<1>2. ASSUME NEW s \in Sessions, NEW l \in Logs, OpenRecorded(s, l)
      PROVE  Goal'
  BY <1>2 DEF OpenRecorded, NewTranscript
<1>3. ASSUME NEW s \in Sessions, Refused(s) PROVE Goal'
  BY <1>3 DEF Refused
<1>4. ASSUME NEW s \in Sessions, Load(s) PROVE Goal'
  BY <1>4 DEF Load
<1>5. ASSUME NEW s \in Sessions, Tee(s) PROVE Goal'
  BY <1>5 DEF Tee, AppendTo
<1>6. ASSUME NEW s \in Sessions, TeeFails(s) PROVE Goal'
  BY <1>6 DEF TeeFails
<1>7. ASSUME NEW s \in Sessions, NEW l \in Logs, AskRecording(s, l)
      PROVE  Goal'
  BY <1>7 DEF AskRecording, NewTranscript
<1>8. ASSUME NEW s \in Sessions, StartRecording(s) PROVE Goal'
  BY <1>8 DEF StartRecording, MayStart
<1>9. ASSUME NEW s \in Sessions, StartRefused(s) PROVE Goal'
  BY <1>9 DEF StartRefused, Finish
<1>10. ASSUME NEW s \in Sessions, StopRecording(s) PROVE Goal'
  BY <1>10 DEF StopRecording, Finish
<1>11. ASSUME NEW s \in Sessions, CloseBegin(s) PROVE Goal'
  BY <1>11 DEF CloseBegin
<1>12. ASSUME NEW s \in Sessions, ShellClose(s) PROVE Goal'
  BY <1>12 DEF ShellClose, Finish
<1>13. ASSUME Tick PROVE Goal'
  BY <1>13 DEF Tick
<1>14. ASSUME UNCHANGED recordingVars PROVE Goal'
  BY <1>14 DEF recordingVars
<1> HIDE RecordingAssumption DEF Goal, RecordingInv, RecordingTypeOK, Owned, Watched,
        sessionVars, logVars
<1>15. Goal'
  BY <1>1, <1>2, <1>3, <1>4, <1>5, <1>6, <1>7, <1>8, <1>9, <1>10, <1>11,
     <1>12, <1>13, <1>14
  DEF RecordingNext, SessionStep
<1>16. QED
  BY <1>15 DEF Goal

(* The operator's recording stays: StopRecording is refused, and a refused   *)
(* StartRecording closes the file it opened and not the session's.           *)
LEMMA ForcedStep ==
  ASSUME RecordingInv, [RecordingNext]_recordingVars
  PROVE  (ForcedIsKept)'
PROOF
<1> DEFINE Goal == ForcedIsKept
<1> USE RecordingAssumption DEF RecordingInv, RecordingTypeOK, Owned, ForcedIsKept,
        sessionVars, logVars
<1>1. ASSUME NEW s \in Sessions, OpenPlain(s) PROVE Goal'
  BY <1>1 DEF OpenPlain
<1>2. ASSUME NEW s \in Sessions, NEW l \in Logs, OpenRecorded(s, l)
      PROVE  Goal'
  BY <1>2 DEF OpenRecorded, NewTranscript
<1>3. ASSUME NEW s \in Sessions, Refused(s) PROVE Goal'
  BY <1>3 DEF Refused
<1>4. ASSUME NEW s \in Sessions, Load(s) PROVE Goal'
  BY <1>4 DEF Load
<1>5. ASSUME NEW s \in Sessions, Tee(s) PROVE Goal'
  BY <1>5 DEF Tee, AppendTo
<1>6. ASSUME NEW s \in Sessions, TeeFails(s) PROVE Goal'
  BY <1>6 DEF TeeFails
<1>7. ASSUME NEW s \in Sessions, NEW l \in Logs, AskRecording(s, l)
      PROVE  Goal'
  BY <1>7 DEF AskRecording, NewTranscript
<1>8. ASSUME NEW s \in Sessions, StartRecording(s) PROVE Goal'
  BY <1>8 DEF StartRecording, MayStart
<1>9. ASSUME NEW s \in Sessions, StartRefused(s) PROVE Goal'
  BY <1>9 DEF StartRefused, Finish
<1>10. ASSUME NEW s \in Sessions, StopRecording(s) PROVE Goal'
  BY <1>10 DEF StopRecording, Finish
<1>11. ASSUME NEW s \in Sessions, CloseBegin(s) PROVE Goal'
  BY <1>11 DEF CloseBegin
<1>12. ASSUME NEW s \in Sessions, ShellClose(s) PROVE Goal'
  BY <1>12 DEF ShellClose, Finish
<1>13. ASSUME Tick PROVE Goal'
  BY <1>13 DEF Tick
<1>14. ASSUME UNCHANGED recordingVars PROVE Goal'
  BY <1>14 DEF recordingVars
<1> HIDE RecordingAssumption DEF Goal, RecordingInv, RecordingTypeOK, Owned, ForcedIsKept,
        sessionVars, logVars
<1>15. Goal'
  BY <1>1, <1>2, <1>3, <1>4, <1>5, <1>6, <1>7, <1>8, <1>9, <1>10, <1>11,
     <1>12, <1>13, <1>14
  DEF RecordingNext, SessionStep
<1>16. QED
  BY <1>15 DEF Goal

(* O_EXCL: a new file has a name no file has. *)
LEMMA NamesStep ==
  ASSUME RecordingInv, [RecordingNext]_recordingVars
  PROVE  (OwnFiles)'
PROOF
<1> DEFINE Goal == OwnFiles
<1> USE RecordingAssumption DEF RecordingInv, RecordingTypeOK, OwnFiles, sessionVars, logVars
<1>1. ASSUME NEW s \in Sessions, OpenPlain(s) PROVE Goal'
  BY <1>1 DEF OpenPlain
<1>2. ASSUME NEW s \in Sessions, NEW l \in Logs, OpenRecorded(s, l)
      PROVE  Goal'
  BY <1>2 DEF OpenRecorded, NewTranscript, FreeName, Taken
<1>3. ASSUME NEW s \in Sessions, Refused(s) PROVE Goal'
  BY <1>3 DEF Refused
<1>4. ASSUME NEW s \in Sessions, Load(s) PROVE Goal'
  BY <1>4 DEF Load
<1>5. ASSUME NEW s \in Sessions, Tee(s) PROVE Goal'
  BY <1>5 DEF Tee, AppendTo
<1>6. ASSUME NEW s \in Sessions, TeeFails(s) PROVE Goal'
  BY <1>6 DEF TeeFails
<1>7. ASSUME NEW s \in Sessions, NEW l \in Logs, AskRecording(s, l)
      PROVE  Goal'
  BY <1>7 DEF AskRecording, NewTranscript, FreeName, Taken
<1>8. ASSUME NEW s \in Sessions, StartRecording(s) PROVE Goal'
  BY <1>8 DEF StartRecording, MayStart
<1>9. ASSUME NEW s \in Sessions, StartRefused(s) PROVE Goal'
  BY <1>9 DEF StartRefused, Finish
<1>10. ASSUME NEW s \in Sessions, StopRecording(s) PROVE Goal'
  BY <1>10 DEF StopRecording, Finish
<1>11. ASSUME NEW s \in Sessions, CloseBegin(s) PROVE Goal'
  BY <1>11 DEF CloseBegin
<1>12. ASSUME NEW s \in Sessions, ShellClose(s) PROVE Goal'
  BY <1>12 DEF ShellClose, Finish
<1>13. ASSUME Tick PROVE Goal'
  BY <1>13 DEF Tick
<1>14. ASSUME UNCHANGED recordingVars PROVE Goal'
  BY <1>14 DEF recordingVars
<1> HIDE RecordingAssumption DEF Goal, RecordingInv, RecordingTypeOK, OwnFiles, sessionVars,
        logVars
<1>15. Goal'
  BY <1>1, <1>2, <1>3, <1>4, <1>5, <1>6, <1>7, <1>8, <1>9, <1>10, <1>11,
     <1>12, <1>13, <1>14
  DEF RecordingNext, SessionStep
<1>16. QED
  BY <1>15 DEF Goal

(* Before the first session there is no file. *)
LEMMA RecordingInvInit == RecordingInit => RecordingInv
<1> SUFFICES ASSUME RecordingInit PROVE RecordingInv
  OBVIOUS
<1> USE RecordingAssumption DEF RecordingInit
<1>1. RecordingTypeOK /\ BelowCap
  BY Named DEF RecordingTypeOK, BelowCap
<1>2. Owned /\ Watched /\ ForcedIsKept /\ OwnFiles
  BY DEF Owned, Watched, ForcedIsKept, OwnFiles
<1>3. QED
  BY <1>1, <1>2 DEF RecordingInv

(* Every step of a session, its pump and its requests keeps it. *)
LEMMA RecordingInvStep == RecordingInv /\ [RecordingNext]_recordingVars => RecordingInv'
  BY RecordingTypesStep, OwnedStep, WatchedStep, ForcedStep, NamesStep DEF RecordingInv

(* So it holds throughout. *)
LEMMA RecordingInvHolds == RecordingSpec => []RecordingInv
  BY RecordingInvInit, RecordingInvStep, PTL DEF RecordingSpec

(* Sessions and transcripts are well formed in every reachable state, and no *)
(* transcript grows past MaxTranscriptBytes (Transcript.write).              *)
THEOREM RecordingTypeCorrect == RecordingSpec => []RecordingTypeOK
<1>1. RecordingInv => RecordingTypeOK
  BY DEF RecordingInv
<1>2. QED
  BY <1>1, RecordingInvHolds, PTL

(* However StartRecording, StopRecording and the end of the session fall     *)
(* together, no file stays open behind a session that is over, but for the   *)
(* one a late StartRecording is about to close itself.                       *)
THEOREM FilesAlwaysClosed == RecordingSpec => []FilesClosed
<1>1. RecordingInv => FilesClosed
  BY DEF RecordingInv, Watched, FilesClosed
<1>2. QED
  BY <1>1, RecordingInvHolds, PTL

(* A recording the policy requires is in its session's holder and goes on    *)
(* until the shell closes, and no file is ever two transcripts               *)
(* (Terminal.StopRecording, NewTranscript).                                  *)
THEOREM RecordsAlwaysKept == RecordingSpec => []RecordsKept
<1>1. RecordingInv => RecordsKept
  BY DEF RecordingInv, RecordsKept
<1>2. QED
  BY <1>1, RecordingInvHolds, PTL

-----------------------------------------------------------------------------
(***************************************************************************)
(* Broadcast: the inductive invariant.                                     *)
(***************************************************************************)

(* The group is of the user's other terminals, and only mirrorInput has       *)
(* members left to write to.                                                  *)
GroupShape ==
  /\ In(mirror) \subseteq Mine \ {Primary}
  /\ \A t \in Terms : todo[t] <= mirror[t] /\ (todo[t] > 0 => typed > 0)
  /\ reader # "mirroring" => todo = Nobody

(* No member joined after the last keystroke it has to have. *)
JoinedBefore == \A t \in Terms : mirror[t] = 1 => since[t] <= Due(t)

(* The group last acknowledged, seen or on its way. *)
Told == IF outbox = <<>> THEN shown ELSE outbox[Len(outbox)]

(* The group is at most the one last acknowledged. *)
WithinTold == In(mirror) \subseteq Told

(* A keystroke on its way was meant for the group as it is, and for every    *)
(* group it can have become by the time the keystroke is read.               *)
Covered ==
  \A i \in 1..Len(inbox) : inbox[i].kind = "key" =>
    /\ In(mirror) \subseteq inbox[i].reach
    /\ \A j \in 1..(i - 1) :
         inbox[j].kind = "ask" => In(Group(inbox[j].ids)) \subseteq inbox[i].reach

BroadcastInv ==
  /\ BroadcastTypeOK /\ GroupShape /\ JoinedBefore
  /\ OnlyMine /\ NeverBehind /\ InStep
  /\ WithinTold /\ Covered /\ OnlyMeant
-----------------------------------------------------------------------------
(* A terminal that has the keystrokes after s up to the last one still does  *)
(* when it is given the next.                                                *)
LEMMA NextKey ==
  ASSUME NEW S, NEW g \in Seq(S), NEW s \in Nat, NEW d \in Nat, s + d + 1 \in S,
         EndsWith(g, s, d)
  PROVE  EndsWith(Append(g, s + d + 1), s, d + 1)
<1> DEFINE h == Append(g, s + d + 1)
<1>1. h \in Seq(S) /\ Len(h) = Len(g) + 1 /\ Len(g) \in Nat
  OBVIOUS
<1>2. Len(h) >= d + 1
  BY <1>1 DEF EndsWith
<1>3. ASSUME NEW i \in 1..(d + 1) PROVE h[Len(h) - (d + 1) + i] = s + i
  <2>1. CASE i = d + 1
    BY <1>1, <2>1
  <2>2. CASE i \in 1..d
    <3>0. Len(g) >= d /\ g[Len(g) - d + i] = s + i
      BY <2>2 DEF EndsWith
    <3>1. Len(g) - d + i \in 1..Len(g) /\ g[Len(g) - d + i] = s + i
      <4> HIDE DEF h
      <4>1. QED
        BY <1>1, <2>2, <3>0
    <3>2. h[Len(g) - d + i] = g[Len(g) - d + i]
      BY <3>1
    <3>3. Len(h) - (d + 1) + i = Len(g) - d + i
      BY <1>1
    <3>4. QED
      BY <3>1, <3>2, <3>3
  <2>3. i = d + 1 \/ i \in 1..d
    BY <1>3
  <2>4. QED
    BY <2>1, <2>2, <2>3
<1>4. QED
  BY <1>2, <1>3 DEF EndsWith

(* The same for the terminal that has them all. *)
LEMMA FirstKeys ==
  ASSUME NEW n \in Nat
  PROVE  Append([i \in 1..n |-> i], n + 1) = [i \in 1..(n + 1) |-> i]
<1> DEFINE g == [i \in 1..n |-> i]
<1> DEFINE h == [i \in 1..(n + 1) |-> i]
<1>1. g \in Seq(Nat) /\ Len(g) = n
  OBVIOUS
<1>2. QED
  BY <1>1

(* A list names whom its group names, but for the browser's own terminal. *)
LEMMA GroupNames ==
  ASSUME NEW ids \in Lists
  PROVE  Group(ids) \in Lists /\ In(Group(ids)) = In(ids) \ {Primary}
  BY BroadcastAssumption DEF Lists, Group, In

(* What the next message is, and what stays behind it. *)
LEMMA Messenger ==
  ASSUME BroadcastTypeOK, inbox # <<>>
  PROVE  /\ Head(inbox) \in Messages /\ Head(inbox) = inbox[1]
         /\ Tail(inbox) \in Seq(Messages) /\ Len(Tail(inbox)) = Len(inbox) - 1
         /\ Len(inbox) \in Nat \ {0}
         /\ \A i \in 1..Len(Tail(inbox)) : Tail(inbox)[i] = inbox[i + 1]
         /\ Head(inbox).kind = "ask" => Head(inbox).ids \in Lists
         /\ Head(inbox).kind = "key" => Head(inbox).reach \in SUBSET Terms
<1>1. inbox \in Seq(Messages)
  BY DEF BroadcastTypeOK
<1>2. /\ Head(inbox) \in Messages /\ Head(inbox) = inbox[1]
      /\ Tail(inbox) \in Seq(Messages) /\ Len(Tail(inbox)) = Len(inbox) - 1
      /\ Len(inbox) \in Nat \ {0}
      /\ \A i \in 1..Len(Tail(inbox)) : Tail(inbox)[i] = inbox[i + 1]
  BY <1>1
<1>3. /\ Head(inbox).kind = "ask" => Head(inbox).ids \in Lists
      /\ Head(inbox).kind = "key" => Head(inbox).reach \in SUBSET Terms
  BY <1>2 DEF Messages
<1>4. QED
  BY <1>2, <1>3

(* Every action keeps the types. *)
LEMMA BroadcastTypesStep ==
  ASSUME BroadcastInv, [BroadcastNext]_broadcastVars
  PROVE  (BroadcastTypeOK)'
PROOF
<1> DEFINE Goal == BroadcastTypeOK
<1> USE BroadcastAssumption DEF BroadcastInv, BroadcastTypeOK, shells, bridge, browser
<1>1. ASSUME Press PROVE Goal'
  <2>1. Keystroke(Reach) \in Messages
    BY DEF Keystroke, Messages, Reach
  <2>2. QED
    BY <1>1, <2>1 DEF Press, Send
<1>2. ASSUME NEW ids \in Choices, AskFor(ids) PROVE Goal'
  <2>1. Ask(ids) \in Messages
    BY DEF Ask, Messages
  <2>2. QED
    BY <1>2, <2>1 DEF AskFor, Send
<1>3. ASSUME Shows PROVE Goal'
  <2>1. Head(outbox) \in SUBSET Terms /\ Tail(outbox) \in Seq(SUBSET Terms)
    BY <1>3 DEF Shows
  <2>2. QED
    BY <1>3, <2>1 DEF Shows
<1>4. ASSUME SetBroadcast PROVE Goal'
  <2> DEFINE ids == Head(inbox).ids
  <2>1. Group(ids) \in Lists /\ Tail(inbox) \in Seq(Messages)
    BY <1>4, Messenger, GroupNames DEF SetBroadcast, Reads
  <2>2. In(Group(ids)) \in SUBSET Terms
    BY DEF In
  <2>3. CASE Joins(Group(ids)) /\ outbox' = Append(outbox, In(Group(ids)))
    <3> HIDE DEF ids
    <3>1. QED
      BY <1>4, <2>1, <2>2, <2>3 DEF SetBroadcast, Reads, Joins
  <2>4. CASE UNCHANGED <<mirror, since, outbox>>
    BY <1>4, <2>1, <2>4 DEF SetBroadcast, Reads
  <2>5. QED
    BY <1>4, <2>3, <2>4 DEF SetBroadcast
<1>5. ASSUME Type PROVE Goal'
  <2>1. Head(inbox).reach \in SUBSET Terms /\ Tail(inbox) \in Seq(Messages)
    BY <1>5, Messenger DEF Type, Reads
  <2>2. QED
    BY <1>5, <2>1 DEF Type, Reads, Receives
<1>6. ASSUME OwnWriteFails PROVE Goal'
  <2>1. Tail(inbox) \in Seq(Messages)
    BY <1>6, Messenger DEF OwnWriteFails, Reads
  <2>2. QED
    BY <1>6, <2>1 DEF OwnWriteFails, Reads
<1>7. ASSUME Mirrored PROVE Goal'
  BY <1>7 DEF Mirrored
<1>8. ASSUME Stop PROVE Goal'
  BY <1>8 DEF Stop
<1>9. ASSUME NEW t \in Terms, MirrorWrite(t) PROVE Goal'
  <2>1. [todo EXCEPT ![t] = @ - 1] \in Lists
    BY <1>9 DEF MirrorWrite, Lists
  <2>2. QED
    BY <1>9, <2>1 DEF MirrorWrite
<1>10. ASSUME NEW t \in Terms, MirrorFails(t) PROVE Goal'
  <2>1. /\ [todo EXCEPT ![t] = @ - 1] \in Lists
        /\ [mirror EXCEPT ![t] = @ - 1] \in Lists
    <3>1. /\ todo \in Lists /\ mirror \in Lists /\ todo[t] > 0 /\ todo[t] <= mirror[t]
          /\ todo[t] \in Nat /\ mirror[t] \in Nat
      BY <1>10 DEF MirrorFails, GroupShape, Lists
    <3>2. todo[t] - 1 \in Nat /\ mirror[t] - 1 \in Nat
      BY <3>1
    <3>3. QED
      BY <3>1, <3>2 DEF Lists
  <2>2. typed - 1 \in Nat
    BY <1>10 DEF MirrorFails, GroupShape, Lists
  <2>3. QED
    BY <1>10, <2>1, <2>2 DEF MirrorFails
<1>11. ASSUME NEW t \in Terms, ShellEnds(t) PROVE Goal'
  BY <1>11 DEF ShellEnds
<1>12. ASSUME NEW t \in Terms, Removed(t) PROVE Goal'
  BY <1>12 DEF Removed
<1>13. ASSUME UNCHANGED broadcastVars PROVE Goal'
  BY <1>13 DEF broadcastVars
<1> HIDE BroadcastAssumption DEF Goal, BroadcastInv, BroadcastTypeOK, shells, bridge,
        browser
<1>14. Goal'
  BY <1>1, <1>2, <1>3, <1>4, <1>5, <1>6, <1>7, <1>8, <1>9, <1>10, <1>11, <1>12, <1>13
  DEF BroadcastNext
<1>15. QED
  BY <1>14 DEF Goal

(* The group stays the user's own: setBroadcast resolves every terminal with *)
(* its owner, and leaves out the one that is written directly.               *)
LEMMA GroupStep ==
  ASSUME BroadcastInv, [BroadcastNext]_broadcastVars
  PROVE  (GroupShape /\ JoinedBefore)'
PROOF
<1> DEFINE Goal == GroupShape /\ JoinedBefore
<1> USE BroadcastAssumption DEF BroadcastInv, BroadcastTypeOK, GroupShape,
        JoinedBefore, Due, Lists, Nobody, shells, bridge, browser
<1>1. ASSUME Press PROVE Goal'
  BY <1>1 DEF Press, Send, In
<1>2. ASSUME NEW ids \in Choices, AskFor(ids) PROVE Goal'
  BY <1>2 DEF AskFor, Send, In
<1>3. ASSUME Shows PROVE Goal'
  BY <1>3 DEF Shows, In
<1>4. ASSUME SetBroadcast PROVE Goal'
  <2> DEFINE ids == Head(inbox).ids
  <2>1. Group(ids) \in Lists /\ In(Group(ids)) = In(ids) \ {Primary}
    BY <1>4, Messenger, GroupNames DEF SetBroadcast, Reads
  <2>2. CASE Resolves(ids) /\ Joins(Group(ids))
    <3>1. In(mirror') \subseteq Mine \ {Primary}
      BY <2>1, <2>2 DEF Joins, Resolves, In
    <3> HIDE DEF ids
    <3>2. QED
      BY <1>4, <2>1, <2>2, <3>1 DEF SetBroadcast, Reads, Joins
  <2>3. CASE UNCHANGED <<mirror, since, outbox>>
    BY <1>4, <2>3 DEF SetBroadcast, Reads, In
  <2>4. QED
    BY <1>4, <2>2, <2>3 DEF SetBroadcast
<1>5. ASSUME Type PROVE Goal'
  BY <1>5 DEF Type, Reads, Receives, In
<1>6. ASSUME OwnWriteFails PROVE Goal'
  BY <1>6 DEF OwnWriteFails, Reads
<1>7. ASSUME Mirrored PROVE Goal'
  BY <1>7 DEF Mirrored
<1>8. ASSUME Stop PROVE Goal'
  BY <1>8 DEF Stop
<1>9. ASSUME NEW t \in Terms, MirrorWrite(t) PROVE Goal'
  BY <1>9 DEF MirrorWrite, In
<1>10. ASSUME NEW t \in Terms, MirrorFails(t) PROVE Goal'
  <2>1. /\ mirror'[t] = mirror[t] - 1 /\ todo'[t] = todo[t] - 1 /\ todo[t] > 0
        /\ todo[t] <= mirror[t] /\ todo[t] \in Nat /\ mirror[t] \in Nat /\ typed \in Nat \ {0}
        /\ since'[t] = (IF todo[t] > 1 THEN typed - 1 ELSE typed)
        /\ typed' = typed /\ reader' = reader /\ reader = "mirroring"
    BY <1>10 DEF MirrorFails
  <2>2. ASSUME NEW u \in Terms, u # t
        PROVE  mirror'[u] = mirror[u] /\ todo'[u] = todo[u] /\ since'[u] = since[u]
    BY <1>10, <2>2 DEF MirrorFails
  <2>3. In(mirror') \subseteq In(mirror)
    <3> SUFFICES ASSUME NEW u \in Terms, mirror'[u] > 0 PROVE mirror[u] > 0
      BY DEF In
    <3>1. CASE u = t
      BY <2>1, <3>1
    <3>2. CASE u # t
      BY <2>2, <3>2
    <3>3. QED
      BY <3>1, <3>2
  <2>4. ASSUME NEW u \in Terms
        PROVE  /\ todo'[u] <= mirror'[u] /\ (todo'[u] > 0 => typed' > 0)
               /\ mirror'[u] = 1 => since'[u] <= (IF todo'[u] > 0 THEN typed' - 1 ELSE typed')
    <3>1. CASE u = t
      BY <2>1, <3>1
    <3>2. CASE u # t
      BY <2>1, <2>2, <3>2
    <3>3. QED
      BY <3>1, <3>2
  <2>5. QED
    BY <2>1, <2>3, <2>4
<1>11. ASSUME NEW t \in Terms, ShellEnds(t) PROVE Goal'
  BY <1>11 DEF ShellEnds
<1>12. ASSUME NEW t \in Terms, Removed(t) PROVE Goal'
  BY <1>12 DEF Removed
<1>13. ASSUME UNCHANGED broadcastVars PROVE Goal'
  BY <1>13 DEF broadcastVars
<1> HIDE BroadcastAssumption DEF Goal, BroadcastInv, BroadcastTypeOK, GroupShape,
        JoinedBefore, Due, Lists, Nobody, shells, bridge, browser
<1>14. Goal'
  BY <1>1, <1>2, <1>3, <1>4, <1>5, <1>6, <1>7, <1>8, <1>9, <1>10, <1>11, <1>12, <1>13
  DEF BroadcastNext
<1>15. QED
  BY <1>14 DEF Goal

(* Only the group and the terminal itself are typed into, and a keystroke is  *)
(* the terminal's own first.                                                  *)
LEMMA TypedStep ==
  ASSUME BroadcastInv, [BroadcastNext]_broadcastVars
  PROVE  (OnlyMine /\ NeverBehind)'
PROOF
<1> DEFINE Goal == OnlyMine /\ NeverBehind
<1> USE BroadcastAssumption DEF BroadcastInv, BroadcastTypeOK, GroupShape, OnlyMine,
        NeverBehind, shells, bridge, browser
<1>1. ASSUME Press PROVE Goal'
  BY <1>1 DEF Press, Send
<1>2. ASSUME NEW ids \in Choices, AskFor(ids) PROVE Goal'
  BY <1>2 DEF AskFor, Send
<1>3. ASSUME Shows PROVE Goal'
  BY <1>3 DEF Shows
<1>4. ASSUME SetBroadcast PROVE Goal'
  BY <1>4 DEF SetBroadcast
<1>5. ASSUME Type PROVE Goal'
  <2>1. /\ got' = [got EXCEPT ![Primary] = Append(got[Primary], typed + 1)]
        /\ typed' = typed + 1
    BY <1>5 DEF Type, Receives
  <2>2. NeverBehind'
    BY <2>1, FirstKeys
  <2>3. OnlyMine'
    BY <2>1
  <2>4. QED
    BY <2>2, <2>3
<1>6. ASSUME OwnWriteFails PROVE Goal'
  BY <1>6 DEF OwnWriteFails, Reads
<1>7. ASSUME Mirrored PROVE Goal'
  BY <1>7 DEF Mirrored
<1>8. ASSUME Stop PROVE Goal'
  BY <1>8 DEF Stop
<1>9. ASSUME NEW t \in Terms, MirrorWrite(t) PROVE Goal'
  <2>1. t \in Mine /\ t # Primary
    BY <1>9 DEF MirrorWrite, In, Lists
  <2>2. QED
    BY <1>9, <2>1 DEF MirrorWrite
<1>10. ASSUME NEW t \in Terms, MirrorFails(t) PROVE Goal'
  BY <1>10 DEF MirrorFails
<1>11. ASSUME NEW t \in Terms, ShellEnds(t) PROVE Goal'
  BY <1>11 DEF ShellEnds
<1>12. ASSUME NEW t \in Terms, Removed(t) PROVE Goal'
  BY <1>12 DEF Removed
<1>13. ASSUME UNCHANGED broadcastVars PROVE Goal'
  BY <1>13 DEF broadcastVars
<1> HIDE BroadcastAssumption DEF Goal, BroadcastInv, BroadcastTypeOK, GroupShape,
        OnlyMine, NeverBehind, shells, bridge, browser
<1>14. Goal'
  BY <1>1, <1>2, <1>3, <1>4, <1>5, <1>6, <1>7, <1>8, <1>9, <1>10, <1>11, <1>12, <1>13
  DEF BroadcastNext
<1>15. QED
  BY <1>14 DEF Goal

(* And then every member's, the next after the ones it has. *)
LEMMA InStepStep ==
  ASSUME BroadcastInv, [BroadcastNext]_broadcastVars
  PROVE  (InStep)'
PROOF
<1> DEFINE Goal == InStep
<1> USE BroadcastAssumption DEF BroadcastInv, BroadcastTypeOK, GroupShape,
        JoinedBefore, InStep, Due, Lists, Nobody, shells, bridge, browser
<1>1. ASSUME Press PROVE Goal'
  BY <1>1 DEF Press, Send
<1>2. ASSUME NEW ids \in Choices, AskFor(ids) PROVE Goal'
  BY <1>2 DEF AskFor, Send
<1>3. ASSUME Shows PROVE Goal'
  BY <1>3 DEF Shows
<1>4. ASSUME SetBroadcast PROVE Goal'
  <2> DEFINE ids == Head(inbox).ids
  <2>1. reader = "reading" /\ todo' = todo /\ got' = got /\ typed' = typed /\ todo = Nobody
    BY <1>4 DEF SetBroadcast, Reads
  <2>2. CASE Joins(Group(ids))
    <3>0. \A u \in Terms : Due(u)' = typed /\ Due(u) = typed
      BY <2>1
    <3> HIDE DEF Due
    <3> SUFFICES ASSUME NEW u \in Terms
                 PROVE  EndsWith(got[u], since'[u], typed - since'[u])
      BY <2>1, <3>0 DEF Goal
    <3>1. CASE mirror[u] = 1
      BY <2>1, <2>2, <3>0, <3>1 DEF Joins
    <3>2. CASE mirror[u] # 1
      <4>1. since'[u] = typed /\ typed - since'[u] = 0 /\ Len(got[u]) \in Nat
        BY <2>2, <3>2 DEF Joins
      <4>2. QED
        BY <4>1 DEF EndsWith
    <3>3. QED
      BY <3>1, <3>2
  <2>3. CASE UNCHANGED <<mirror, since, outbox>>
    BY <2>1, <2>3
  <2>4. QED
    BY <1>4, <2>2, <2>3 DEF SetBroadcast
<1>5. ASSUME Type PROVE Goal'
  <2> SUFFICES ASSUME NEW u \in Terms, mirror[u] = 1
               PROVE  EndsWith(got'[u], since[u], Due(u)' - since[u])
    BY <1>5 DEF Type, Goal
  <2>1. u # Primary
    BY DEF In
  <2>2. got'[u] = got[u] /\ Due(u)' = typed /\ Due(u) = typed
    BY <1>5, <2>1 DEF Type, Reads, Receives
  <2>3. QED
    BY <2>2
<1>6. ASSUME OwnWriteFails PROVE Goal'
  BY <1>6 DEF OwnWriteFails, Reads
<1>7. ASSUME Mirrored PROVE Goal'
  BY <1>7 DEF Mirrored
<1>8. ASSUME Stop PROVE Goal'
  BY <1>8 DEF Stop
<1>9. ASSUME NEW t \in Terms, MirrorWrite(t) PROVE Goal'
  <2> SUFFICES ASSUME NEW u \in Terms, mirror[u] = 1
               PROVE  EndsWith(got'[u], since[u], Due(u)' - since[u])
    BY <1>9 DEF MirrorWrite, Goal
  <2>1. CASE u = t
    <3>1. got[u] \in Seq(Nat) /\ since[u] \in Nat /\ todo[u] = 1
      BY <1>9, <2>1 DEF MirrorWrite
    <3>2. /\ typed - 1 - since[u] \in Nat
          /\ since[u] + (typed - 1 - since[u]) + 1 = typed
          /\ (typed - 1 - since[u]) + 1 = typed - since[u]
          /\ typed \in Nat
      <4>1. since[u] <= typed - 1 /\ typed \in Nat
        BY <2>1, <3>1
      <4>2. since[u] \in Nat
        BY <3>1
      <4> DEFINE s == since[u]
      <4>3. s \in Nat /\ s <= typed - 1
        BY <4>1, <4>2
      <4> HIDE DEF s
      <4>4. /\ typed - 1 - s \in Nat /\ s + (typed - 1 - s) + 1 = typed
            /\ (typed - 1 - s) + 1 = typed - s
        BY <4>1, <4>3
      <4>5. QED
        BY <4>1, <4>4 DEF s
    <3>3. got'[u] = Append(got[u], typed) /\ Due(u)' = typed /\ Due(u) = typed - 1
      BY <1>9, <2>1, <3>1 DEF MirrorWrite
    <3> HIDE DEF Due
    <3>4. EndsWith(got[u], since[u], typed - 1 - since[u])
      BY <3>3
    <3>5. EndsWith(Append(got[u], since[u] + (typed - 1 - since[u]) + 1), since[u],
                   (typed - 1 - since[u]) + 1)
      <4> DEFINE d == typed - 1 - since[u]
      <4>1. d \in Nat /\ since[u] + d + 1 \in Nat
        BY <3>1, <3>2
      <4>2. EndsWith(got[u], since[u], d)
        BY <3>4
      <4> HIDE DEF d
      <4>3. EndsWith(Append(got[u], since[u] + d + 1), since[u], d + 1)
        BY <3>1, <4>1, <4>2, NextKey
      <4>4. QED
        BY <4>3 DEF d
    <3>6. QED
      BY <3>2, <3>3, <3>5
  <2>2. CASE u # t
    <3>1. got'[u] = got[u] /\ Due(u)' = Due(u)
      BY <1>9, <2>2 DEF MirrorWrite
    <3>2. QED
      BY <3>1
  <2>3. QED
    BY <2>1, <2>2
<1>10. ASSUME NEW t \in Terms, MirrorFails(t) PROVE Goal'
  <2> SUFFICES ASSUME NEW u \in Terms, mirror'[u] = 1
               PROVE  EndsWith(got[u], since'[u], Due(u)' - since'[u])
    BY <1>10 DEF MirrorFails, Goal
  <2>1. CASE u = t
    <3>1. Due(u)' - since'[u] = 0 /\ Len(got[u]) \in Nat
      BY <1>10, <2>1 DEF MirrorFails
    <3>2. QED
      BY <3>1 DEF EndsWith
  <2>2. CASE u # t
    <3>1. mirror[u] = 1 /\ since'[u] = since[u] /\ Due(u)' = Due(u)
      BY <1>10, <2>2 DEF MirrorFails
    <3>2. QED
      BY <3>1
  <2>3. QED
    BY <2>1, <2>2
<1>11. ASSUME NEW t \in Terms, ShellEnds(t) PROVE Goal'
  BY <1>11 DEF ShellEnds
<1>12. ASSUME NEW t \in Terms, Removed(t) PROVE Goal'
  BY <1>12 DEF Removed
<1>13. ASSUME UNCHANGED broadcastVars PROVE Goal'
  BY <1>13 DEF broadcastVars
<1> HIDE BroadcastAssumption DEF Goal, BroadcastInv, BroadcastTypeOK, GroupShape,
        JoinedBefore, InStep, Due, Lists, Nobody, shells, bridge, browser
<1>14. Goal'
  BY <1>1, <1>2, <1>3, <1>4, <1>5, <1>6, <1>7, <1>8, <1>9, <1>10, <1>11, <1>12, <1>13
  DEF BroadcastNext
<1>15. QED
  BY <1>14 DEF Goal

(* The last of a queue is the last of what stays behind its head. *)
LEMMA LastStays ==
  ASSUME NEW S, NEW q \in Seq(S), q # <<>>
  PROVE  /\ Tail(q) = <<>> => Len(q) = 1 /\ Head(q) = q[1]
         /\ Tail(q) # <<>> => Tail(q)[Len(Tail(q))] = q[Len(q)]
<1>1. /\ Tail(q) \in Seq(S) /\ Len(Tail(q)) = Len(q) - 1 /\ Head(q) = q[1]
      /\ Len(q) \in Nat /\ \A i \in 1..Len(Tail(q)) : Tail(q)[i] = q[i + 1]
  OBVIOUS
<1>2. Tail(q) = <<>> => Len(q) = 1
  <2> DEFINE r == Tail(q)
  <2>1. r \in Seq(S) /\ Len(r) = Len(q) - 1
    BY <1>1
  <2> HIDE DEF r
  <2>2. r = <<>> => Len(r) = 0
    BY <2>1
  <2>3. QED
    BY <1>1, <2>1, <2>2 DEF r
<1>3. ASSUME Tail(q) # <<>> PROVE Tail(q)[Len(Tail(q))] = q[Len(q)]
  <2>1. Len(Tail(q)) \in 1..Len(Tail(q))
    BY <1>1, <1>3
  <2>2. QED
    BY <1>1, <2>1
<1>4. QED
  BY <1>1, <1>2, <1>3

(* Two messages keep their order while they move up. *)
LEMMA LaterMessages ==
  ASSUME BroadcastTypeOK, inbox # <<>>, inbox' = Tail(inbox),
         NEW i \in 1..Len(inbox'), NEW j \in 1..(i - 1)
  PROVE  j + 1 \in 1..((i + 1) - 1) /\ inbox'[j] = inbox[j + 1]
<1>1. Len(inbox') = Len(inbox) - 1 /\ Len(inbox) \in Nat
      /\ \A k \in 1..Len(inbox') : inbox'[k] = inbox[k + 1]
  BY Messenger
<1>2. j \in 1..Len(inbox') /\ j + 1 \in 1..((i + 1) - 1)
  BY <1>1
<1>3. QED
  BY <1>1, <1>2

(* When a message is read and the group stays, the rest is still covered. *)
LEMMA LaterKeys ==
  ASSUME BroadcastTypeOK, Covered, inbox # <<>>, inbox' = Tail(inbox), mirror' = mirror
  PROVE  Covered'
<1> SUFFICES ASSUME NEW i \in 1..Len(inbox'), inbox'[i].kind = "key"
             PROVE  /\ In(mirror) \subseteq inbox'[i].reach
                    /\ \A j \in 1..(i - 1) : inbox'[j].kind = "ask" =>
                         In(Group(inbox'[j].ids)) \subseteq inbox'[i].reach
  BY DEF Covered, In, Group
<1>1. Len(inbox') = Len(inbox) - 1 /\ \A j \in 1..Len(inbox') : inbox'[j] = inbox[j + 1]
  BY Messenger
<1>2. i + 1 \in 1..Len(inbox) /\ inbox'[i] = inbox[i + 1] /\ Len(inbox) \in Nat
  BY <1>1, Messenger
<1>3. ASSUME NEW j \in 1..(i - 1), inbox'[j].kind = "ask"
      PROVE  In(Group(inbox'[j].ids)) \subseteq inbox'[i].reach
  <2>1. j + 1 \in 1..((i + 1) - 1) /\ inbox'[j] = inbox[j + 1]
    BY LaterMessages
  <2>2. QED
    BY <1>2, <1>3, <2>1 DEF Covered
<1>4. QED
  BY <1>2, <1>3 DEF Covered

(* Asks, answers and keystrokes keep their order both ways, so a keystroke    *)
(* is read when the group is one its person knew of.                          *)
LEMMA MeantStep ==
  ASSUME BroadcastInv, [BroadcastNext]_broadcastVars
  PROVE  (WithinTold /\ Covered /\ OnlyMeant)'
PROOF
<1> DEFINE Goal == WithinTold /\ Covered /\ OnlyMeant
<1> USE BroadcastAssumption DEF BroadcastInv, BroadcastTypeOK, shells, bridge, browser
<1>1. ASSUME Press PROVE Goal'
  <2>1. /\ inbox' = Append(inbox, Keystroke(Reach)) /\ outbox' = outbox /\ shown' = shown
        /\ mirror' = mirror /\ todo' = todo /\ meant' = meant /\ reader' = reader
    BY <1>1 DEF Press, Send
  <2>2. In(mirror) \subseteq Reach
    <3>1. CASE outbox = <<>>
      BY <3>1 DEF WithinTold, Told, Reach
    <3>2. CASE outbox # <<>>
      <4>1. Len(outbox) \in 1..Len(outbox) /\ In(mirror) \subseteq outbox[Len(outbox)]
        BY <3>2 DEF WithinTold, Told
      <4>2. In(mirror) \subseteq Terms
        BY DEF In
      <4>3. QED
        BY <4>1, <4>2 DEF Reach
    <3>3. QED
      BY <3>1, <3>2
  <2>3. Covered'
    <3> SUFFICES ASSUME NEW i \in 1..Len(inbox'), inbox'[i].kind = "key"
                 PROVE  /\ In(mirror) \subseteq inbox'[i].reach
                        /\ \A j \in 1..(i - 1) : inbox'[j].kind = "ask" =>
                             In(Group(inbox'[j].ids)) \subseteq inbox'[i].reach
      BY <2>1 DEF Covered, In, Group
    <3>1. Len(inbox') = Len(inbox) + 1 /\ \A j \in 1..Len(inbox) : inbox'[j] = inbox[j]
      BY <2>1
    <3>2. CASE i \in 1..Len(inbox)
      <4>1. inbox'[i] = inbox[i] /\ Len(inbox) \in Nat
        BY <3>1, <3>2
      <4>2. ASSUME NEW j \in 1..(i - 1), inbox'[j].kind = "ask"
            PROVE  In(Group(inbox'[j].ids)) \subseteq inbox'[i].reach
        <5>1. inbox'[j] = inbox[j]
          BY <3>1, <3>2, <4>1
        <5>2. QED
          BY <3>2, <4>1, <4>2, <5>1 DEF Covered
      <4>3. QED
        BY <3>2, <4>1, <4>2 DEF Covered
    <3>3. CASE i = Len(inbox) + 1
      <4>1. inbox'[i].reach = Reach
        BY <2>1, <3>3 DEF Keystroke
      <4>2. ASSUME NEW j \in 1..(i - 1), inbox'[j].kind = "ask"
            PROVE  In(Group(inbox'[j].ids)) \subseteq Reach
        <5>1. j \in 1..Len(inbox) /\ inbox[j].kind = "ask" /\ inbox'[j] = inbox[j]
          BY <3>1, <3>3, <4>2
        <5>2. In(Group(inbox[j].ids)) \subseteq Terms
          BY DEF In
        <5>3. QED
          BY <5>1, <5>2 DEF Reach
      <4>3. QED
        BY <2>2, <4>1, <4>2
    <3>4. QED
      BY <3>1, <3>2, <3>3
  <2>4. QED
    BY <2>1, <2>3 DEF WithinTold, Told, OnlyMeant, In
<1>2. ASSUME NEW ids \in Choices, AskFor(ids) PROVE Goal'
  <2>1. /\ inbox' = Append(inbox, Ask(ids)) /\ outbox' = outbox /\ shown' = shown
        /\ mirror' = mirror /\ todo' = todo /\ meant' = meant /\ reader' = reader
    BY <1>2 DEF AskFor, Send
  <2>2. Covered'
    <3> SUFFICES ASSUME NEW i \in 1..Len(inbox'), inbox'[i].kind = "key"
                 PROVE  /\ In(mirror) \subseteq inbox'[i].reach
                        /\ \A j \in 1..(i - 1) : inbox'[j].kind = "ask" =>
                             In(Group(inbox'[j].ids)) \subseteq inbox'[i].reach
      BY <2>1 DEF Covered, In, Group
    <3>1. /\ Len(inbox') = Len(inbox) + 1 /\ inbox'[Len(inbox) + 1] = Ask(ids)
          /\ \A j \in 1..Len(inbox) : inbox'[j] = inbox[j]
      BY <2>1
    <3>2. i \in 1..Len(inbox) /\ inbox'[i] = inbox[i] /\ Len(inbox) \in Nat
      BY <3>1 DEF Ask
    <3>3. ASSUME NEW j \in 1..(i - 1), inbox'[j].kind = "ask"
          PROVE  In(Group(inbox'[j].ids)) \subseteq inbox'[i].reach
      <4>1. inbox'[j] = inbox[j]
        BY <3>1, <3>2
      <4>2. QED
        BY <3>2, <3>3, <4>1 DEF Covered
    <3>4. QED
      BY <3>2, <3>3 DEF Covered
  <2>3. QED
    BY <2>1, <2>2 DEF WithinTold, Told, OnlyMeant, In
<1>3. ASSUME Shows PROVE Goal'
  <2>1. /\ inbox' = inbox /\ outbox' = Tail(outbox) /\ shown' = Head(outbox) /\ outbox # <<>>
        /\ mirror' = mirror /\ todo' = todo /\ meant' = meant /\ reader' = reader
    BY <1>3 DEF Shows
  <2>2. Told' = Told
    <3>1. /\ Tail(outbox) = <<>> => Len(outbox) = 1 /\ Head(outbox) = outbox[1]
          /\ Tail(outbox) # <<>> => Tail(outbox)[Len(Tail(outbox))] = outbox[Len(outbox)]
      BY <2>1, LastStays
    <3>2. QED
      BY <2>1, <3>1 DEF Told
  <2>3. QED
    BY <2>1, <2>2 DEF WithinTold, Covered, OnlyMeant, In, Group
<1>4. ASSUME SetBroadcast PROVE Goal'
  <2> DEFINE ids == Head(inbox).ids
  <2>1. /\ inbox # <<>> /\ Head(inbox).kind = "ask" /\ inbox' = Tail(inbox) /\ shown' = shown
        /\ todo' = todo /\ meant' = meant /\ reader' = reader /\ reader = "reading"
    BY <1>4 DEF SetBroadcast, Reads
  <2>2. /\ Len(inbox') = Len(inbox) - 1 /\ \A i \in 1..Len(inbox') : inbox'[i] = inbox[i + 1]
        /\ Head(inbox) = inbox[1] /\ Len(inbox) \in Nat \ {0}
    BY <2>1, Messenger
  <2>3. In(mirror') = In(mirror) \/ In(mirror') = In(Group(ids))
    BY <1>4 DEF SetBroadcast, Joins
  <2>4. Covered'
    <3> SUFFICES ASSUME NEW i \in 1..Len(inbox'), inbox'[i].kind = "key"
                 PROVE  /\ In(mirror') \subseteq inbox'[i].reach
                        /\ \A j \in 1..(i - 1) : inbox'[j].kind = "ask" =>
                             In(Group(inbox'[j].ids)) \subseteq inbox'[i].reach
      BY DEF Covered, In, Group
    <3> HIDE DEF ids
    <3>1. i + 1 \in 1..Len(inbox) /\ inbox'[i] = inbox[i + 1] /\ 1 \in 1..((i + 1) - 1)
      BY <2>2
    <3>2. In(mirror) \subseteq inbox'[i].reach /\ In(Group(ids)) \subseteq inbox'[i].reach
      BY <2>1, <2>2, <3>1 DEF Covered, ids
    <3>3. ASSUME NEW j \in 1..(i - 1), inbox'[j].kind = "ask"
          PROVE  In(Group(inbox'[j].ids)) \subseteq inbox'[i].reach
      <4>1. j + 1 \in 1..((i + 1) - 1) /\ inbox'[j] = inbox[j + 1]
        BY <2>1, LaterMessages
      <4>2. inbox[j + 1].kind = "ask" /\ inbox[i + 1].kind = "key"
        BY <3>1, <3>3, <4>1
      <4>3. In(Group(inbox[j + 1].ids)) \subseteq inbox[i + 1].reach
        BY <3>1, <4>1, <4>2 DEF Covered
      <4>4. QED
        BY <3>1, <4>1, <4>3
    <3>4. QED
      BY <2>3, <3>2, <3>3
  <2>5. WithinTold'
    <3>1. CASE Joins(Group(ids)) /\ outbox' = Append(outbox, In(Group(ids)))
      <4>1. In(mirror') = In(Group(ids))
        BY <3>1 DEF Joins
      <4>2. Told' = In(Group(ids))
        <5>1. In(Group(ids)) \in SUBSET Terms
          BY DEF In
        <5> DEFINE g == In(Group(ids))
        <5>2. outbox' = Append(outbox, g) /\ g \in SUBSET Terms
          BY <3>1, <5>1
        <5> HIDE DEF g
        <5>3. outbox' # <<>> /\ outbox'[Len(outbox')] = g
          BY <5>2
        <5>4. Told' = g
          BY <5>3 DEF Told
        <5>5. QED
          BY <5>4 DEF g
      <4>3. QED
        BY <4>1, <4>2 DEF WithinTold, In
    <3>2. CASE UNCHANGED <<mirror, since, outbox>>
      BY <2>1, <3>2 DEF WithinTold, Told, In
    <3>3. QED
      BY <1>4, <3>1, <3>2 DEF SetBroadcast
  <2>6. OnlyMeant'
    BY <2>1 DEF OnlyMeant
  <2>7. QED
    BY <2>4, <2>5, <2>6
<1>5. ASSUME Type PROVE Goal'
  <2>1. /\ inbox # <<>> /\ Head(inbox).kind = "key" /\ inbox' = Tail(inbox) /\ shown' = shown
        /\ todo' = mirror /\ meant' = Head(inbox).reach /\ mirror' = mirror
        /\ outbox' = outbox
    BY <1>5 DEF Type, Reads
  <2>2. OnlyMeant'
    <3>1. 1 \in 1..Len(inbox) /\ Head(inbox) = inbox[1]
      BY <2>1, Messenger
    <3>2. QED
      BY <2>1, <3>1 DEF Covered, OnlyMeant, In
  <2>3. Covered'
    BY <2>1, LaterKeys
  <2>4. QED
    BY <2>1, <2>2, <2>3 DEF WithinTold, Told, In
<1>6. ASSUME OwnWriteFails PROVE Goal'
  <2>1. /\ inbox # <<>> /\ inbox' = Tail(inbox) /\ shown' = shown
        /\ todo' = todo /\ meant' = meant /\ mirror' = mirror /\ outbox' = outbox
        /\ reader' = "stopped"
    BY <1>6 DEF OwnWriteFails, Reads
  <2>2. Covered'
    BY <2>1, LaterKeys
  <2>3. QED
    BY <2>1, <2>2 DEF WithinTold, Told, OnlyMeant, In
<1>7. ASSUME Mirrored PROVE Goal'
  BY <1>7 DEF Mirrored, WithinTold, Told, Covered, OnlyMeant, In, Group
<1>8. ASSUME Stop PROVE Goal'
  BY <1>8 DEF Stop, WithinTold, Told, Covered, OnlyMeant, In, Group
<1>9. ASSUME NEW t \in Terms, MirrorWrite(t) PROVE Goal'
  <2>1. In(todo') \subseteq In(todo)
    BY <1>9 DEF MirrorWrite, In, Lists
  <2>2. QED
    BY <1>9, <2>1 DEF MirrorWrite, WithinTold, Told, Covered, OnlyMeant, In, Group
<1>10. ASSUME NEW t \in Terms, MirrorFails(t) PROVE Goal'
  <2>1. In(todo') \subseteq In(todo) /\ In(mirror') \subseteq In(mirror)
    BY <1>10 DEF MirrorFails, In, Lists
  <2>2. /\ inbox' = inbox /\ outbox' = outbox /\ shown' = shown /\ meant' = meant
        /\ reader' = reader
    BY <1>10 DEF MirrorFails
  <2>3. Covered'
    <3> SUFFICES ASSUME NEW i \in 1..Len(inbox), inbox[i].kind = "key"
                 PROVE  /\ In(mirror') \subseteq inbox[i].reach
                        /\ \A j \in 1..(i - 1) : inbox[j].kind = "ask" =>
                             In(Group(inbox[j].ids)) \subseteq inbox[i].reach
      BY <2>2 DEF Covered, In, Group
    <3>1. QED
      BY <2>1 DEF Covered
  <2>4. QED
    BY <2>1, <2>2, <2>3 DEF WithinTold, Told, OnlyMeant
<1>11. ASSUME NEW t \in Terms, ShellEnds(t) PROVE Goal'
  BY <1>11 DEF ShellEnds, WithinTold, Told, Covered, OnlyMeant, In, Group
<1>12. ASSUME NEW t \in Terms, Removed(t) PROVE Goal'
  BY <1>12 DEF Removed, WithinTold, Told, Covered, OnlyMeant, In, Group
<1>13. ASSUME UNCHANGED broadcastVars PROVE Goal'
  BY <1>13 DEF broadcastVars, WithinTold, Told, Covered, OnlyMeant, In, Group
<1> HIDE BroadcastAssumption DEF Goal, BroadcastInv, BroadcastTypeOK, shells, bridge,
        browser
<1>14. Goal'
  BY <1>1, <1>2, <1>3, <1>4, <1>5, <1>6, <1>7, <1>8, <1>9, <1>10, <1>11, <1>12, <1>13
  DEF BroadcastNext
<1>15. QED
  BY <1>14 DEF Goal

(* With no group, nothing typed and nothing under way it holds. *)
LEMMA BroadcastInvInit == BroadcastInit => BroadcastInv
<1> SUFFICES ASSUME BroadcastInit PROVE BroadcastInv
  OBVIOUS
<1> USE BroadcastAssumption DEF BroadcastInit, Lists, Nobody, In
<1>1. BroadcastTypeOK
  BY DEF BroadcastTypeOK
<1>2. GroupShape /\ JoinedBefore /\ OnlyMine /\ InStep
  BY DEF GroupShape, JoinedBefore, OnlyMine, InStep
<1>3. NeverBehind
  BY DEF NeverBehind
<1>4. WithinTold /\ Covered /\ OnlyMeant
  BY DEF WithinTold, Told, Covered, OnlyMeant
<1>5. QED
  BY <1>1, <1>2, <1>3, <1>4 DEF BroadcastInv

(* Every step of the browser, of the reader, and of terminals ending around  *)
(* them, keeps it.                                                           *)
LEMMA BroadcastInvStep == BroadcastInv /\ [BroadcastNext]_broadcastVars => BroadcastInv'
  BY BroadcastTypesStep, GroupStep, TypedStep, InStepStep, MeantStep DEF BroadcastInv

(* So it holds throughout. *)
LEMMA BroadcastInvHolds == BroadcastSpec => []BroadcastInv
  BY BroadcastInvInit, BroadcastInvStep, PTL DEF BroadcastSpec

(* The group and what each shell received are well formed in every reachable *)
(* state.                                                                    *)
THEOREM BroadcastTypeCorrect == BroadcastSpec => []BroadcastTypeOK
<1>1. BroadcastInv => BroadcastTypeOK
  BY DEF BroadcastInv
<1>2. QED
  BY <1>1, BroadcastInvHolds, PTL

(* Every terminal typed into has the keystrokes meant for it, once and in    *)
(* order, whichever members fail or end and however the group is changed     *)
(* between two of them (readFromBrowser, mirrorInput).                       *)
THEOREM KeysAlwaysInStep == BroadcastSpec => []KeysInStep
<1>1. BroadcastInv => KeysInStep
  BY DEF BroadcastInv, KeysInStep
<1>2. QED
  BY <1>1, BroadcastInvHolds, PTL

(* A broadcast never types into another user's terminal, nor into one the    *)
(* person had neither been shown as joined nor asked to join when they       *)
(* pressed the key, whatever lists they ask for and however many messages    *)
(* cross (Targets, setBroadcast, mirrorInput, onBroadcast).                  *)
THEOREM GroupAlwaysHonest == BroadcastSpec => []GroupHonest
<1>1. BroadcastInv => GroupHonest
  BY DEF BroadcastInv, GroupHonest
<1>2. QED
  BY <1>1, BroadcastInvHolds, PTL
============================================================================
