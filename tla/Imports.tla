------------------------------ MODULE Imports ------------------------------
(***************************************************************************)
(* Imports into the tree: the staging area of internal/api/                *)
(* portability_handlers.go and Service.Import of internal/portability.     *)
(* An import is one request that reads the tree once and then makes        *)
(* folders, connections and chains one by one through the store's          *)
(* operations, while other requests go on.  It may stop after any of them; *)
(* what it has made stays.  What an upload is parsed into is a bundle: any *)
(* folders and chains, loops included, and folders that share an id.       *)
(***************************************************************************)
EXTENDS Tree, FiniteSetsExt

CONSTANTS Bundles,    \* uploads: folders by id, whether two share one, connections in order
          Tokens,     \* of previews; each is given once
          MaxStaged   \* maxStagedPerUser

ASSUME ImportsAssumption == MaxStaged \in Nat \ {0} /\ None \notin Bundles

VARIABLES staged,   \* the previews that wait: [user, bundle], None or Gone
          imp,      \* the import each request is making
          commits   \* how often a preview has been committed

importVars == <<staged, imp, commits>>
vars == <<treeVars, importVars>>

NoImport == [phase |-> "none"]
Importing(r) == imp[r].phase # "none"

ImportsInit ==
  /\ Init
  /\ staged  = [k \in Tokens |-> None]
  /\ imp     = [r \in Requests |-> NoImport]
  /\ commits = [k \in Tokens |-> 0]

(* handlePreviewImport and staging.put. *)
PreviewImport(u, k, b) ==
  /\ Spend("import") /\ staged[k] = None
  /\ Cardinality({j \in Tokens : staged[j] \notin {None, Gone} /\ staged[j].user = u}) < MaxStaged
  /\ staged' = [staged EXCEPT ![k] = [user |-> u, bundle |-> b]]
  /\ UNCHANGED <<teamVars, folderVars, connVars, pending, raceVars, imp, commits>>

(* handleDiscardImport, staging.forget when the vault is locked, and the      *)
(* expiry that sweepLocked looks for before every put and take.               *)
Unstage(k) ==
  /\ staged[k] \notin {None, Gone}
  /\ staged' = [staged EXCEPT ![k] = Gone]
  /\ UNCHANGED <<treeVars, imp, commits>>

(* Slip: the preview stays staged after it was taken. *)
take_Peeks(k) == UNCHANGED staged

(* staging.take: under the lock, found and deleted. *)
take(k) == staged' = [staged EXCEPT ![k] = Gone]

(* inParentOrder passes over the folders until as many are placed as there    *)
(* are, and places an id once: with an id that two share it passes for ever.  *)
inParentOrder(bundle) == IF bundle.twice THEN "ordering" ELSE "folders"

(* handleCommitImport and Import, to the first folder: the preview is taken   *)
(* first, so a locked vault or a credential refused loses it.  Import then    *)
(* has read the tree and puts the folders in order.                           *)
CommitImport(r, u, k, into, mode, goesOn) ==
  /\ ~Busy(r) /\ ~Importing(r)
  /\ staged[k] \notin {None, Gone} /\ staged[k].user = u
  /\ take(k)
  /\ IF goesOn
     THEN /\ imp' = [imp EXCEPT ![r] =
               [phase |-> inParentOrder(staged[k].bundle), user |-> u, into |-> into, mode |-> mode,
                bundle |-> staged[k].bundle,
                folderIDs |-> <<>>, sessionIDs |-> <<>>, loose |-> FALSE, at |-> None,
                takenFolders |-> [n \in {name[f] : f \in {g \in There : owner[g] = u}} |->
                                    CHOOSE f \in There : owner[f] = u /\ name[f] = n],
                takenSessions |-> {<<folder[c], label[c]>> : c \in {d \in Saved : holder[d] = u}}]]
          /\ commits' = [commits EXCEPT ![k] = @ + 1]
     ELSE UNCHANGED <<imp, commits>>
  /\ UNCHANGED treeVars

(* Any error but a refused chain ends the import, once it is past ordering. *)
ImportStops(r) ==
  /\ Importing(r) /\ imp[r].phase # "ordering"
  /\ imp' = [imp EXCEPT ![r] = NoImport]
  /\ pending' = [pending EXCEPT ![r] = Nothing]
  /\ stale' = stale \ {r}
  /\ UNCHANGED <<left, teamVars, folderVars, connVars, raced, staged, commits>>

uniqueName(n, taken) ==
  <<n[1], Min({i \in 2..(Cardinality(taken) + 2) : <<n[1], i>> \notin taken})>>

(* One step of r's import that has nothing in flight. *)
At(r, phase) == imp[r].phase = phase /\ ~Busy(r)
Go(r, what) ==
  /\ pending' = [pending EXCEPT ![r] = what]
  /\ UNCHANGED <<left, teamVars, folderVars, connVars, raceVars, staged, commits>>

(* m[k] = v, of a Go map. *)
Set(m, k, v) == [x \in DOMAIN m \cup {k} |-> IF x = k THEN v ELSE m[x]]

(* The order of inParentOrder: parents first; what is left when no parent    *)
(* can come first lies in a loop and goes to the top.                        *)
Left(i)    == DOMAIN i.bundle.folders \ DOMAIN i.folderIDs
Parent(i, g) == IF i.loose THEN None ELSE i.bundle.folders[g].parent
Ready(i)   == {g \in Left(i) : Parent(i, g) \notin Left(i)}

BreakLoop(r) ==
  /\ At(r, "folders") /\ Left(imp[r]) # {} /\ Ready(imp[r]) = {}
  /\ imp' = [imp EXCEPT ![r].loose = TRUE]
  /\ UNCHANGED <<treeVars, staged, commits>>

(* A folder: one of that name anywhere is used as it is, or another made. *)
ImportFolder(r, g) ==
  LET i      == imp[r]
      n      == i.bundle.folders[g].name
      clash  == n \in DOMAIN i.takenFolders
      p      == Parent(i, g)
      within == IF p \in DOMAIN i.folderIDs THEN i.folderIDs[p] ELSE i.into
  IN
  /\ At(r, "folders") /\ g \in Ready(i)
  /\ IF clash /\ i.mode # "rename"
     THEN /\ imp' = [imp EXCEPT ![r].folderIDs = Set(@, g, i.takenFolders[n])]
          /\ UNCHANGED <<treeVars, staged, commits>>
     ELSE /\ depthOf(i.user, within)
          /\ imp' = [imp EXCEPT ![r].at = g]
          /\ Go(r, [op |-> "createFolder", owner |-> i.user, parent |-> within,
                    name |-> IF clash THEN uniqueName(n, DOMAIN i.takenFolders) ELSE n])

ImportedFolder(r) ==
  LET f == Fresh(owner) IN
  /\ imp[r].phase = "folders" /\ InsertFolder(r)
  /\ imp' = [imp EXCEPT ![r].folderIDs = Set(@, imp[r].at, f), ![r].at = None,
                        ![r].takenFolders = Set(@, pending[r].name, f)]
  /\ UNCHANGED <<staged, commits>>

FoldersDone(r) ==
  /\ At(r, "folders") /\ Left(imp[r]) = {}
  /\ imp' = [imp EXCEPT ![r].phase = "conns", ![r].at = 1]
  /\ UNCHANGED <<treeVars, staged, commits>>

(* A connection, without its chain; one of that name in that folder is kept. *)
ImportSession(r) ==
  LET i      == imp[r]
      s      == i.bundle.conns[i.at]
      within == IF s.folder \in DOMAIN i.folderIDs THEN i.folderIDs[s.folder] ELSE i.into
      clash  == <<within, s.name>> \in i.takenSessions
      used   == {t[2] : t \in {x \in i.takenSessions : x[1] = within}}
  IN
  /\ At(r, "conns") /\ i.at \in DOMAIN i.bundle.conns
  /\ IF clash /\ i.mode # "rename"
     THEN imp' = [imp EXCEPT ![r].at = @ + 1] /\ UNCHANGED <<treeVars, staged, commits>>
     ELSE /\ within # None => owner[within] = i.user
          /\ UNCHANGED imp
          /\ Go(r, [op |-> "createSession", owner |-> i.user, folder |-> within, chain |-> <<>>,
                    ssh |-> s.ssh, name |-> IF clash THEN uniqueName(s.name, used) ELSE s.name])

ImportedSession(r) ==
  LET i == imp[r] IN
  /\ i.phase = "conns" /\ InsertSession(r)
  /\ imp' = [imp EXCEPT ![r].at = @ + 1,
                        ![r].sessionIDs = Set(@, i.bundle.conns[i.at].id, Fresh(holder)),
                        ![r].takenSessions = @ \cup {<<pending[r].folder, pending[r].name>>}]
  /\ UNCHANGED <<staged, commits>>

SessionsDone(r) ==
  /\ At(r, "conns") /\ imp[r].at \notin DOMAIN imp[r].bundle.conns
  /\ imp' = [imp EXCEPT ![r].phase = "chains", ![r].at = 1]
  /\ UNCHANGED <<treeVars, staged, commits>>

(* A chain, of the hops that were imported; a chain that is refused is left   *)
(* out and the import goes on.                                                *)
ImportChain(r) ==
  LET i     == imp[r]
      s     == i.bundle.conns[i.at]
      Made(h) == h \in DOMAIN i.sessionIDs
      hops  == SelectSeq(s.chain, Made)
      chain == [j \in DOMAIN hops |-> i.sessionIDs[hops[j]]]
  IN
  /\ At(r, "chains") /\ i.at \in DOMAIN i.bundle.conns
  /\ IF Made(s.id) /\ chain # <<>>
     THEN LET c == i.sessionIDs[s.id] IN
          /\ holder[c] = i.user
          /\ IF ValidateJumpChain(i.user, c, chain)
             THEN /\ UNCHANGED imp
                  /\ Go(r, [op |-> "updateSession", id |-> c, folder |-> folder[c],
                            name |-> label[c], chain |-> chain, ssh |-> ssh[c]])
             ELSE imp' = [imp EXCEPT ![r].at = @ + 1] /\ UNCHANGED <<treeVars, staged, commits>>
     ELSE imp' = [imp EXCEPT ![r].at = @ + 1] /\ UNCHANGED <<treeVars, staged, commits>>

ImportedChain(r) ==
  /\ imp[r].phase = "chains" /\ WriteSession(r)
  /\ imp' = [imp EXCEPT ![r].at = @ + 1]
  /\ UNCHANGED <<staged, commits>>

ImportDone(r) ==
  /\ At(r, "chains") /\ imp[r].at \notin DOMAIN imp[r].bundle.conns
  /\ imp' = [imp EXCEPT ![r] = NoImport]
  /\ UNCHANGED <<treeVars, staged, commits>>

ImportStep(r) ==
  \/ \E g \in Left(imp[r]) : ImportFolder(r, g)
  \/ BreakLoop(r) \/ ImportedFolder(r) \/ FoldersDone(r)
  \/ ImportSession(r) \/ ImportedSession(r) \/ SessionsDone(r)
  \/ ImportChain(r) \/ ImportedChain(r) \/ ImportDone(r) \/ ImportStops(r)

ImportsNext ==
  \/ TeamStep /\ UNCHANGED importVars
  \/ \E r \in Requests :
       \/ ~Importing(r) /\ (Checks(r) \/ Writes(r) \/ Abort(r)) /\ UNCHANGED importVars
       \/ Importing(r) /\ ImportStep(r)
       \/ \E u \in Users, k \in Tokens, into \in There \cup {None},
            mode \in {"skip", "rename"}, goesOn \in BOOLEAN :
              CommitImport(r, u, k, into, mode, goesOn)
  \/ \E u \in Users, k \in Tokens, b \in Bundles : PreviewImport(u, k, b)
  \/ \E k \in Tokens : Unstage(k)

ImportsSpec == ImportsInit /\ [][ImportsNext]_vars

-----------------------------------------------------------------------------
(* A preview is committed at most once, however often the browser asks: a    *)
(* second commit of the same token would make everything again.              *)
CommittedOnce == \A k \in Tokens : commits[k] <= 1
=============================================================================
