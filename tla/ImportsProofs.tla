--------------------------- MODULE ImportsProofs ---------------------------
(***************************************************************************)
(* Proofs about Tree and Imports: for any users, teams, folders and saved  *)
(* connections, any number of overlapping requests and imports, and any    *)
(* bundle imported.                                                        *)
(***************************************************************************)
EXTENDS Imports, TLAPS

(***************************************************************************)
(* The inductive invariant.                                                *)
(***************************************************************************)

(* The rows of the tree; what is not there has no parent. *)
TreeRows ==
  /\ owner \in [Folders -> Owners \cup {None, Gone}]
  /\ parent \in [Folders -> Folders \cup {None}]
  /\ holder \in [Conns -> Owners \cup {None, Gone}]
  /\ folder \in [Conns -> Folders \cup {None}]
  /\ DOMAIN pending = Requests
  /\ \A f \in Folders : ~HasFolder(f) => parent[f] = None

(* What a request has checked of owners still holds at its write, unless the *)
(* folder is gone, which the write notices: an owner never changes, and an   *)
(* id is never given again.                                                  *)
Under(p, o) == p \in Folders \cup {None} /\ (p # None => owner[p] \in {o, Gone})

Placed(w) ==
  /\ w.op = "createFolder" => w.owner \in Owners /\ Under(w.parent, w.owner)
  /\ w.op = "updateFolder" =>
       /\ w.id \in Folders /\ owner[w.id] # None
       /\ w.parent \in Folders \cup {None}
       /\ w.parent # None => /\ owner[w.parent] # None
                             /\ owner[w.id] = Gone \/ Under(w.parent, owner[w.id])
  /\ w.op = "createSession" => w.owner \in Owners /\ Under(w.folder, w.owner)
  /\ w.op = "updateSession" =>
       /\ w.id \in Conns /\ holder[w.id] # None
       /\ w.folder \in Folders \cup {None}
       /\ w.folder # None => /\ owner[w.folder] # None
                             /\ holder[w.id] = Gone \/ Under(w.folder, holder[w.id])
  /\ w.op \in {"deleteFolder", "deleteTree"} => w.id \in Folders
  /\ w.op = "deleteTeam" => w.id \in Teams

(* What a request has checked of the shape of the tree still holds as long   *)
(* as no write has overtaken it.                                             *)
Current(w) ==
  /\ w.op = "updateFolder" /\ HasFolder(w.id) =>
       w.parent \in {None, parent[w.id]} \/ w.id \notin Above(w.parent)
  /\ w.op = "deleteTree" /\ HasFolder(w.id) =>
       w.listed = descendantFolderIDs(owner[w.id], w.id)

RequestsSound == \A r \in Requests : /\ Placed(pending[r])
                                     /\ r \notin stale => Current(pending[r])

TreeInv == TreeRows /\ OwnersKept /\ RequestsSound /\ MovesNeedRaces

(* What an import has noted of the tree are ids. *)
Noted(i) ==
  /\ {"phase", "user", "into", "folderIDs", "sessionIDs", "takenFolders"} \subseteq DOMAIN i
  /\ i.user \in Users /\ i.into \in Folders \cup {None}
  /\ \A x \in DOMAIN i.folderIDs : i.folderIDs[x] \in Folders
  /\ \A x \in DOMAIN i.takenFolders : i.takenFolders[x] \in Folders
  /\ \A x \in DOMAIN i.sessionIDs : i.sessionIDs[x] \in Conns

ImportsSound == DOMAIN imp = Requests /\ \A r \in Requests : Importing(r) => Noted(imp[r])

(* A preview that was committed is gone. *)
Spent ==
  /\ DOMAIN staged = Tokens /\ DOMAIN commits = Tokens
  /\ \A k \in Tokens : commits[k] = 0 \/ (commits[k] = 1 /\ staged[k] = Gone)

IInv == TreeInv /\ ImportsSound /\ Spent

(* A tree in which no folder lies under itself. *)
NoLoop(up) == \A g \in Folders : up[g] # None => g \notin Walk(up, up[g])
-----------------------------------------------------------------------------
(* The constants, as the proofs use them. *)
LEMMA Constants ==
  /\ None \notin Owners /\ Gone \notin Owners /\ None # Gone
  /\ None \notin Folders /\ None \notin Conns
  /\ Users \subseteq Owners /\ Teams \subseteq Owners /\ Users \cap Teams = {}
  BY TreeAssumption DEF Owners

(***************************************************************************)
(* Walks up a tree.                                                        *)
(***************************************************************************)

(* A walk begins where it begins. *)
LEMMA WalkSelf ==
  ASSUME NEW up, NEW f \in Folders
  PROVE  f \in Walk(up, f)
  BY DEF Walk

(* It goes on to the parent of every folder it meets. *)
LEMMA WalkClosed ==
  ASSUME NEW up \in [Folders -> Folders \cup {None}], NEW f, NEW h \in Walk(up, f),
         up[h] # None
  PROVE  up[h] \in Walk(up, f)
  BY DEF Walk

(* And meets nothing else. *)
LEMMA WalkLeast ==
  ASSUME NEW up, NEW f, NEW F \in SUBSET Folders, f \in F,
         \A h \in F : up[h] \in F \cup {None}
  PROVE  Walk(up, f) \subseteq F
  BY DEF Walk

(* A walk from a folder on the walk is a part of it. *)
LEMMA WalkOn ==
  ASSUME NEW up \in [Folders -> Folders \cup {None}], NEW f, NEW h \in Walk(up, f)
  PROVE  Walk(up, h) \subseteq Walk(up, f)
<1>1. Walk(up, f) \in SUBSET Folders
  BY DEF Walk
<1>2. \A g \in Walk(up, f) : up[g] \in Walk(up, f) \cup {None}
  BY WalkClosed
<1>3. QED
  BY <1>1, <1>2, WalkLeast

(* A tree with fewer edges has shorter walks. *)
LEMMA WalkFewer ==
  ASSUME NEW up \in [Folders -> Folders \cup {None}], NEW less, NEW f \in Folders,
         \A h \in Folders : less[h] \in {up[h], None}
  PROVE  Walk(less, f) \subseteq Walk(up, f)
<1>1. Walk(up, f) \in SUBSET Folders /\ f \in Walk(up, f)
  BY WalkSelf DEF Walk
<1>2. \A g \in Walk(up, f) : up[g] \in Walk(up, f) \cup {None}
  BY WalkClosed
<1>3. \A g \in Walk(up, f) : less[g] \in Walk(up, f) \cup {None}
  BY <1>1, <1>2
<1>4. QED
  BY <1>1, <1>3, WalkLeast

(* So has a tree in which a folder moved that the walk does not meet. *)
LEMMA WalkAway ==
  ASSUME NEW up \in [Folders -> Folders \cup {None}], NEW f \in Folders,
         NEW x, x \notin Walk(up, f), NEW p
  PROVE  Walk([up EXCEPT ![x] = p], f) \subseteq Walk(up, f)
<1>1. Walk(up, f) \in SUBSET Folders /\ f \in Walk(up, f)
  BY WalkSelf DEF Walk
<1>2. \A g \in Walk(up, f) : up[g] \in Walk(up, f) \cup {None}
  BY WalkClosed
<1>3. \A g \in Walk(up, f) : [up EXCEPT ![x] = p][g] \in Walk(up, f) \cup {None}
  BY <1>1, <1>2
<1>4. QED
  BY <1>1, <1>3, WalkLeast

(* Cutting edges makes no loop. *)
LEMMA CutNoLoop ==
  ASSUME NEW up \in [Folders -> Folders \cup {None}], NEW less, NoLoop(up),
         \A h \in Folders : less[h] \in {up[h], None}
  PROVE  NoLoop(less)
<1> SUFFICES ASSUME NEW g \in Folders, less[g] # None, g \in Walk(less, less[g])
             PROVE  FALSE
  BY DEF NoLoop
<1>1. less[g] = up[g] /\ up[g] \in Folders
  OBVIOUS
<1>2. g \in Walk(up, up[g])
  BY <1>1, WalkFewer
<1>3. QED
  BY <1>1, <1>2 DEF NoLoop

(* Nor does moving a folder under one whose walk does not meet it, which is  *)
(* what checkMove looks for.                                                 *)
LEMMA MoveNoLoop ==
  ASSUME NEW up \in [Folders -> Folders \cup {None}], NoLoop(up),
         NEW x \in Folders, NEW p \in Folders, x \notin Walk(up, p), None \notin Folders
  PROVE  NoLoop([up EXCEPT ![x] = p])
<1> DEFINE to == [up EXCEPT ![x] = p]
<1> SUFFICES ASSUME NEW g \in Folders, to[g] # None, g \in Walk(to, to[g])
             PROVE  FALSE
  BY DEF NoLoop
<1>0. to \in [Folders -> Folders \cup {None}]
  OBVIOUS
<1>1. Walk(to, p) \subseteq Walk(up, p)
  BY WalkAway
<1>2. CASE g = x
  BY <1>1, <1>2
<1>3. CASE g # x
  <2>1. to[g] = up[g] /\ up[g] \in Folders
    BY <1>3
  <2>2. CASE x \notin Walk(up, up[g])
    <3>1. g \in Walk(up, up[g])
      BY <2>1, <2>2, WalkAway
    <3>2. QED
      BY <2>1, <3>1 DEF NoLoop
  <2>3. CASE x \in Walk(up, up[g])
    <3> DEFINE S == Walk(up, up[g]) \cup Walk(up, p)
    <3>1. S \in SUBSET Folders /\ up[g] \in S
      BY <2>1, WalkSelf DEF Walk
    <3>2. ASSUME NEW h \in S PROVE to[h] \in S \cup {None}
      <4>1. CASE h = x
        BY <4>1, WalkSelf, <3>1
      <4>2. CASE h # x
        <5>1. h \in Folders /\ to[h] = up[h]
          BY <3>1, <4>2
        <5>2. up[h] \in S \cup {None}
          BY WalkClosed
        <5>3. QED
          BY <5>1, <5>2
      <4>3. QED
        BY <4>1, <4>2
    <3> HIDE DEF S, to
    <3>3. g \in S
      BY <2>1, <3>1, <3>2, WalkLeast
    <3>4. g \notin Walk(up, up[g])
      BY <2>1 DEF NoLoop
    <3>5. g \in Walk(up, p)
      BY <3>3, <3>4 DEF S
    <3>6. up[g] \in Walk(up, p)
      BY <2>1, <3>5, WalkClosed
    <3>7. x \in Walk(up, p)
      BY <2>3, <3>6, WalkOn
    <3>8. QED
      BY <3>7
  <2>4. QED
    BY <2>2, <2>3
<1>4. QED
  BY <1>2, <1>3

(***************************************************************************)
(* Steps of the tree.                                                      *)
(***************************************************************************)

(* A request has checked something and has it in hand, or gives it up. *)
LEMMA CheckKeeps ==
  ASSUME TreeInv, NEW r \in Requests, NEW w, Placed(w), Current(w),
         pending' = [pending EXCEPT ![r] = w], stale' \in {stale, stale \ {r}},
         UNCHANGED <<folderVars, connVars, raced>>
  PROVE  TreeInv'
<1>1. TreeRows' /\ OwnersKept'
  BY DEF TreeInv, TreeRows, OwnersKept, HasFolder, HasConn, Owners,
         folderVars, connVars
<1>2. MovesNeedRaces'
  BY DEF TreeInv, MovesNeedRaces, OnCycle, Above, Walk, folderVars
<1>3. ASSUME NEW q \in Requests
      PROVE  Placed(pending[q])' /\ (q \notin stale' => Current(pending[q])')
  <2>1. Placed(pending'[q]) /\ (q \notin stale' => Current(pending'[q]))
    BY DEF TreeInv, TreeRows, RequestsSound
  <2>2. Placed(pending[q])' <=> Placed(pending'[q])
    BY DEF Placed, Under, folderVars, connVars
  <2>3. Current(pending[q])' <=> Current(pending'[q])
    BY DEF Current, HasFolder, Above, Walk, descendantFolderIDs, Below, There,
           folderVars
  <2>4. QED
    BY <2>1, <2>2, <2>3
<1>4. QED
  BY <1>1, <1>2, <1>3 DEF TreeInv, RequestsSound

(* A step of the teams, or of an import between two of its requests. *)
LEMMA TreeUntouched ==
  ASSUME TreeInv, UNCHANGED <<folderVars, connVars, pending, raceVars>>
  PROVE  TreeInv'
<1>1. TreeRows' /\ OwnersKept'
  BY DEF TreeInv, TreeRows, OwnersKept, HasFolder, HasConn, Owners,
         folderVars, connVars
<1>2. MovesNeedRaces'
  BY DEF TreeInv, MovesNeedRaces, OnCycle, Above, Walk, folderVars, raceVars
<1>3. ASSUME NEW q \in Requests
      PROVE  Placed(pending[q])' /\ (q \notin stale' => Current(pending[q])')
  <2>1. Placed(pending[q]) /\ (q \notin stale => Current(pending[q]))
    BY DEF TreeInv, RequestsSound
  <2>2. Placed(pending[q])' <=> Placed(pending[q])
    BY DEF Placed, Under, folderVars, connVars
  <2>3. Current(pending[q])' <=> Current(pending[q])
    BY DEF Current, HasFolder, Above, Walk, descendantFolderIDs, Below, There,
           folderVars
  <2>4. QED
    BY <2>1, <2>2, <2>3 DEF raceVars
<1>4. QED
  BY <1>1, <1>2, <1>3 DEF TreeInv, RequestsSound

(* What Finish leaves of the other requests: their checks, and of those it   *)
(* has not overtaken neither a recursive deletion nor a like update.         *)
LEMMA Finished ==
  ASSUME NEW r \in Requests, Finish(r), DOMAIN pending = Requests
  PROVE  /\ DOMAIN pending' = Requests /\ pending'[r].op = "nothing"
         /\ \A q \in Requests \ {r} : pending'[q] = pending[q]
         /\ \A q \in Requests : q \notin stale' =>
              /\ q # r => q \notin stale
              /\ pending'[q].op # "deleteTree"
              /\ pending[r].op = "updateFolder" => pending'[q].op # "updateFolder"
<1>1. DOMAIN pending' = Requests /\ pending'[r] = Nothing
      /\ \A q \in Requests \ {r} : pending'[q] = pending[q]
  BY DEF Finish
<1>2. Nothing.op = "nothing"
  BY DEF Nothing
<1>3. ASSUME NEW q \in Requests, q \notin stale'
      PROVE  /\ q # r => q \notin stale
             /\ pending'[q].op # "deleteTree"
             /\ pending[r].op = "updateFolder" => pending'[q].op # "updateFolder"
  <2>1. CASE q = r
    BY <1>1, <1>2, <2>1
  <2>2. CASE q # r
    BY <1>1, <1>3, <2>2 DEF Finish, Updates
  <2>3. QED
    BY <2>1, <2>2
<1>4. QED
  BY <1>1, <1>2, <1>3

(* A request that is through has nothing to keep. *)
LEMMA NothingPlaced ==
  ASSUME NEW w, w.op = "nothing"
  PROVE  Placed(w) /\ Current(w) /\ Placed(w)' /\ Current(w)'
  BY DEF Placed, Current

(* A folder that is there lies in one that is there. *)
LEMMA ParentThere ==
  ASSUME TreeRows, OwnersKept, NEW g \in Folders, parent[g] # None
  PROVE  HasFolder(g) /\ owner[parent[g]] = owner[g] /\ HasFolder(parent[g])
  BY DEF TreeRows, OwnersKept, HasFolder

(* No walk from a folder that was ever there meets an id not given yet. *)
LEMMA FreshApart ==
  ASSUME TreeRows, OwnersKept, NEW f \in Folders, owner[f] = None,
         NEW g \in Folders \ {f}
  PROVE  f \notin Walk(parent, g)
<1>1. ASSUME NEW h \in Folders \ {f} PROVE parent[h] \in (Folders \ {f}) \cup {None}
  BY ParentThere, Constants DEF TreeRows, HasFolder
<1>2. QED
  BY <1>1, WalkLeast

(* What a write may do to the owners of rows: delete them, or make a row of  *)
(* an id not given yet.                                                      *)
OwnersStay ==
  /\ \A f \in Folders : owner[f] # None => owner'[f] \in {owner[f], Gone}
  /\ \A c \in Conns : holder[c] # None => holder'[c] \in {holder[c], Gone}

(* What every write but a move may do to the tree: cut it, or add to it. *)
TreeStays ==
  \A f \in Folders : owner[f] # None =>
    /\ HasFolder(f)' => HasFolder(f) /\ parent'[f] = parent[f]
    /\ Walk(parent', f) \subseteq Walk(parent, f)

(* What was checked of owners survives such a write. *)
LEMMA PlacedStays ==
  ASSUME TreeRows, OwnersStay, NEW w, Placed(w)
  PROVE  Placed(w)'
<1>1. \A x \in Folders : owner[x] # None => owner'[x] \in {owner[x], Gone}
  BY DEF OwnersStay
<1>2. \A c \in Conns : holder[c] # None => holder'[c] \in {holder[c], Gone}
  BY DEF OwnersStay
<1>3. ASSUME NEW p, NEW o, o # None, Under(p, o) PROVE Under(p, o)'
  BY <1>1, <1>3, Constants DEF Under
<1>4. w.op = "createFolder" => w.owner \in Owners /\ Under(w.parent, w.owner)'
  BY <1>3, Constants DEF Placed
<1>5. w.op = "createSession" => w.owner \in Owners /\ Under(w.folder, w.owner)'
  BY <1>3, Constants DEF Placed
<1>6. ASSUME w.op = "updateFolder"
      PROVE  /\ w.id \in Folders /\ owner'[w.id] # None
             /\ w.parent \in Folders \cup {None}
             /\ w.parent # None =>
                  /\ owner'[w.parent] # None
                  /\ owner'[w.id] = Gone \/ (Under(w.parent, owner[w.id]))'
  BY <1>1, <1>6, Constants DEF Placed, Under
<1>7. ASSUME w.op = "updateSession"
      PROVE  /\ w.id \in Conns /\ holder'[w.id] # None
             /\ w.folder \in Folders \cup {None}
             /\ w.folder # None =>
                  /\ owner'[w.folder] # None
                  /\ holder'[w.id] = Gone \/ (Under(w.folder, holder[w.id]))'
  BY <1>1, <1>2, <1>7, Constants DEF Placed, Under
<1>8. /\ w.op \in {"deleteFolder", "deleteTree"} => w.id \in Folders
      /\ w.op = "deleteTeam" => w.id \in Teams
  BY DEF Placed
<1>9. QED
  BY <1>4, <1>5, <1>6, <1>7, <1>8 DEF Placed

(* So the other requests' checks stay good, but for those the write has      *)
(* overtaken.                                                                *)
LEMMA OthersKept ==
  ASSUME TreeRows, RequestsSound, NEW r \in Requests, Finish(r), OwnersStay,
         TreeStays \/ pending[r].op = "updateFolder"
  PROVE  RequestsSound'
<1> SUFFICES ASSUME NEW q \in Requests
             PROVE  Placed(pending[q])' /\ (q \notin stale' => Current(pending[q])')
  BY DEF RequestsSound
<1>1. PICK v : v = pending'[q]
  OBVIOUS
<1>2. CASE q = r
  <2>1. v.op = "nothing"
    BY <1>1, <1>2, Finished DEF TreeRows
  <2>2. Placed(v)' /\ Current(v)'
    BY <2>1, NothingPlaced
  <2>3. QED
    BY <1>1, <2>2 DEF Placed, Under, Current, HasFolder, Above
<1>3. CASE q # r
  <2>1. v = pending[q]
    BY <1>1, <1>3, Finished DEF TreeRows
  <2>2. Placed(v)
    BY <2>1 DEF RequestsSound
  <2>3. Placed(v)'
    BY <2>2, PlacedStays
  <2>4. ASSUME q \notin stale' PROVE Current(v)'
    <3>1. /\ v.op # "deleteTree" /\ Current(v)
          /\ pending[r].op = "updateFolder" => v.op # "updateFolder"
      BY <1>1, <1>3, <2>1, <2>4, Finished DEF TreeRows, RequestsSound
    <3>2. ASSUME v.op = "updateFolder", HasFolder(v.id)'
          PROVE  v.parent \in {None, parent'[v.id]} \/ v.id \notin (Above(v.parent))'
      <4>1. TreeStays
        BY <3>1, <3>2
      <4>2. /\ v.id \in Folders /\ owner[v.id] # None
            /\ v.parent \in Folders \cup {None}
            /\ v.parent # None => owner[v.parent] # None
        BY <2>2, <3>2 DEF Placed
      <4>3. HasFolder(v.id) /\ parent'[v.id] = parent[v.id]
        BY <3>2, <4>1, <4>2 DEF TreeStays
      <4>4. v.parent # None => Walk(parent', v.parent) \subseteq Walk(parent, v.parent)
        BY <4>1, <4>2 DEF TreeStays
      <4>5. v.parent \in {None, parent[v.id]} \/ v.id \notin Above(v.parent)
        BY <3>1, <3>2, <4>3 DEF Current
      <4>6. QED
        BY <4>3, <4>4, <4>5 DEF Above
    <3>3. QED
      BY <3>1, <3>2 DEF Current
  <2>5. QED
    BY <1>1, <2>3, <2>4 DEF Placed, Under, Current, HasFolder, Above
<1>4. QED
  BY <1>2, <1>3

(* CreateFolder's insert. *)
LEMMA InsertFolderKeeps ==
  ASSUME TreeInv, NEW r \in Requests, InsertFolder(r)
  PROVE  TreeInv'
<1> DEFINE w == pending[r]
           f == Fresh(owner)
<1>1. w.op = "createFolder" /\ w.owner \in Owners /\ Under(w.parent, w.owner)
  BY DEF InsertFolder, TreeInv, RequestsSound, Placed
<1>2. f \in Folders /\ owner[f] = None
  BY DEF InsertFolder, TreeInv, TreeRows, Fresh, Range
<1>3. w.parent # None => w.parent \in Folders \ {f} /\ owner[w.parent] = w.owner
  BY <1>1, <1>2, Constants DEF InsertFolder, Refers, Under, HasFolder
<1>4. /\ owner' = [owner EXCEPT ![f] = w.owner]
      /\ parent' = [parent EXCEPT ![f] = w.parent]
      /\ holder' = holder /\ folder' = folder
  BY DEF InsertFolder, connVars
<1>5. Finish(r) /\ TreeRows /\ OwnersKept /\ MovesNeedRaces /\ RequestsSound
  BY DEF InsertFolder, TreeInv
<1>6. parent[f] = None
  BY <1>2, <1>5, Constants DEF TreeRows, HasFolder
<1>7. \A g \in Folders : /\ parent[g] # f
                         /\ g # f => HasFolder(g)' = HasFolder(g)
  BY <1>2, <1>4, <1>5, ParentThere, Constants DEF TreeRows, HasFolder, Owners
<1>8. \A c \in Conns : HasConn(c) => folder[c] # f
  BY <1>2, <1>5, Constants DEF OwnersKept, HasConn
<1> HIDE DEF w, f
<1>9. DOMAIN pending' = Requests
  BY <1>5, Finished DEF TreeRows
<1>10. TreeRows'
  BY <1>1, <1>2, <1>3, <1>4, <1>5, <1>7, <1>9, Constants
  DEF TreeRows, HasFolder, Owners
<1>11. OwnersKept'
  <2>1. ASSUME NEW g \in Folders, HasFolder(g)', parent'[g] # None
        PROVE  owner'[parent'[g]] = owner'[g]
    <3>1. CASE g = f
      BY <1>2, <1>3, <1>4, <1>5, <2>1, <3>1 DEF TreeRows
    <3>2. CASE g # f
      <4>1. parent'[g] = parent[g] /\ parent[g] # f /\ HasFolder(g) /\ parent[g] \in Folders
        BY <1>4, <1>5, <1>7, <2>1, <3>2 DEF TreeRows
      <4>2. QED
        BY <1>4, <1>5, <3>2, <4>1, <2>1 DEF OwnersKept, TreeRows
    <3>3. QED
      BY <3>1, <3>2
  <2>2. ASSUME NEW c \in Conns, HasConn(c)', folder'[c] # None
        PROVE  owner'[folder'[c]] = holder'[c]
    <3>1. HasConn(c) /\ folder[c] # f
      BY <1>4, <1>8, <2>2 DEF HasConn, Owners
    <3>2. QED
      BY <1>4, <1>5, <2>2, <3>1 DEF OwnersKept, TreeRows
  <2>3. QED
    BY <2>1, <2>2 DEF OwnersKept
<1>12. MovesNeedRaces'
  <2>1. SUFFICES ASSUME "updateFolder" \notin raced' PROVE NoLoop(parent')
    BY DEF MovesNeedRaces, NoLoop, OnCycle, Above
  <2>2. "updateFolder" \notin raced
    BY <1>5, <2>1 DEF Finish
  <2>3. NoLoop(parent)
    BY <1>5, <2>2, Constants
    DEF MovesNeedRaces, NoLoop, OnCycle, Above, TreeRows
  <2>4. CASE w.parent = None
    BY <1>2, <1>4, <1>5, <2>3, <2>4, CutNoLoop DEF TreeRows
  <2>5. CASE w.parent # None
    <3>1. f \notin Walk(parent, w.parent)
      BY <1>2, <1>3, <1>5, <2>5, FreshApart
    <3>2. QED
      BY <1>2, <1>3, <1>4, <1>5, <2>3, <2>5, <3>1, MoveNoLoop, Constants
      DEF TreeRows
  <2>6. QED
    BY <2>4, <2>5
<1>13. RequestsSound'
  <2>1. OwnersStay
    BY <1>2, <1>4, <1>5 DEF TreeRows, OwnersStay
  <2>2. ASSUME NEW g \in Folders, owner[g] # None
        PROVE  /\ HasFolder(g)' => HasFolder(g) /\ parent'[g] = parent[g]
               /\ Walk(parent', g) \subseteq Walk(parent, g)
    <3>1. g # f
      BY <1>2, <2>2
    <3>2. f \notin Walk(parent, g)
      BY <1>2, <1>5, <3>1, FreshApart
    <3>3. Walk(parent', g) \subseteq Walk(parent, g)
      BY <1>4, <1>5, <3>2, WalkAway DEF TreeRows
    <3>4. parent'[g] = parent[g]
      BY <1>4, <1>5, <3>1 DEF TreeRows
    <3>5. QED
      BY <1>7, <3>1, <3>3, <3>4
  <2>3. TreeStays
    BY <2>2 DEF TreeStays
  <2>4. QED
    BY <1>5, <2>1, <2>3, OthersKept
<1>14. QED
  BY <1>10, <1>11, <1>12, <1>13 DEF TreeInv

(* UpdateFolder's update: with no like update since its check the move it    *)
(* checked makes no loop.                                                    *)
LEMMA WriteFolderKeeps ==
  ASSUME TreeInv, NEW r \in Requests, WriteFolder(r)
  PROVE  TreeInv'
<1> DEFINE w == pending[r]
<1>1. Finish(r) /\ TreeRows /\ OwnersKept /\ MovesNeedRaces /\ RequestsSound
  BY DEF WriteFolder, TreeInv
<1>2. w.op = "updateFolder" /\ Placed(w) /\ (r \notin stale => Current(w))
  BY <1>1 DEF WriteFolder, RequestsSound
<1>3. owner' = owner /\ holder' = holder /\ folder' = folder
  BY DEF WriteFolder, connVars
<1>4. w.id \in Folders /\ w.parent \in Folders \cup {None}
  BY <1>2 DEF Placed
<1>5. parent' = IF HasFolder(w.id) THEN [parent EXCEPT ![w.id] = w.parent] ELSE parent
  BY DEF WriteFolder
<1>6. HasFolder(w.id) /\ w.parent # None => HasFolder(w.parent) /\ owner[w.parent] = owner[w.id]
  BY <1>2, <1>4, Constants DEF WriteFolder, Placed, Under, HasFolder
<1>7. RequestsSound'
  BY <1>1, <1>2, <1>3, OthersKept DEF OwnersStay
<1>8. DOMAIN pending' = Requests
  BY <1>1, Finished DEF TreeRows
<1> HIDE DEF w
<1>9. TreeRows'
  BY <1>1, <1>3, <1>4, <1>5, <1>8 DEF TreeRows, HasFolder, Owners
<1>10. OwnersKept'
  BY <1>1, <1>3, <1>4, <1>5, <1>6
  DEF TreeRows, OwnersKept, HasFolder, HasConn, Owners
<1>11. MovesNeedRaces'
  <2>1. SUFFICES ASSUME "updateFolder" \notin raced' PROVE NoLoop(parent')
    BY DEF MovesNeedRaces, NoLoop, OnCycle, Above
  <2>2. "updateFolder" \notin raced /\ r \notin stale
    BY <1>1, <1>2, <2>1 DEF Finish, Updates, w
  <2>3. NoLoop(parent)
    BY <1>1, <2>2, Constants
    DEF MovesNeedRaces, NoLoop, OnCycle, Above, TreeRows
  <2>4. CASE ~HasFolder(w.id)
    BY <1>5, <2>3, <2>4
  <2>5. CASE HasFolder(w.id) /\ w.parent \in {None, parent[w.id]}
    <3>1. \A h \in Folders : parent'[h] \in {parent[h], None}
      BY <1>1, <1>4, <1>5, <2>5 DEF TreeRows
    <3>2. QED
      BY <1>1, <2>3, <3>1, CutNoLoop DEF TreeRows
  <2>6. CASE HasFolder(w.id) /\ w.parent \notin {None, parent[w.id]}
    <3>1. w.parent \in Folders /\ w.id \notin Walk(parent, w.parent)
      BY <1>2, <1>4, <2>2, <2>6 DEF Current, Above
    <3>2. QED
      BY <1>1, <1>4, <1>5, <2>3, <2>6, <3>1, MoveNoLoop, Constants DEF TreeRows
  <2>7. QED
    BY <2>4, <2>5, <2>6
<1>12. QED
  BY <1>7, <1>9, <1>10, <1>11 DEF TreeInv

(* A deletion that takes sub-folders along, as the schema makes it. *)
LEMMA DeletedKeeps ==
  ASSUME TreeInv, NEW r \in Requests, Finish(r), NEW F \in SUBSET Folders, NEW C,
         Deleted(F, C), \A g \in Folders : HasFolder(g) /\ parent[g] \in F => g \in F
  PROVE  TreeInv'
<1>1. TreeRows /\ OwnersKept /\ MovesNeedRaces /\ RequestsSound
  BY DEF TreeInv
<1>2. /\ owner'  = [g \in Folders |-> IF g \in F THEN Gone ELSE owner[g]]
      /\ parent' = [g \in Folders |-> IF g \in F THEN None ELSE parent[g]]
      /\ holder' = [c \in Conns |-> IF c \in C THEN Gone ELSE holder[c]]
      /\ folder' = [c \in Conns |-> IF c \in C \/ folder[c] \in F THEN None ELSE folder[c]]
  BY DEF Deleted
<1>3. DOMAIN pending' = Requests
  BY <1>1, Finished DEF TreeRows
<1>4. \A g \in Folders : HasFolder(g)' => g \notin F /\ HasFolder(g) /\ parent'[g] = parent[g]
  BY <1>2, Constants DEF HasFolder, Owners
<1>5. \A c \in Conns : HasConn(c)' => c \notin C /\ HasConn(c)
  BY <1>2, Constants DEF HasConn, Owners
<1>6. \A g \in Folders : ~HasFolder(g)' => parent'[g] = None
  BY <1>1, <1>2 DEF TreeRows, HasFolder, Owners
<1>7. TreeRows'
  BY <1>1, <1>2, <1>3, <1>6 DEF TreeRows, Owners
<1>8. OwnersKept'
  <2>1. ASSUME NEW g \in Folders, HasFolder(g)', parent'[g] # None
        PROVE  owner'[parent'[g]] = owner'[g]
    <3>1. g \notin F /\ HasFolder(g) /\ parent'[g] = parent[g] /\ parent[g] \in Folders
      BY <1>1, <1>4, <2>1 DEF TreeRows
    <3>2. parent[g] \notin F /\ owner[parent[g]] = owner[g]
      BY <1>1, <2>1, <3>1 DEF OwnersKept
    <3>3. QED
      BY <1>2, <3>1, <3>2
  <2>2. ASSUME NEW c \in Conns, HasConn(c)', folder'[c] # None
        PROVE  owner'[folder'[c]] = holder'[c]
    <3>1. c \notin C /\ HasConn(c) /\ folder'[c] = folder[c] /\ folder[c] \notin F
      BY <1>2, <1>5, <2>2
    <3>2. folder[c] \in Folders /\ owner[folder[c]] = holder[c]
      BY <1>1, <2>2, <3>1 DEF TreeRows, OwnersKept
    <3>3. QED
      BY <1>2, <3>1, <3>2
  <2>3. QED
    BY <2>1, <2>2 DEF OwnersKept
<1>9. \A h \in Folders : parent'[h] \in {parent[h], None}
  BY <1>2
<1>10. MovesNeedRaces'
  <2>1. SUFFICES ASSUME "updateFolder" \notin raced' PROVE NoLoop(parent')
    BY DEF MovesNeedRaces, NoLoop, OnCycle, Above
  <2>2. "updateFolder" \notin raced
    BY <2>1 DEF Finish
  <2>3. NoLoop(parent)
    BY <1>1, <2>2, Constants
    DEF MovesNeedRaces, NoLoop, OnCycle, Above, TreeRows
  <2>4. QED
    BY <1>1, <1>9, <2>3, CutNoLoop DEF TreeRows
<1>11. OwnersStay
  BY <1>2 DEF OwnersStay
<1>12. \A f \in Folders : Walk(parent', f) \subseteq Walk(parent, f)
  BY <1>1, <1>9, WalkFewer DEF TreeRows
<1>13. TreeStays
  BY <1>4, <1>12 DEF TreeStays
<1>14. RequestsSound'
  BY <1>1, <1>11, <1>13, OthersKept
<1>15. QED
  BY <1>7, <1>8, <1>10, <1>14 DEF TreeInv

(* What lies below a folder goes with it. *)
LEMMA BelowClosed ==
  ASSUME TreeRows, NEW f, NEW g \in Folders, HasFolder(g), parent[g] \in Below(f)
  PROVE  g \in Below(f)
<1>1. parent[g] \in Folders /\ parent[g] # None /\ f \in Walk(parent, parent[g])
  BY Constants DEF Below, There, Above
<1>2. parent[g] \in Walk(parent, g)
  BY <1>1, WalkSelf, WalkClosed DEF TreeRows
<1>3. f \in Walk(parent, g)
  BY <1>1, <1>2, WalkOn DEF TreeRows
<1>4. QED
  BY <1>3, Constants DEF Below, There, Above

(* And is its owner's. *)
LEMMA BelowOwned ==
  ASSUME TreeRows, OwnersKept, NEW f \in Folders, NEW g \in Below(f)
  PROVE  owner[f] = owner[g]
<1> DEFINE S == {h \in Folders : owner[h] = owner[g]}
<1>1. g \in Folders /\ HasFolder(g) /\ f \in Walk(parent, g)
  BY Constants DEF Below, There, Above
<1>2. ASSUME NEW h \in S PROVE parent[h] \in S \cup {None}
  BY <1>1, ParentThere DEF TreeRows
<1>3. Walk(parent, g) \subseteq S
  BY <1>1, <1>2, WalkLeast
<1>4. QED
  BY <1>1, <1>3

(* The deletions. *)
LEMMA RemovalsKeep ==
  ASSUME TreeInv, NEW r \in Requests,
         RemoveFolder(r) \/ RemoveTree(r) \/ RemoveSession(r) \/ RemoveTeam(r)
  PROVE  TreeInv'
<1>1. TreeRows /\ OwnersKept
  BY DEF TreeInv
<1>2. \A f : Below(f) \in SUBSET Folders
  BY DEF Below, There
<1>3. CASE RemoveFolder(r)
  BY <1>1, <1>2, <1>3, BelowClosed, DeletedKeeps DEF RemoveFolder
<1>4. CASE RemoveTree(r)
  BY <1>1, <1>2, <1>4, BelowClosed, DeletedKeeps DEF RemoveTree
<1>5. CASE RemoveSession(r)
  <2>1. {} \in SUBSET Folders
    OBVIOUS
  <2>2. QED
    BY <1>5, <2>1, DeletedKeeps DEF RemoveSession
<1>6. CASE RemoveTeam(r)
  <2> DEFINE t == pending[r].id
             F == {f \in Folders : owner[f] = t}
  <2>1. F \in SUBSET Folders
    OBVIOUS
  <2>2. \A g \in Folders : HasFolder(g) /\ parent[g] \in F => g \in F
    BY <1>1, ParentThere, Constants
  <2>3. Finish(r) /\ Deleted(F, {c \in Conns : holder[c] = t})
    BY <1>6 DEF RemoveTeam
  <2> HIDE DEF F
  <2>4. QED
    BY <2>1, <2>2, <2>3, DeletedKeeps
<1>7. QED
  BY <1>3, <1>4, <1>5, <1>6

(* CreateSession's insert and UpdateSession's update leave the folders alone. *)
LEMMA FoldersAlone ==
  ASSUME TreeInv, NEW r \in Requests, Finish(r), UNCHANGED folderVars, OwnersStay
  PROVE  RequestsSound' /\ MovesNeedRaces' /\ DOMAIN pending' = Requests
<1>1. TreeRows /\ OwnersKept /\ MovesNeedRaces /\ RequestsSound
  BY DEF TreeInv
<1>2. TreeStays
  BY DEF TreeStays, HasFolder, Owners, folderVars
<1>3. RequestsSound'
  BY <1>1, <1>2, OthersKept
<1>4. MovesNeedRaces'
  BY <1>1 DEF MovesNeedRaces, OnCycle, Above, Walk, Finish, folderVars
<1>5. QED
  BY <1>1, <1>3, <1>4, Finished DEF TreeRows

(* CreateSession's insert. *)
LEMMA InsertSessionKeeps ==
  ASSUME TreeInv, NEW r \in Requests, InsertSession(r)
  PROVE  TreeInv'
<1> DEFINE w == pending[r]
           c == Fresh(holder)
<1>1. Finish(r) /\ TreeRows /\ OwnersKept /\ RequestsSound /\ UNCHANGED folderVars
  BY DEF InsertSession, TreeInv
<1>2. c \in Conns /\ holder[c] = None
  BY DEF InsertSession, TreeInv, TreeRows, Fresh, Range
<1>3. w.owner \in Owners /\ Under(w.folder, w.owner)
  BY <1>1 DEF InsertSession, RequestsSound, Placed
<1>4. w.folder # None => owner[w.folder] = w.owner /\ w.folder \in Folders
  BY <1>3, Constants DEF InsertSession, Refers, Under, HasFolder
<1>5. holder' = [holder EXCEPT ![c] = w.owner] /\ folder' = [folder EXCEPT ![c] = w.folder]
  BY DEF InsertSession
<1> HIDE DEF w, c
<1>6. OwnersStay
  BY <1>1, <1>2, <1>5 DEF OwnersStay, TreeRows, folderVars
<1>7. RequestsSound' /\ MovesNeedRaces' /\ DOMAIN pending' = Requests
  BY <1>1, <1>6, FoldersAlone
<1>8. TreeRows'
  BY <1>1, <1>2, <1>3, <1>4, <1>5, <1>7
  DEF TreeRows, HasFolder, Owners, folderVars
<1>9. OwnersKept'
  BY <1>1, <1>2, <1>3, <1>4, <1>5
  DEF OwnersKept, TreeRows, HasFolder, HasConn, Owners, folderVars
<1>10. QED
  BY <1>7, <1>8, <1>9 DEF TreeInv

(* UpdateSession's update. *)
LEMMA WriteSessionKeeps ==
  ASSUME TreeInv, NEW r \in Requests, WriteSession(r)
  PROVE  TreeInv'
<1> DEFINE w == pending[r]
<1>1. Finish(r) /\ TreeRows /\ OwnersKept /\ RequestsSound /\ UNCHANGED <<folderVars, holder>>
  BY DEF WriteSession, TreeInv, folderVars
<1>2. w.op = "updateSession" /\ Placed(w)
  BY <1>1 DEF WriteSession, RequestsSound
<1>3. folder' = IF HasConn(w.id) THEN [folder EXCEPT ![w.id] = w.folder] ELSE folder
  BY DEF WriteSession
<1>4. w.id \in Conns /\ w.folder \in Folders \cup {None}
  BY <1>2 DEF Placed
<1>5. HasConn(w.id) /\ w.folder # None => owner[w.folder] = holder[w.id]
  BY <1>2, <1>4, Constants DEF WriteSession, Placed, Under, HasFolder, HasConn
<1> HIDE DEF w
<1>6. OwnersStay
  BY <1>1 DEF OwnersStay, folderVars
<1>7. RequestsSound' /\ MovesNeedRaces' /\ DOMAIN pending' = Requests
  BY <1>1, <1>6, FoldersAlone
<1>8. TreeRows'
  BY <1>1, <1>3, <1>4, <1>7 DEF TreeRows, HasFolder, Owners, folderVars
<1>9. OwnersKept'
  BY <1>1, <1>3, <1>4, <1>5
  DEF OwnersKept, TreeRows, HasFolder, HasConn, Owners, folderVars
<1>10. QED
  BY <1>7, <1>8, <1>9 DEF TreeInv

(* Every write of a request. *)
LEMMA WritesKeep ==
  ASSUME TreeInv, NEW r \in Requests, Writes(r)
  PROVE  TreeInv'
  BY InsertFolderKeeps, InsertSessionKeeps, WriteFolderKeeps,
          WriteSessionKeeps, RemovalsKeep
     DEF Writes

(* A folder is on the walk that begins at it. *)
LEMMA AllOfSelf ==
  ASSUME NEW o, NEW p \in Folders \cup {None}, AllOf(o, p)
  PROVE  p # None => owner[p] = o
  BY WalkSelf DEF AllOf, Above

(* Every check of a request. *)
LEMMA ChecksKeep ==
  ASSUME TreeInv, NEW r \in Requests, Checks(r)
  PROVE  TreeInv'
<1>1. TreeRows /\ OwnersKept
  BY DEF TreeInv
<1>2. PICK u \in Users :
       \/ \E t \in Teams \cup {None}, p \in There \cup {None}, n \in Names :
            CreateFolder(r, u, t, p, n)
       \/ \E f \in There, p \in There \cup {None}, n \in Names : UpdateFolder(r, u, f, p, n)
       \/ \E f \in There : DeleteFolder(r, u, f) \/ DeleteTree(r, u, f)
       \/ \E f \in There \cup {None}, n \in Names, ch \in Chains, s \in BOOLEAN :
            CreateSession(r, u, f, n, ch, s)
       \/ \E c \in Saved, f \in There \cup {None}, ch \in Chains, s \in BOOLEAN :
            UpdateSession(r, u, c, f, ch, s)
       \/ \E c \in Saved : DeleteSession(r, u, c)
       \/ \E t \in Teams, confirm \in BOOLEAN : DeleteTeam(r, u, t, confirm)
  BY DEF Checks
<1>3. ASSUME NEW t \in Teams \cup {None}, NEW p \in There \cup {None}, NEW n \in Names,
             CreateFolder(r, u, t, p, n)
      PROVE  TreeInv'
  <2>1. PICK o : o = IF t # None THEN t
                     ELSE IF p # None /\ owner[p] \in Teams THEN owner[p] ELSE u
    OBVIOUS
  <2>2. PICK w : w = [op |-> "createFolder", owner |-> o, parent |-> p, name |-> n]
    OBVIOUS
  <2>3. /\ pending' = [pending EXCEPT ![r] = w] /\ stale' = stale
        /\ UNCHANGED <<folderVars, connVars, raced>> /\ AllOf(o, p)
    BY <1>3, <2>1, <2>2 DEF CreateFolder, Start, raceVars, depthOf
  <2>4. w.op = "createFolder" /\ w.owner = o /\ w.parent = p
    BY <2>2
  <2>5. o \in Owners /\ Under(p, o)
    BY <2>1, <2>3, AllOfSelf, Constants DEF There, Under
  <2>6. Placed(w) /\ Current(w)
    BY <2>4, <2>5 DEF Placed, Current
  <2>7. QED
    BY <2>3, <2>6, CheckKeeps
<1>4. ASSUME NEW f \in There, NEW p \in There \cup {None}, NEW n \in Names,
             UpdateFolder(r, u, f, p, n)
      PROVE  TreeInv'
  <2>1. PICK w : w = [op |-> "updateFolder", id |-> f, parent |-> p, name |-> n]
    OBVIOUS
  <2>2. /\ pending' = [pending EXCEPT ![r] = w] /\ stale' = stale
        /\ UNCHANGED <<folderVars, connVars, raced>>
    BY <1>4, <2>1 DEF UpdateFolder, Start, raceVars
  <2>3. w.op = "updateFolder" /\ w.id = f /\ w.parent = p
    BY <2>1
  <2>4. f \in Folders /\ owner[f] \in Owners /\ p \in Folders \cup {None}
        /\ (p # None => owner[p] # None)
    BY Constants DEF There, HasFolder
  <2>5. /\ p \in {None, parent[f]} \/ f \notin Above(p)
        /\ p # None => owner[p] = owner[f]
    BY <1>1, <1>4, <2>4, AllOfSelf
    DEF UpdateFolder, checkMove, OwnersKept, HasFolder
  <2>6. Placed(w) /\ Current(w)
    BY <2>3, <2>4, <2>5, Constants DEF Placed, Under, Current
  <2>7. QED
    BY <2>2, <2>6, CheckKeeps
<1>5. ASSUME NEW f \in There, DeleteFolder(r, u, f) PROVE TreeInv'
  <2>1. PICK w : w = [op |-> "deleteFolder", id |-> f]
    OBVIOUS
  <2>2. /\ pending' = [pending EXCEPT ![r] = w] /\ stale' = stale
        /\ UNCHANGED <<folderVars, connVars, raced>>
    BY <1>5, <2>1 DEF DeleteFolder, Start, raceVars
  <2>3. w.op = "deleteFolder" /\ w.id \in Folders
    BY <2>1 DEF There
  <2>4. Placed(w) /\ Current(w)
    BY <2>3 DEF Placed, Current
  <2>5. QED
    BY <2>2, <2>4, CheckKeeps
<1>6. ASSUME NEW f \in There, DeleteTree(r, u, f) PROVE TreeInv'
  <2>1. PICK w : w = [op |-> "deleteTree", id |-> f,
                      listed |-> descendantFolderIDs(owner[f], f)]
    OBVIOUS
  <2>2. /\ pending' = [pending EXCEPT ![r] = w] /\ stale' = stale
        /\ UNCHANGED <<folderVars, connVars, raced>>
    BY <1>6, <2>1 DEF DeleteTree, Start, raceVars
  <2>3. /\ w.op = "deleteTree" /\ w.id = f /\ f \in Folders
        /\ w.listed = descendantFolderIDs(owner[f], f)
    BY <2>1 DEF There
  <2>4. Placed(w) /\ Current(w)
    BY <2>3 DEF Placed, Current
  <2>5. QED
    BY <2>2, <2>4, CheckKeeps
<1>7. ASSUME NEW f \in There \cup {None}, NEW n \in Names, NEW ch \in Chains,
             NEW s \in BOOLEAN, CreateSession(r, u, f, n, ch, s)
      PROVE  TreeInv'
  <2>1. PICK o : o = IF f # None /\ owner[f] \in Teams THEN owner[f] ELSE u
    OBVIOUS
  <2>2. PICK w : w = [op |-> "createSession", owner |-> o, folder |-> f, name |-> n,
                      chain |-> ch, ssh |-> s]
    OBVIOUS
  <2>3. /\ pending' = [pending EXCEPT ![r] = w] /\ stale' = stale
        /\ UNCHANGED <<folderVars, connVars, raced>> /\ (f # None => owner[f] = o)
    BY <1>7, <2>1, <2>2 DEF CreateSession, Start, raceVars
  <2>4. w.op = "createSession" /\ w.owner = o /\ w.folder = f
    BY <2>2
  <2>5. o \in Owners /\ Under(f, o)
    BY <2>1, <2>3, Constants DEF There, Under
  <2>6. Placed(w) /\ Current(w)
    BY <2>4, <2>5 DEF Placed, Current
  <2>7. QED
    BY <2>3, <2>6, CheckKeeps
<1>8. ASSUME NEW c \in Saved, NEW f \in There \cup {None}, NEW ch \in Chains,
             NEW s \in BOOLEAN, UpdateSession(r, u, c, f, ch, s)
      PROVE  TreeInv'
  <2>1. PICK w : w = [op |-> "updateSession", id |-> c, folder |-> f, name |-> label[c],
                      chain |-> ch, ssh |-> s]
    OBVIOUS
  <2>2. /\ pending' = [pending EXCEPT ![r] = w] /\ stale' = stale
        /\ UNCHANGED <<folderVars, connVars, raced>>
        /\ f \in {folder[c], None} \cup {g \in Folders : owner[g] = holder[c]}
    BY <1>8, <2>1 DEF UpdateSession, Start, raceVars
  <2>3. w.op = "updateSession" /\ w.id = c /\ w.folder = f
    BY <2>1
  <2>4. c \in Conns /\ HasConn(c) /\ holder[c] # None /\ f \in Folders \cup {None}
    BY Constants DEF Saved, There, HasConn
  <2>5. f # None => owner[f] = holder[c]
    BY <1>1, <2>2, <2>4 DEF OwnersKept
  <2>6. Placed(w) /\ Current(w)
    BY <2>3, <2>4, <2>5 DEF Placed, Under, Current
  <2>7. QED
    BY <2>2, <2>6, CheckKeeps
<1>9. ASSUME NEW c \in Saved, DeleteSession(r, u, c) PROVE TreeInv'
  <2>1. PICK w : w = [op |-> "deleteSession", id |-> c]
    OBVIOUS
  <2>2. /\ pending' = [pending EXCEPT ![r] = w] /\ stale' = stale
        /\ UNCHANGED <<folderVars, connVars, raced>>
    BY <1>9, <2>1 DEF DeleteSession, Start, raceVars
  <2>3. w.op = "deleteSession"
    BY <2>1
  <2>4. Placed(w) /\ Current(w)
    BY <2>3 DEF Placed, Current
  <2>5. QED
    BY <2>2, <2>4, CheckKeeps
<1>10. ASSUME NEW t \in Teams, NEW confirm \in BOOLEAN, DeleteTeam(r, u, t, confirm)
       PROVE  TreeInv'
  <2>1. PICK w : w = [op |-> "deleteTeam", id |-> t]
    OBVIOUS
  <2>2. /\ pending' = [pending EXCEPT ![r] = w] /\ stale' = stale
        /\ UNCHANGED <<folderVars, connVars, raced>>
    BY <1>10, <2>1 DEF DeleteTeam, Start, raceVars
  <2>3. w.op = "deleteTeam" /\ w.id \in Teams
    BY <2>1
  <2>4. Placed(w) /\ Current(w)
    BY <2>3 DEF Placed, Current
  <2>5. QED
    BY <2>2, <2>4, CheckKeeps
<1>11. QED
  BY <1>2, <1>3, <1>4, <1>5, <1>6, <1>7, <1>8, <1>9, <1>10

(* A request that gives up. *)
LEMMA AbortKeeps ==
  ASSUME TreeInv, NEW r \in Requests, Abort(r)
  PROVE  TreeInv'
<1>1. Nothing.op = "nothing"
  BY DEF Nothing
<1>2. Placed(Nothing) /\ Current(Nothing)
  BY <1>1, NothingPlaced
<1>3. QED
  BY <1>2, CheckKeeps DEF Abort

(* The teams. *)
LEMMA TeamStepKeeps ==
  ASSUME TreeInv, TeamStep
  PROVE  TreeInv'
  BY TreeUntouched DEF TeamStep, CreateTeam, SetMember

(***************************************************************************)
(* Steps of an import.  To the tree each is a request's check, its write,  *)
(* or nothing.                                                             *)
(***************************************************************************)

(* A step that puts a checked request in hand. *)
LEMMA GoKeeps ==
  ASSUME TreeInv, NEW r \in Requests, NEW w, Placed(w), Current(w), Go(r, w)
  PROVE  TreeInv'
  BY CheckKeeps DEF Go, raceVars

(* A folder of the bundle. *)
LEMMA ImportFolderKeeps ==
  ASSUME TreeInv, NEW r \in Requests, Noted(imp[r]), NEW g, ImportFolder(r, g)
  PROVE  TreeInv'
<1>1. CASE UNCHANGED treeVars
  BY <1>1, TreeUntouched DEF treeVars
<1>2. CASE ~UNCHANGED treeVars
  <2>1. PICK o, within, n :
          /\ o = imp[r].user
          /\ within = IF Parent(imp[r], g) \in DOMAIN imp[r].folderIDs
                      THEN imp[r].folderIDs[Parent(imp[r], g)] ELSE imp[r].into
          /\ depthOf(o, within)
          /\ Go(r, [op |-> "createFolder", owner |-> o, parent |-> within, name |-> n])
    BY <1>2 DEF ImportFolder
  <2>2. PICK w : w = [op |-> "createFolder", owner |-> o, parent |-> within, name |-> n]
    OBVIOUS
  <2>3. o \in Owners /\ within \in Folders \cup {None}
    BY <2>1, Constants DEF Noted
  <2>4. Under(within, o)
    BY <2>1, <2>3, AllOfSelf DEF Under, depthOf
  <2>5. w.op = "createFolder" /\ w.owner = o /\ w.parent = within
    BY <2>2
  <2>6. Placed(w) /\ Current(w)
    BY <2>3, <2>4, <2>5 DEF Placed, Current
  <2>7. Go(r, w)
    BY <2>1, <2>2
  <2>8. QED
    BY <2>6, <2>7, GoKeeps
<1>3. QED
  BY <1>1, <1>2

(* A connection of the bundle. *)
LEMMA ImportSessionKeeps ==
  ASSUME TreeInv, NEW r \in Requests, Noted(imp[r]), ImportSession(r)
  PROVE  TreeInv'
<1>1. CASE UNCHANGED treeVars
  BY <1>1, TreeUntouched DEF treeVars
<1>2. CASE ~UNCHANGED treeVars
  <2>1. PICK o, within, n, x, s :
          /\ o = imp[r].user
          /\ within = IF x \in DOMAIN imp[r].folderIDs
                      THEN imp[r].folderIDs[x] ELSE imp[r].into
          /\ within # None => owner[within] = o
          /\ Go(r, [op |-> "createSession", owner |-> o, folder |-> within, chain |-> <<>>,
                    ssh |-> s, name |-> n])
    BY ZenonT(60), <1>2 DEF ImportSession
  <2>2. PICK w : w = [op |-> "createSession", owner |-> o, folder |-> within,
                      chain |-> <<>>, ssh |-> s, name |-> n]
    OBVIOUS
  <2>3. o \in Owners /\ within \in Folders \cup {None}
    BY <2>1, Constants DEF Noted
  <2>4. w.op = "createSession" /\ w.owner = o /\ w.folder = within
    BY <2>2
  <2>5. Placed(w) /\ Current(w)
    BY <2>1, <2>3, <2>4 DEF Placed, Under, Current
  <2>6. Go(r, w)
    BY <2>1, <2>2
  <2>7. QED
    BY <2>5, <2>6, GoKeeps
<1>3. QED
  BY <1>1, <1>2

(* A chain of the bundle: the connection stays where it is. *)
LEMMA ImportChainKeeps ==
  ASSUME TreeInv, NEW r \in Requests, Noted(imp[r]), ImportChain(r)
  PROVE  TreeInv'
<1>1. CASE UNCHANGED treeVars
  BY <1>1, TreeUntouched DEF treeVars
<1>2. CASE ~UNCHANGED treeVars
  <2>1. PICK c, chain, x :
          /\ x \in DOMAIN imp[r].sessionIDs /\ c = imp[r].sessionIDs[x]
          /\ holder[c] = imp[r].user
          /\ Go(r, [op |-> "updateSession", id |-> c, folder |-> folder[c],
                    name |-> label[c], chain |-> chain, ssh |-> ssh[c]])
    BY ZenonT(60), <1>2 DEF ImportChain
  <2>2. PICK w : w = [op |-> "updateSession", id |-> c, folder |-> folder[c],
                      name |-> label[c], chain |-> chain, ssh |-> ssh[c]]
    OBVIOUS
  <2>3. c \in Conns /\ HasConn(c) /\ holder[c] # None
    BY <2>1, Constants DEF Noted, HasConn
  <2>4. /\ folder[c] \in Folders \cup {None}
        /\ folder[c] # None => owner[folder[c]] = holder[c]
    BY <2>3 DEF TreeInv, TreeRows, OwnersKept
  <2>5. w.op = "updateSession" /\ w.id = c /\ w.folder = folder[c]
    BY <2>2
  <2>6. Placed(w) /\ Current(w)
    BY <2>3, <2>4, <2>5 DEF Placed, Under, Current
  <2>7. Go(r, w)
    BY <2>1, <2>2
  <2>8. QED
    BY <2>6, <2>7, GoKeeps
<1>3. QED
  BY <1>1, <1>2

(* Every step of an import. *)
LEMMA ImportStepKeeps ==
  ASSUME TreeInv, ImportsSound, NEW r \in Requests, Importing(r), ImportStep(r)
  PROVE  TreeInv'
<1>1. Noted(imp[r])
  BY DEF ImportsSound
<1>2. CASE \E g \in Left(imp[r]) : ImportFolder(r, g)
  BY <1>1, <1>2, ImportFolderKeeps
<1>3. CASE ImportedFolder(r)
  BY <1>3, InsertFolderKeeps DEF ImportedFolder
<1>4. CASE ImportSession(r)
  BY <1>1, <1>4, ImportSessionKeeps
<1>5. CASE ImportedSession(r)
  BY <1>5, InsertSessionKeeps DEF ImportedSession
<1>6. CASE ImportChain(r)
  BY <1>1, <1>6, ImportChainKeeps
<1>7. CASE ImportedChain(r)
  BY <1>7, WriteSessionKeeps DEF ImportedChain
<1>8. CASE ImportStops(r)
  <2>1. Nothing.op = "nothing"
    BY DEF Nothing
  <2>2. Placed(Nothing) /\ Current(Nothing)
    BY <2>1, NothingPlaced
  <2>3. QED
    BY <1>8, <2>2, CheckKeeps DEF ImportStops
<1>9. CASE BreakLoop(r) \/ FoldersDone(r) \/ SessionsDone(r) \/ ImportDone(r)
  <2>1. UNCHANGED treeVars
    BY <1>9 DEF BreakLoop, FoldersDone, SessionsDone, ImportDone
  <2>2. QED
    BY <2>1, TreeUntouched DEF treeVars
<1>10. QED
  BY <1>2, <1>3, <1>4, <1>5, <1>6, <1>7, <1>8, <1>9 DEF ImportStep

(* Every step. *)
LEMMA TreeInvStep ==
  ASSUME IInv, ImportsNext
  PROVE  TreeInv'
<1>1. TreeInv /\ ImportsSound
  BY DEF IInv
<1>2. CASE TeamStep
  BY <1>1, <1>2, TeamStepKeeps
<1>3. ASSUME NEW r \in Requests, Checks(r) \/ Writes(r) \/ Abort(r) PROVE TreeInv'
  BY <1>1, <1>3, ChecksKeep, WritesKeep, AbortKeeps
<1>4. ASSUME NEW r \in Requests, Importing(r), ImportStep(r) PROVE TreeInv'
  BY <1>1, <1>4, ImportStepKeeps
<1>5. CASE \/ \E r \in Requests : \E u \in Users, k \in Tokens, into \in There \cup {None},
                mode \in {"skip", "rename"}, goesOn \in BOOLEAN :
                  CommitImport(r, u, k, into, mode, goesOn)
           \/ \E u \in Users, k \in Tokens, b \in Bundles : PreviewImport(u, k, b)
           \/ \E k \in Tokens : Unstage(k)
  <2>1. UNCHANGED <<folderVars, connVars, pending, raceVars>>
    BY ZenonT(60), <1>5 DEF CommitImport, PreviewImport, Unstage, treeVars
  <2>2. QED
    BY <1>1, <2>1, TreeUntouched
<1>6. QED
  BY <1>2, <1>3, <1>4, <1>5 DEF ImportsNext

(***************************************************************************)
(* What an import has noted.                                               *)
(***************************************************************************)

(* An entry added to what was noted. *)
LEMMA EntryAdded ==
  ASSUME NEW S, NEW m, \A x \in DOMAIN m : m[x] \in S, NEW d, NEW e \in S
  PROVE  \A x \in DOMAIN Set(m, d, e) : Set(m, d, e)[x] \in S
  BY DEF Set

(* The fields of an import that hold no ids, and those that do. *)
LEMMA NotedRest ==
  ASSUME NEW i, Noted(i), NEW k \in {"phase", "at", "loose", "takenSessions"}, NEW v
  PROVE  Noted([i EXCEPT ![k] = v])
  BY DEF Noted

(* An id noted under a key. *)
LEMMA NotedMore ==
  ASSUME NEW i, Noted(i), NEW d, NEW e
  PROVE  /\ e \in Folders => Noted([i EXCEPT !.folderIDs = Set(@, d, e)])
         /\ e \in Folders => Noted([i EXCEPT !.takenFolders = Set(@, d, e)])
         /\ e \in Conns => Noted([i EXCEPT !.sessionIDs = Set(@, d, e)])
<1>1. PICK F, T, C : /\ F = Set(i.folderIDs, d, e) /\ T = Set(i.takenFolders, d, e)
                     /\ C = Set(i.sessionIDs, d, e)
  OBVIOUS
<1>2. /\ e \in Folders => \A x \in DOMAIN F : F[x] \in Folders
      /\ e \in Folders => \A x \in DOMAIN T : T[x] \in Folders
      /\ e \in Conns => \A x \in DOMAIN C : C[x] \in Conns
  BY <1>1, EntryAdded DEF Noted
<1>3. e \in Folders => Noted([i EXCEPT !.folderIDs = F])
  BY <1>2 DEF Noted
<1>4. e \in Folders => Noted([i EXCEPT !.takenFolders = T])
  BY <1>2 DEF Noted
<1>5. e \in Conns => Noted([i EXCEPT !.sessionIDs = C])
  BY <1>2 DEF Noted
<1>6. QED
  BY <1>1, <1>3, <1>4, <1>5

(* An import's step changes its own record. *)
LEMMA OneImport ==
  ASSUME ImportsSound, NEW r \in Requests, NEW i,
         imp' = [imp EXCEPT ![r] = i], i.phase = "none" \/ Noted(i)
  PROVE  ImportsSound'
<1>1. DOMAIN imp' = Requests /\ imp'[r] = i
      /\ \A q \in Requests \ {r} : imp'[q] = imp[q]
  BY DEF ImportsSound
<1>2. ASSUME NEW q \in Requests, Importing(q)' PROVE Noted(imp[q])'
  <2>1. Noted(imp'[q])
    BY <1>1, <1>2 DEF ImportsSound, Importing
  <2>2. QED
    BY <2>1 DEF Noted
<1>3. QED
  BY <1>1, <1>2 DEF ImportsSound

(* Every step of an import. *)
LEMMA ImportStepNotes ==
  ASSUME TreeInv, ImportsSound, NEW r \in Requests, Importing(r), ImportStep(r)
  PROVE  ImportsSound'
<1>1. Noted(imp[r]) /\ DOMAIN imp = Requests
  BY DEF ImportsSound
<1>2. PICK i : i = imp[r]
  OBVIOUS
<1>3. Noted(i)
  BY <1>1, <1>2
<1>4. CASE UNCHANGED imp
  BY <1>4 DEF ImportsSound, Importing, Noted
<1>5. ASSUME NEW k \in {"phase", "at", "loose", "takenSessions"}, NEW v,
             imp' = [imp EXCEPT ![r] = [i EXCEPT ![k] = v]]
      PROVE  ImportsSound'
  BY <1>3, <1>5, NotedRest, OneImport
<1>6. ASSUME imp' = [imp EXCEPT ![r] = NoImport] PROVE ImportsSound'
  BY <1>6, OneImport DEF NoImport
<1>7. ASSUME NEW g \in Left(imp[r]), ImportFolder(r, g) PROVE ImportsSound'
  <2>1. CASE \E f \in Folders : imp' = [imp EXCEPT ![r] = [i EXCEPT !.folderIDs = Set(@, g, f)]]
    BY <1>3, <2>1, NotedMore, OneImport
  <2>2. CASE imp' = [imp EXCEPT ![r] = [i EXCEPT !.at = g]]
    BY <1>5, <2>2
  <2>3. QED
    BY <1>1, <1>2, <1>3, <1>7, <2>1, <2>2 DEF ImportFolder, Noted
<1>8. CASE BreakLoop(r)
  <2>1. imp' = [imp EXCEPT ![r] = [i EXCEPT !.loose = TRUE]]
    BY <1>2, <1>8 DEF BreakLoop
  <2>2. QED
    BY <1>5, <2>1
<1>9. CASE ImportedFolder(r)
  <2>1. PICK f, n, x : f = Fresh(owner) /\ n = pending[r].name /\ x = i.at
    OBVIOUS
  <2>2. f \in Folders
    BY ZenonT(60), <1>9, <2>1
    DEF ImportedFolder, InsertFolder, TreeInv, TreeRows, Fresh, Range
  <2>3. PICK j : j = [i EXCEPT !.folderIDs = Set(@, x, f)]
    OBVIOUS
  <2>4. PICK k : k = [j EXCEPT !.at = None]
    OBVIOUS
  <2>5. PICK l : l = [k EXCEPT !.takenFolders = Set(@, n, f)]
    OBVIOUS
  <2>6. Noted(l)
    <3>1. Noted(j)
      BY <1>3, <2>2, <2>3, NotedMore
    <3>2. Noted(k)
      BY <2>4, <3>1, NotedRest
    <3>3. QED
      BY <2>2, <2>5, <3>2, NotedMore
  <2>7. imp' = [imp EXCEPT ![r] = l]
    BY ZenonT(60), <1>1, <1>2, <1>9, <2>1, <2>3, <2>4, <2>5 DEF ImportedFolder
  <2>8. QED
    BY <2>6, <2>7, OneImport
<1>10. CASE FoldersDone(r) \/ SessionsDone(r)
  <2>1. PICK p : imp' = [imp EXCEPT ![r] = [[i EXCEPT !.phase = p] EXCEPT !.at = 1]]
    BY ZenonT(60), <1>1, <1>2, <1>10 DEF FoldersDone, SessionsDone
  <2>2. Noted([[i EXCEPT !.phase = p] EXCEPT !.at = 1])
    BY <1>3, NotedRest
  <2>3. QED
    BY <2>1, <2>2, OneImport
<1>11. CASE ImportSession(r) \/ ImportChain(r) \/ ImportedChain(r)
  <2>1. UNCHANGED imp \/ \E v : imp' = [imp EXCEPT ![r] = [i EXCEPT !.at = v]]
    BY ZenonT(60), <1>2, <1>11 DEF ImportSession, ImportChain, ImportedChain
  <2>2. QED
    BY <1>4, <1>5, <2>1
<1>12. CASE ImportedSession(r)
  <2>1. PICK c, x, v, t : /\ c = Fresh(holder) /\ x = i.bundle.conns[i.at].id /\ v = i.at + 1
                          /\ t = i.takenSessions \cup {<<pending[r].folder, pending[r].name>>}
    OBVIOUS
  <2>2. c \in Conns
    BY ZenonT(60), <1>12, <2>1
    DEF ImportedSession, InsertSession, TreeInv, TreeRows, Fresh, Range
  <2>3. PICK j : j = [i EXCEPT !.at = v]
    OBVIOUS
  <2>4. PICK k : k = [j EXCEPT !.sessionIDs = Set(@, x, c)]
    OBVIOUS
  <2>5. PICK l : l = [k EXCEPT !.takenSessions = t]
    OBVIOUS
  <2>6. Noted(l)
    <3>1. Noted(j)
      BY <1>3, <2>3, NotedRest
    <3>3. Noted(k)
      BY <2>2, <2>4, <3>1, NotedMore
    <3>4. QED
      BY <2>5, <3>3, NotedRest
  <2>7. imp' = [imp EXCEPT ![r] = l]
    BY ZenonT(60), <1>1, <1>2, <1>12, <2>1, <2>3, <2>4, <2>5 DEF ImportedSession
  <2>8. QED
    BY <2>6, <2>7, OneImport
<1>13. CASE ImportDone(r) \/ ImportStops(r)
  BY <1>6, <1>13 DEF ImportDone, ImportStops
<1>14. QED
  BY <1>7, <1>8, <1>9, <1>10, <1>11, <1>12, <1>13 DEF ImportStep

(* A commit notes what it reads of the tree. *)
LEMMA CommitNotes ==
  ASSUME ImportsSound, NEW r \in Requests, NEW u \in Users, NEW k \in Tokens,
         NEW into \in There \cup {None}, NEW mode, NEW goesOn \in BOOLEAN,
         CommitImport(r, u, k, into, mode, goesOn)
  PROVE  ImportsSound'
<1>1. CASE UNCHANGED imp
  BY <1>1 DEF ImportsSound, Importing, Noted
<1>2. CASE ~UNCHANGED imp
  <2>0. PICK T, b, S, p :
          /\ T = [n \in {name[f] : f \in {g \in There : owner[g] = u}} |->
                    CHOOSE f \in There : owner[f] = u /\ name[f] = n]
          /\ b = staged[k].bundle /\ p = inParentOrder(b)
          /\ S = {<<folder[c], label[c]>> : c \in {d \in Saved : holder[d] = u}}
    OBVIOUS
  <2>1. imp' = [imp EXCEPT ![r] =
                  [phase |-> p, user |-> u, into |-> into, mode |-> mode,
                   bundle |-> b, folderIDs |-> <<>>, sessionIDs |-> <<>>, loose |-> FALSE,
                   at |-> None, takenFolders |-> T, takenSessions |-> S]]
    BY <1>2, <2>0 DEF CommitImport
  <2>2. PICK i : i = [phase |-> p, user |-> u, into |-> into, mode |-> mode,
                      bundle |-> b, folderIDs |-> <<>>, sessionIDs |-> <<>>, loose |-> FALSE,
                      at |-> None, takenFolders |-> T, takenSessions |-> S]
    OBVIOUS
  <2>3. \A x \in DOMAIN T : T[x] \in Folders
    <3>1. SUFFICES ASSUME NEW x \in {name[f] : f \in {g \in There : owner[g] = u}}
                   PROVE  (CHOOSE f \in There : owner[f] = u /\ name[f] = x) \in Folders
      BY <2>0
    <3>2. \E f \in There : owner[f] = u /\ name[f] = x
      OBVIOUS
    <3>3. QED
      BY <3>2 DEF There
  <2>4. DOMAIN <<>> = {}
    OBVIOUS
  <2>5. /\ DOMAIN i = {"phase", "user", "into", "mode", "bundle", "folderIDs", "sessionIDs",
                       "loose", "at", "takenFolders", "takenSessions"}
        /\ i.user = u /\ i.into = into /\ i.folderIDs = <<>> /\ i.sessionIDs = <<>>
        /\ i.takenFolders = T
    BY <2>2
  <2>6. into \in Folders \cup {None}
    BY DEF There
  <2>7. Noted(i)
    BY <2>3, <2>4, <2>5, <2>6 DEF Noted
  <2>8. QED
    BY <2>1, <2>2, <2>7, OneImport
<1>3. QED
  BY <1>1, <1>2

(* Every step. *)
LEMMA ImportsSoundStep ==
  ASSUME IInv, ImportsNext
  PROVE  ImportsSound'
<1>1. TreeInv /\ ImportsSound
  BY DEF IInv
<1>2. CASE UNCHANGED imp
  BY <1>1, <1>2 DEF ImportsSound, Importing, Noted
<1>3. ASSUME NEW r \in Requests, Importing(r), ImportStep(r) PROVE ImportsSound'
  BY <1>1, <1>3, ImportStepNotes
<1>4. ASSUME NEW r \in Requests, NEW u \in Users, NEW k \in Tokens,
             NEW into \in There \cup {None}, NEW mode \in {"skip", "rename"},
             NEW goesOn \in BOOLEAN, CommitImport(r, u, k, into, mode, goesOn)
      PROVE  ImportsSound'
  BY <1>1, <1>4, CommitNotes
<1>5. QED
  BY <1>2, <1>3, <1>4 DEF ImportsNext, PreviewImport, Unstage, importVars

(* A preview is taken by its commit. *)
LEMMA SpentStep ==
  ASSUME IInv, ImportsNext
  PROVE  Spent'
<1>1. Spent
  BY DEF IInv
<1>2. CASE UNCHANGED <<staged, commits>>
  BY <1>1, <1>2 DEF Spent
<1>3. ASSUME NEW r \in Requests, ImportStep(r) PROVE UNCHANGED <<staged, commits>>
  BY ZenonT(60), <1>3 DEF ImportStep, ImportFolder, BreakLoop, ImportedFolder, FoldersDone,
     ImportSession, ImportedSession, SessionsDone, ImportChain, ImportedChain, ImportDone,
     ImportStops, Go
<1>4. ASSUME NEW r, NEW u, NEW k \in Tokens, NEW into, NEW mode, NEW goesOn,
             CommitImport(r, u, k, into, mode, goesOn)
      PROVE  Spent'
  <2>1. commits[k] = 0 /\ staged' = [staged EXCEPT ![k] = Gone]
        /\ commits' \in {commits, [commits EXCEPT ![k] = @ + 1]}
    BY <1>1, <1>4 DEF CommitImport, take, Spent
  <2>2. QED
    BY <1>1, <2>1 DEF Spent
<1>5. ASSUME NEW u, NEW k \in Tokens, NEW b, PreviewImport(u, k, b) PROVE Spent'
  <2>1. commits[k] = 0
    BY <1>1, <1>5, Constants DEF PreviewImport, Spent
  <2>2. QED
    BY <1>1, <1>5, <2>1 DEF PreviewImport, Spent
<1>6. ASSUME NEW k \in Tokens, Unstage(k) PROVE Spent'
  BY <1>1, <1>6 DEF Unstage, Spent
<1>7. QED
  BY <1>2, <1>3, <1>4, <1>5, <1>6 DEF ImportsNext, importVars

(***************************************************************************)
(* The specification.                                                      *)
(***************************************************************************)

(* An empty tree and no previews. *)
LEMMA InitIInv ==
  ImportsInit => IInv
<1> SUFFICES ASSUME ImportsInit PROVE IInv
  OBVIOUS
<1>1. TreeRows /\ OwnersKept
  BY Constants DEF ImportsInit, Init, TreeRows, OwnersKept, HasFolder, HasConn
<1>2. MovesNeedRaces
  BY DEF ImportsInit, Init, MovesNeedRaces, OnCycle, Above
<1>3. ASSUME NEW r \in Requests PROVE Placed(pending[r]) /\ Current(pending[r])
  <2>1. pending[r].op = "nothing"
    BY DEF ImportsInit, Init, Nothing
  <2>2. QED
    BY <2>1 DEF Placed, Current
<1>4. ImportsSound
  BY DEF ImportsInit, ImportsSound, Importing, NoImport
<1>5. Spent
  BY DEF ImportsInit, Spent
<1>6. QED
  BY <1>1, <1>2, <1>3, <1>4, <1>5 DEF IInv, TreeInv, RequestsSound

(* Every step keeps the invariant. *)
LEMMA StepIInv ==
  IInv /\ [ImportsNext]_vars => IInv'
<1> SUFFICES ASSUME IInv, [ImportsNext]_vars PROVE IInv'
  OBVIOUS
<1>1. CASE ImportsNext
  BY <1>1, TreeInvStep, ImportsSoundStep, SpentStep DEF IInv
<1>2. CASE UNCHANGED vars
  <2>1. TreeInv'
    BY <1>2, TreeUntouched DEF IInv, vars, treeVars
  <2>2. ImportsSound' /\ Spent'
    BY <1>2 DEF IInv, vars, importVars, ImportsSound, Importing, Noted, Spent
  <2>3. QED
    BY <2>1, <2>2 DEF IInv
<1>3. QED
  BY <1>1, <1>2

(* It holds in every reachable state. *)
LEMMA SpecIInv ==
  ImportsSpec => []IInv
  BY InitIInv, StepIInv, PTL DEF ImportsSpec

(* However requests and imports overlap, a folder lies in a folder of its    *)
(* own owner and a connection in a folder of its own owner, and the folder   *)
(* is there.                                                                 *)
THEOREM OwnersAlwaysKept ==
  ImportsSpec => []OwnersKept
<1>1. IInv => OwnersKept
  BY DEF IInv, TreeInv
<1>2. QED
  BY <1>1, SpecIInv, PTL

(* In a tree of any depth no folder comes to lie under itself unless two     *)
(* moves overlapped: checkMove's walk is enough for moves one after another, *)
(* whatever else overlaps them.                                              *)
THEOREM LoopsOfFoldersNeedRaces ==
  ImportsSpec => []MovesNeedRaces
<1>1. IInv => MovesNeedRaces
  BY DEF IInv, TreeInv
<1>2. QED
  BY <1>1, SpecIInv, PTL

(* A preview is committed at most once, however often the browser asks. *)
THEOREM PreviewsCommittedOnce ==
  ImportsSpec => []CommittedOnce
<1>1. IInv => CommittedOnce
  BY DEF IInv, Spent, CommittedOnce
<1>2. QED
  BY <1>1, SpecIInv, PTL

(***************************************************************************)
(* Deletions.                                                              *)
(***************************************************************************)

(* A step is one request's: the others have in hand what they had. *)
LEMMA OthersWait ==
  ASSUME TreeRows, NEW q \in Requests, Checks(q) \/ Writes(q) \/ Abort(q) \/ ImportStep(q),
         NEW r \in Requests \ {q}
  PROVE  pending'[r] = pending[r]
<1>1. CASE Checks(q)
  <2>1. ASSUME NEW u, NEW t, NEW p, NEW n, CreateFolder(q, u, t, p, n)
        PROVE  pending'[r] = pending[r]
    BY <2>1 DEF TreeRows, CreateFolder, Start
  <2>2. ASSUME NEW u, NEW f, NEW p, NEW n, UpdateFolder(q, u, f, p, n)
        PROVE  pending'[r] = pending[r]
    BY <2>2 DEF TreeRows, UpdateFolder, Start
  <2>3. ASSUME NEW u, NEW f, DeleteFolder(q, u, f) \/ DeleteTree(q, u, f)
        PROVE  pending'[r] = pending[r]
    BY <2>3 DEF TreeRows, DeleteFolder, DeleteTree, Start
  <2>4. ASSUME NEW u, NEW f, NEW n, NEW ch, NEW s, CreateSession(q, u, f, n, ch, s)
        PROVE  pending'[r] = pending[r]
    BY <2>4 DEF TreeRows, CreateSession, Start
  <2>5. ASSUME NEW u, NEW c, NEW f, NEW ch, NEW s, UpdateSession(q, u, c, f, ch, s)
        PROVE  pending'[r] = pending[r]
    BY <2>5 DEF TreeRows, UpdateSession, Start
  <2>6. ASSUME NEW u, NEW x, NEW y, DeleteSession(q, u, x) \/ DeleteTeam(q, u, x, y)
        PROVE  pending'[r] = pending[r]
    BY <2>6 DEF TreeRows, DeleteSession, DeleteTeam, Start
  <2>7. QED
    BY <1>1, <2>1, <2>2, <2>3, <2>4, <2>5, <2>6 DEF Checks
<1>2. CASE Writes(q)
  BY ZenonT(60), <1>2
  DEF TreeRows, Writes, Finish, InsertFolder, InsertSession, WriteFolder,
     RemoveFolder, RemoveTree, WriteSession, RemoveSession, RemoveTeam
<1>3. CASE Abort(q)
  BY <1>3 DEF TreeRows, Abort
<1>4. CASE ImportStep(q)
  BY ZenonT(60), <1>4
  DEF TreeRows, ImportStep, ImportFolder, BreakLoop, ImportedFolder,
      FoldersDone,
     ImportSession, ImportedSession, SessionsDone, ImportChain, ImportedChain, ImportDone,
     ImportStops, Go, treeVars, InsertFolder, InsertSession, WriteSession, Finish
<1>5. QED
  BY <1>1, <1>2, <1>3, <1>4

(* A deletion of folders ends in its transaction, or has done nothing. *)
LEMMA DeletionEnds ==
  ASSUME IInv, ImportsNext, NEW r \in Requests,
         pending[r].op \in {"deleteFolder", "deleteTree"}, pending'[r] = Nothing
  PROVE  RemoveFolder(r) \/ RemoveTree(r) \/ UNCHANGED <<owner, holder>>
<1>1. TreeRows /\ Nothing.op = "nothing"
  BY DEF IInv, TreeInv, Nothing
<1>2. Busy(r) /\ pending'[r] # pending[r]
  BY <1>1 DEF Busy
<1>3. CASE TeamStep
  BY <1>3 DEF TeamStep, CreateTeam, SetMember, folderVars, connVars
<1>4. ASSUME NEW q \in Requests, Checks(q) \/ Writes(q) \/ Abort(q)
      PROVE  RemoveFolder(r) \/ RemoveTree(r) \/ UNCHANGED <<owner, holder>>
  <2>1. q = r
    BY <1>1, <1>2, <1>4, OthersWait
  <2>2. CASE Checks(q)
    BY <1>2, <2>1, <2>2 DEF Checks
  <2>3. CASE Writes(q)
    BY <2>1, <2>3
    DEF Writes, InsertFolder, InsertSession, WriteFolder, WriteSession,
       RemoveSession, RemoveTeam
  <2>4. CASE Abort(q)
    BY <2>4 DEF Abort, folderVars, connVars
  <2>5. QED
    BY <1>4, <2>2, <2>3, <2>4
<1>5. ASSUME NEW q \in Requests, ImportStep(q) PROVE UNCHANGED <<owner, holder>>
  <2>1. q = r
    BY <1>1, <1>2, <1>5, OthersWait
  <2>2. QED
    BY ZenonT(60), <1>2, <1>5, <2>1
    DEF ImportStep, ImportFolder, BreakLoop, ImportedFolder, FoldersDone,
       ImportSession, ImportedSession, SessionsDone, ImportChain, ImportedChain, ImportDone,
       ImportStops, At, InsertFolder, InsertSession, WriteSession, folderVars, connVars
<1>6. CASE UNCHANGED treeVars
  BY <1>6 DEF treeVars, folderVars, connVars
<1>7. QED
  BY ZenonT(60), <1>3, <1>4, <1>5, <1>6
  DEF ImportsNext, CommitImport, PreviewImport, Unstage,
     folderVars, connVars

(* What a recursive deletion that nothing has overtaken has listed is the    *)
(* folder and all that lies below it.                                        *)
LEMMA ListedIsBelow ==
  ASSUME IInv, NEW r \in Requests, pending[r].op = "deleteTree", r \notin stale,
         owner[pending[r].id] \in Users
  PROVE  pending[r].listed = Below(pending[r].id)
<1>1. TreeRows /\ OwnersKept /\ Placed(pending[r]) /\ Current(pending[r])
  BY DEF IInv, TreeInv, RequestsSound
<1>2. PICK f, L : f = pending[r].id /\ L = pending[r].listed
  OBVIOUS
<1>3. f \in Folders /\ HasFolder(f)
  BY <1>1, <1>2, Constants DEF Placed, HasFolder
<1>4. L = {f} \cup {g \in Below(f) : owner[f] \in Users /\ owner[g] = owner[f]}
  BY <1>1, <1>2, <1>3 DEF Current, descendantFolderIDs
<1>5. f \in Below(f)
  BY <1>3, WalkSelf, Constants DEF Below, There, Above
<1>6. \A g \in Below(f) : owner[g] = owner[f]
  BY <1>1, <1>3, BelowOwned
<1>7. QED
  BY <1>2, <1>4, <1>5, <1>6

(* What a deletion destroys is what it was asked to: DeleteFolder never a    *)
(* connection, even one saved after its count; DeleteFolderRecursive of      *)
(* one's own folder, unless overtaken, the connections below it and no       *)
(* others.                                                                   *)
THEOREM DeletionsExact ==
  ImportsSpec => DeletesExactly
<1> DEFINE destroyed == {c \in Saved : holder'[c] = Gone}
           Exact ==
             \A r \in Requests :
               /\ pending[r].op = "deleteFolder" /\ pending'[r] = Nothing => destroyed = {}
               /\ /\ pending[r].op = "deleteTree" /\ pending'[r] = Nothing /\ r \notin stale
                  /\ owner[pending[r].id] \in Users /\ owner'[pending[r].id] = Gone
                  => destroyed = Inside(Below(pending[r].id))
<1>1. ASSUME IInv, ImportsNext PROVE Exact
  <2>1. SUFFICES ASSUME NEW r \in Requests, pending'[r] = Nothing,
                        pending[r].op \in {"deleteFolder", "deleteTree"}
                 PROVE  /\ pending[r].op = "deleteFolder" => destroyed = {}
                        /\ /\ pending[r].op = "deleteTree" /\ r \notin stale
                           /\ owner[pending[r].id] \in Users /\ owner'[pending[r].id] = Gone
                           => destroyed = Inside(Below(pending[r].id))
    OBVIOUS
  <2>2. \A c \in Saved : c \in Conns /\ holder[c] # Gone
    BY Constants DEF Saved, HasConn
  <2>3. \A x : owner[x] \in Users => owner[x] # Gone
    BY Constants
  <2>4. CASE UNCHANGED <<owner, holder>>
    BY <2>2, <2>3, <2>4
  <2>5. CASE RemoveFolder(r)
    <3>1. holder' = [c \in Conns |-> IF c \in {} THEN Gone ELSE holder[c]]
      BY <2>5 DEF RemoveFolder, Deleted
    <3>2. pending[r].op = "deleteFolder"
      BY <2>5 DEF RemoveFolder
    <3>3. QED
      BY <2>2, <3>1, <3>2
  <2>6. CASE RemoveTree(r)
    <3>1. pending[r].op = "deleteTree"
      BY <2>6 DEF RemoveTree
    <3>2. PICK C : C = Inside(pending[r].listed)
      OBVIOUS
    <3>3. holder' = [c \in Conns |-> IF c \in C THEN Gone ELSE holder[c]]
      BY <2>6, <3>2 DEF RemoveTree, Deleted
    <3>4. C \subseteq Saved
      BY <3>2 DEF Inside
    <3>5. destroyed = C
      BY <2>2, <3>3, <3>4
    <3>6. ASSUME r \notin stale, owner[pending[r].id] \in Users
          PROVE  destroyed = Inside(Below(pending[r].id))
      BY <1>1, <3>1, <3>2, <3>5, <3>6, ListedIsBelow
    <3>7. QED
      BY <3>1, <3>6
  <2>7. QED
    BY <1>1, <2>1, <2>4, <2>5, <2>6, DeletionEnds
<1>2. ASSUME IInv, [ImportsNext]_vars PROVE [Exact]_treeVars
  BY <1>1, <1>2 DEF vars
<1>3. QED
  BY <1>2, SpecIInv, PTL DEF ImportsSpec, DeletesExactly
============================================================================
