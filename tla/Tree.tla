-------------------------------- MODULE Tree --------------------------------
(***************************************************************************)
(* Folders, saved connections, jump chains and the teams that share them:  *)
(* internal/sessions (sessions.go, connections.go, jump.go, shared.go),    *)
(* internal/teams and the handlers of internal/api session_tree_handlers   *)
(* and team_handlers.                                                      *)
(*                                                                         *)
(* A request reads and checks in one step and writes in another: nothing   *)
(* in the code holds the database between the two, so what it writes may   *)
(* rest on a tree that is no longer there.  A write is one statement, or   *)
(* one transaction, with the foreign keys the schema declares.  Of a row   *)
(* the columns that no rule looks at are left out, and of an error only    *)
(* that nothing is written.                                                *)
(***************************************************************************)
EXTENDS Integers, Sequences, FiniteSets, Functions

CONSTANTS Users, Admins, Teams, Folders, Conns, Requests,
          Names,          \* names given to folders and connections by hand
          MaxDepth, MaxJumpChain,
          Workloads,      \* bounds: how often each of Kinds may happen in a behaviour
          None, Gone      \* not there yet; deleted

(* Folders and connections made, updates of each, plain and recursive      *)
(* deletions of folders, deletions of connections, acts on teams.          *)
Kinds == {"folder", "conn", "move", "edit", "delete", "deleteTree", "remove", "team", "import"}

ASSUME TreeAssumption ==
  /\ Admins \subseteq Users /\ Users \cap Teams = {}
  /\ None \notin Users \cup Teams \cup Folders \cup Conns /\ Gone \notin Users \cup Teams
  /\ None # Gone
  /\ MaxDepth \in Nat \ {0} /\ MaxJumpChain \in Nat \ {0}
  /\ Workloads \subseteq [Kinds -> Nat]

VARIABLES
  left,      \* what remains of the workload
  teams, members,        \* the rows of teams and team_members
  owner, parent, name,   \* of folders: COALESCE(user_id, team_id), parent_id
  holder, folder, label, jumps, ssh,  \* of sessions: owner, folder_id, name, jump_chain, protocol
  pending,   \* what each request has checked and not yet written
  stale,     \* requests that another's write has overtaken since their check
  raced      \* the kinds of update ever written by such a request

teamVars   == <<teams, members>>
folderVars == <<owner, parent, name>>
connVars   == <<holder, folder, label, jumps, ssh>>
raceVars   == <<stale, raced>>
treeVars   == <<left, teamVars, folderVars, connVars, pending, raceVars>>

Owners  == Users \cup Teams
Nothing == [op |-> "nothing"]

Init ==
  /\ left \in Workloads
  /\ teams = [t \in Teams |-> "none"] /\ members = {}
  /\ owner  = [f \in Folders |-> None]
  /\ parent = [f \in Folders |-> None]
  /\ name   = [f \in Folders |-> None]
  /\ holder = [c \in Conns |-> None]
  /\ folder = [c \in Conns |-> None]
  /\ label  = [c \in Conns |-> None]
  /\ jumps  = [c \in Conns |-> <<>>]
  /\ ssh    = [c \in Conns |-> TRUE]
  /\ pending = [r \in Requests |-> Nothing]
  /\ stale = {} /\ raced = {}

HasFolder(f) == owner[f] \in Owners
HasConn(c)   == holder[c] \in Owners
There == {f \in Folders : HasFolder(f)}
Saved == {c \in Conns : HasConn(c)}

(* uuid.NewV7: the id of a new row.  Inserts are bounded by the ids there are. *)
Fresh(rows) == CHOOSE x \in DOMAIN rows : rows[x] = None

(***************************************************************************)
(* Requests.  Start checks, Finish writes: a write overtakes the updates   *)
(* of the same kind, and the recursive deletions, that were checked before.*)
(***************************************************************************)
Updates == {"updateFolder", "updateSession"}
Busy(q) == pending[q].op # "nothing"

Spend(k) == left[k] > 0 /\ left' = [left EXCEPT ![k] = @ - 1]

Start(r, kind, what) ==
  /\ Spend(kind) /\ pending[r] = Nothing
  /\ pending' = [pending EXCEPT ![r] = what]
  /\ UNCHANGED raceVars

Finish(r) ==
  LET op == pending[r].op IN
  /\ pending' = [pending EXCEPT ![r] = Nothing]
  /\ stale' = (stale \cup {q \in Requests : pending[q].op \in ({op} \cap Updates) \cup {"deleteTree"}})
                \ {r}
  /\ raced' = IF r \in stale THEN raced \cup ({op} \cap Updates) ELSE raced
  /\ UNCHANGED left

(* A write that fails, as any may, and a request given up by its browser. *)
Abort(r) ==
  /\ Busy(r)
  /\ pending' = [pending EXCEPT ![r] = Nothing]
  /\ stale' = stale \ {r}
  /\ UNCHANGED <<left, teamVars, folderVars, connVars, raced>>

(***************************************************************************)
(* Folders.                                                                *)
(***************************************************************************)

(* What a walk up from f meets: the smallest set of folders with f in it and  *)
(* the parent of each of its folders.                                         *)
Walk(up, f) ==
  {g \in Folders : \A F \in SUBSET Folders :
                     f \in F /\ (\A h \in F : up[h] \in F \cup {None}) => g \in F}

Above(f) == IF f = None THEN {} ELSE Walk(parent, f)

(* The walk is given up after MaxDepth + 1 folders; one that never comes to   *)
(* the top goes round until then.                                             *)
TooDeep(f) == \/ Cardinality(Above(f)) > MaxDepth + 1
              \/ f # None /\ \A g \in Above(f) : parent[g] # None

(* mutationScope and shroudedAdminCheck: whom a request acts for. *)
MayActFor(u, o) == o = u \/ (o \in Teams /\ u \in Admins)

(* An ancestor of another owner is as if it were not there. *)
AllOf(o, f) == \A g \in Above(f) : owner[g] = o

(* depthOf, and the limit CreateFolder sets on it. *)
depthOf(o, f) == AllOf(o, f) /\ ~TooDeep(f) /\ (f # None => Cardinality(Above(f)) + 1 < MaxDepth)

(* handleCreateFolder and CreateFolder, to the insert: a folder under a      *)
(* team's is the team's.                                                     *)
CreateFolder(r, u, t, p, n) ==
  LET o == IF t # None THEN t
           ELSE IF p # None /\ owner[p] \in Teams THEN owner[p] ELSE u
  IN
  /\ Start(r, "folder", [op |-> "createFolder", owner |-> o, parent |-> p, name |-> n])
  /\ t = None /\ p # None => HasFolder(p)
  /\ MayActFor(u, o)
  /\ depthOf(o, p)
  /\ UNCHANGED <<teamVars, folderVars, connVars>>

(* The foreign keys: a parent or a team deleted meanwhile fails the insert. *)
Refers(o, f) == (o \in Teams => teams[o] = "there") /\ (f # None => HasFolder(f))

InsertFolder(r) ==
  LET w == pending[r]  f == Fresh(owner) IN
  /\ w.op = "createFolder" /\ None \in Range(owner)
  /\ Refers(w.owner, w.parent)
  /\ owner'  = [owner  EXCEPT ![f] = w.owner]
  /\ parent' = [parent EXCEPT ![f] = w.parent]
  /\ name'   = [name   EXCEPT ![f] = w.name]
  /\ Finish(r)
  /\ UNCHANGED <<teamVars, connVars>>

(* Slip: the ancestors of the new parent are not looked at. *)
checkMove_Blind(o, f, p) == p # f /\ ~TooDeep(p) /\ AllOf(o, p)
(* Slip: the new parent may be anybody's. *)
checkMove_AnyOwner(o, f, p) == p # f /\ ~TooDeep(p) /\ f \notin Above(p)

(* checkMove: not under itself, and only under folders of the same owner.    *)
(* What hangs below the folder that moves is not measured.                   *)
checkMove(o, f, p) == p # f /\ ~TooDeep(p) /\ f \notin Above(p) /\ AllOf(o, p)

(* handleUpdateFolder and UpdateFolder, to the update: the row is read, the   *)
(* request's fields replaced, and all of it written back, so an update that   *)
(* is not a move still writes the parent it read.                             *)
UpdateFolder(r, u, f, p, n) ==
  /\ Start(r, "move", [op |-> "updateFolder", id |-> f, parent |-> p, name |-> n])
  /\ HasFolder(f) /\ MayActFor(u, owner[f])
  /\ p \in {parent[f], None} \/ checkMove(owner[f], f, p)
  /\ UNCHANGED <<teamVars, folderVars, connVars>>

(* A folder deleted meanwhile is not there to be updated. *)
WriteFolder(r) ==
  LET w == pending[r] IN
  /\ w.op = "updateFolder"
  /\ (HasFolder(w.id) /\ w.parent # None) => HasFolder(w.parent)
  /\ IF HasFolder(w.id)
     THEN /\ parent' = [parent EXCEPT ![w.id] = w.parent]
          /\ name'   = [name   EXCEPT ![w.id] = w.name]
     ELSE UNCHANGED <<parent, name>>
  /\ Finish(r)
  /\ UNCHANGED <<owner, teamVars, connVars>>

Below(f) == {g \in There : f \in Above(g)}
OnCycle(f) == f \in Above(parent[f])

(* The schema: sub-folders go with a folder (ON DELETE CASCADE), connections *)
(* in any of them lose their folder (ON DELETE SET NULL).                    *)
Deleted(F, C) ==
  /\ owner'  = [g \in Folders |-> IF g \in F THEN Gone ELSE owner[g]]
  /\ parent' = [g \in Folders |-> IF g \in F THEN None ELSE parent[g]]
  /\ name'   = [g \in Folders |-> IF g \in F THEN None ELSE name[g]]
  /\ holder' = [c \in Conns |-> IF c \in C THEN Gone ELSE holder[c]]
  /\ folder' = [c \in Conns |-> IF c \in C \/ folder[c] \in F THEN None ELSE folder[c]]
  /\ label'  = [c \in Conns |-> IF c \in C THEN None ELSE label[c]]
  /\ jumps'  = [c \in Conns |-> IF c \in C THEN <<>> ELSE jumps[c]]
  /\ ssh'    = [c \in Conns |-> IF c \in C THEN TRUE ELSE ssh[c]]

Inside(F) == {c \in Saved : folder[c] \in F}

(* handleDeleteFolder without recursive, and DeleteFolder: counted empty,    *)
(* then deleted.                                                             *)
DeleteFolder(r, u, f) ==
  /\ Start(r, "delete", [op |-> "deleteFolder", id |-> f])
  /\ HasFolder(f) /\ MayActFor(u, owner[f])
  /\ \A g \in Folders : HasFolder(g) => parent[g] # f
  /\ Inside({f}) = {}
  /\ UNCHANGED <<teamVars, folderVars, connVars>>

(* Slip: the connections go with the folder. *)
RemoveFolder_Contents(r) ==
  LET f == pending[r].id IN
  /\ pending[r].op = "deleteFolder"
  /\ Deleted(Below(f), Inside(Below(f)))
  /\ Finish(r) /\ UNCHANGED teamVars

RemoveFolder(r) ==
  LET f == pending[r].id IN
  /\ pending[r].op = "deleteFolder"
  /\ Deleted(Below(f), {})
  /\ Finish(r) /\ UNCHANGED teamVars

(* descendantFolderIDs: the folders of this user below f.  ListFolders is     *)
(* asked for a user's folders whoever owns f, so below a team's folder it     *)
(* finds nothing.                                                             *)
descendantFolderIDs(o, f) == {f} \cup {g \in Below(f) : o \in Users /\ owner[g] = o}

(* handleDeleteFolder with recursive, and DeleteFolderRecursive, to the       *)
(* transaction.  A cycle is listed until the listing is refused as too long.  *)
DeleteTree(r, u, f) ==
  /\ Start(r, "deleteTree", [op |-> "deleteTree", id |-> f, listed |-> descendantFolderIDs(owner[f], f)])
  /\ HasFolder(f) /\ MayActFor(u, owner[f])
  /\ ~(owner[f] \in Users /\ OnCycle(f))
  /\ UNCHANGED <<teamVars, folderVars, connVars>>

RemoveTree(r) ==
  LET w == pending[r] IN
  /\ w.op = "deleteTree"
  /\ Deleted(Below(w.id), Inside(w.listed))
  /\ Finish(r) /\ UNCHANGED teamVars

(***************************************************************************)
(* Saved connections and their jump chains.                                *)
(***************************************************************************)

(* getSessionVisible: one's own, or a team's one is a member of; a team      *)
(* itself, for which an administrator edits a chain, sees nothing.           *)
Visible(u, c) ==
  HasConn(c) /\ u \in Users /\ (holder[c] = u \/ <<u, holder[c]>> \in members)

(* Resolve, as far as a route needs it: the folders above are walked. *)
Resolve(u, c) == Visible(u, c) /\ ~TooDeep(folder[c])

Refused == [ok |-> FALSE, route |-> <<>>, met |-> {}]

(* Slip: the hops met below a hop are forgotten after it. *)
walkChain_Forgets(u, chain, met) ==
  LET walk[d \in Nat, rest \in Seq(Conns), seen \in SUBSET Conns] ==
        IF d > MaxJumpChain THEN Refused
        ELSE IF rest = <<>> THEN [ok |-> TRUE, route |-> <<>>, met |-> seen]
        ELSE LET hop   == Head(rest)
                 inner == walk[d + 1, jumps[hop], seen]
                 later == walk[d, Tail(rest), seen]
                 route == inner.route \o <<hop>> \o later.route
             IN IF /\ hop \notin seen /\ Resolve(u, hop) /\ ssh[hop]
                   /\ inner.ok /\ later.ok /\ Len(route) <= MaxJumpChain
                THEN [later EXCEPT !.route = route] ELSE Refused
  IN walk[0, chain, met]

(* walkChain: every hop is preceded by its own hops, and none is met twice. *)
walkChain(u, chain, met) ==
  LET walk[d \in Nat, rest \in Seq(Conns), seen \in SUBSET Conns] ==
        IF d > MaxJumpChain THEN Refused
        ELSE IF rest = <<>> THEN [ok |-> TRUE, route |-> <<>>, met |-> seen]
        ELSE LET hop   == Head(rest)
                 inner == IF jumps[hop] = <<>>
                          THEN [ok |-> TRUE, route |-> <<>>, met |-> seen \cup {hop}]
                          ELSE walk[d + 1, jumps[hop], seen \cup {hop}]
                 later == walk[d, Tail(rest), inner.met]
                 route == inner.route \o <<hop>> \o later.route
             IN IF /\ hop \notin seen /\ Resolve(u, hop) /\ ssh[hop]
                   /\ inner.ok /\ later.ok /\ Len(route) <= MaxJumpChain
                THEN [later EXCEPT !.route = route] ELSE Refused
  IN walk[0, chain, met]

(* ValidateJumpChain: the hops are connections of o itself, over SSH. *)
ValidateJumpChain(o, c, chain) ==
  \/ chain = <<>>
  \/ /\ Len(chain) <= MaxJumpChain
     /\ IsInjective(chain) /\ c \notin Range(chain)
     /\ \A h \in Range(chain) : holder[h] = o /\ ssh[h]
     /\ walkChain(o, chain, {c} \cap Conns).ok

(* ExpandJumpChain: the route a dial would take; a team's connection is not  *)
(* the user's own, and is refused.                                           *)
ExpandJumpChain(u, c) ==
  IF holder[c] # u THEN Refused ELSE walkChain(u, jumps[c], {c})

(* The chains a request may ask for. *)
Chains == UNION {[1..n -> Saved] : n \in 0..MaxJumpChain}

(* handleCreateSavedSession and CreateSession, to the insert.  A connection   *)
(* in a team's folder is the team's, its hops those of the user who saves it. *)
CreateSession(r, u, f, n, chain, s) ==
  LET o == IF f # None /\ owner[f] \in Teams THEN owner[f] ELSE u IN
  /\ Start(r, "conn", [op |-> "createSession", owner |-> o, folder |-> f, name |-> n,
                       chain |-> chain, ssh |-> s])
  /\ f # None => owner[f] = o
  /\ MayActFor(u, o)
  /\ ValidateJumpChain(u, None, chain)
  /\ UNCHANGED <<teamVars, folderVars, connVars>>

InsertSession(r) ==
  LET w == pending[r]  c == Fresh(holder) IN
  /\ w.op = "createSession" /\ None \in Range(holder)
  /\ Refers(w.owner, w.folder)
  /\ holder' = [holder EXCEPT ![c] = w.owner]
  /\ folder' = [folder EXCEPT ![c] = w.folder]
  /\ label'  = [label  EXCEPT ![c] = w.name]
  /\ jumps'  = [jumps  EXCEPT ![c] = w.chain]
  /\ ssh'    = [ssh    EXCEPT ![c] = w.ssh]
  /\ Finish(r)
  /\ UNCHANGED <<teamVars, folderVars>>

(* handleUpdateSavedSession and UpdateSession, to the update: only the chain  *)
(* in the request is validated, not those that hop through this connection.   *)
UpdateSession(r, u, c, f, chain, s) ==
  /\ Start(r, "edit", [op |-> "updateSession", id |-> c, folder |-> f, name |-> label[c],
                       chain |-> chain, ssh |-> s])
  /\ HasConn(c) /\ MayActFor(u, holder[c])
  /\ f \in {folder[c], None} \cup {g \in Folders : owner[g] = holder[c]}
  /\ chain = jumps[c] \/ ValidateJumpChain(holder[c], c, chain)
  /\ UNCHANGED <<teamVars, folderVars, connVars>>

WriteSession(r) ==
  LET w == pending[r] IN
  /\ w.op = "updateSession"
  /\ HasConn(w.id) /\ w.folder # None => HasFolder(w.folder)
  /\ IF HasConn(w.id)
     THEN /\ folder' = [folder EXCEPT ![w.id] = w.folder]
          /\ label'  = [label  EXCEPT ![w.id] = w.name]
          /\ jumps'  = [jumps  EXCEPT ![w.id] = w.chain]
          /\ ssh'    = [ssh    EXCEPT ![w.id] = w.ssh]
     ELSE UNCHANGED <<folder, label, jumps, ssh>>
  /\ Finish(r)
  /\ UNCHANGED <<holder, teamVars, folderVars>>

(* jumpDependents: the connections of this user that hop through c; of a      *)
(* team's connection it finds none.                                           *)
jumpDependents(o, c) ==
  {d \in Conns \ {c} : o \in Users /\ holder[d] = o /\ c \in Range(jumps[d])}

(* handleDeleteSavedSession and DeleteSession. *)
DeleteSession(r, u, c) ==
  /\ Start(r, "remove", [op |-> "deleteSession", id |-> c])
  /\ HasConn(c) /\ MayActFor(u, holder[c])
  /\ jumpDependents(holder[c], c) = {}
  /\ UNCHANGED <<teamVars, folderVars, connVars>>

RemoveSession(r) ==
  /\ pending[r].op = "deleteSession"
  /\ Deleted({}, {pending[r].id} \cap Saved)
  /\ Finish(r) /\ UNCHANGED teamVars

(***************************************************************************)
(* Teams.                                                                  *)
(***************************************************************************)
CreateTeam(t) ==
  /\ Spend("team")
  /\ teams[t] = "none"
  /\ teams' = [teams EXCEPT ![t] = "there"]
  /\ UNCHANGED <<members, folderVars, connVars, pending, raceVars>>

(* handleDeleteTeam: what the team owns goes with it; without confirm, only   *)
(* a team that was counted empty.                                             *)
DeleteTeam(r, u, t, confirm) ==
  /\ Start(r, "team", [op |-> "deleteTeam", id |-> t])
  /\ u \in Admins /\ teams[t] = "there"
  /\ confirm \/ t \notin Range(owner) \cup Range(holder)
  /\ UNCHANGED <<teamVars, folderVars, connVars>>

RemoveTeam(r) ==
  LET t == pending[r].id IN
  /\ pending[r].op = "deleteTeam"
  /\ teams' = [teams EXCEPT ![t] = "gone"]
  /\ members' = {m \in members : m[2] # t}
  /\ Deleted({f \in Folders : owner[f] = t}, {c \in Conns : holder[c] = t})
  /\ Finish(r)

(* AddMember and RemoveMember. *)
SetMember(u, t, m) ==
  /\ Spend("team")
  /\ teams[t] = "there"
  /\ members' = IF m THEN members \cup {<<u, t>>} ELSE members \ {<<u, t>>}
  /\ UNCHANGED <<teams, folderVars, connVars, pending, raceVars>>

Checks(r) ==
  /\ ~Busy(r)
  /\ \E u \in Users :
       \/ \E t \in Teams \cup {None}, p \in There \cup {None}, n \in Names :
            CreateFolder(r, u, t, p, n)
       \/ \E f \in There, p \in There \cup {None}, n \in Names : UpdateFolder(r, u, f, p, n)
       \/ \E f \in There : DeleteFolder(r, u, f) \/ DeleteTree(r, u, f)
       \/ /\ left["conn"] > 0
          /\ \E f \in There \cup {None}, n \in Names, ch \in Chains, s \in BOOLEAN :
               CreateSession(r, u, f, n, ch, s)
       \/ /\ left["edit"] > 0
          /\ \E c \in Saved, f \in There \cup {None}, ch \in Chains, s \in BOOLEAN :
               UpdateSession(r, u, c, f, ch, s)
       \/ \E c \in Saved : DeleteSession(r, u, c)
       \/ \E t \in Teams, confirm \in BOOLEAN : DeleteTeam(r, u, t, confirm)

Writes(r) ==
  \/ InsertFolder(r) \/ InsertSession(r)
  \/ WriteFolder(r) \/ RemoveFolder(r) \/ RemoveTree(r)
  \/ WriteSession(r) \/ RemoveSession(r) \/ RemoveTeam(r)

TeamStep ==
  \/ \E t \in Teams : CreateTeam(t)
  \/ \E u \in Users, t \in Teams, m \in BOOLEAN : SetMember(u, t, m)

Next == TeamStep \/ \E r \in Requests : Checks(r) \/ Writes(r) \/ Abort(r)

Spec == Init /\ [][Next]_treeVars

-----------------------------------------------------------------------------
TypeOK ==
  /\ left \in [Kinds -> Nat]
  /\ teams \in [Teams -> {"none", "there", "gone"}] /\ members \subseteq Users \X Teams
  /\ owner \in [Folders -> Owners \cup {None, Gone}]
  /\ parent \in [Folders -> Folders \cup {None}]
  /\ holder \in [Conns -> Owners \cup {None, Gone}]
  /\ folder \in [Conns -> Folders \cup {None}]
  /\ jumps \in [Conns -> Seq(Conns)] /\ ssh \in [Conns -> BOOLEAN]
  /\ \A r \in Requests : "op" \in DOMAIN pending[r]
  /\ stale \subseteq Requests /\ raced \subseteq Updates

(* However requests overlap, a folder lies in a folder of its own owner and a *)
(* connection in a folder of its own owner, and the folder is there: the      *)
(* checks of CreateFolder, checkMove, CreateSession and UpdateSession hold at *)
(* the write because owners never change and the schema guards deletions.     *)
OwnersKept ==
  /\ \A f \in Folders : HasFolder(f) /\ parent[f] # None => owner[parent[f]] = owner[f]
  /\ \A c \in Conns : HasConn(c) /\ folder[c] # None => owner[folder[c]] = holder[c]

(* The connections reached from c in at most n hops. *)
Through[c \in Conns, n \in Nat] ==
  IF n = 0 THEN {}
  ELSE Range(jumps[c]) \cup UNION {Through[h, n - 1] : h \in Range(jumps[c])}

(* No folder lies under itself unless two moves overlapped. *)
MovesNeedRaces == "updateFolder" \notin raced => \A f \in Folders : ~OnCycle(f)

(* No folder lies under itself and no connection is reached through itself,  *)
(* unless two updates overlapped: no sequence of moves, edits, deletions and *)
(* imports that checkMove and ValidateJumpChain let through makes a loop.    *)
LoopsNeedRaces ==
  /\ MovesNeedRaces
  /\ "updateSession" \notin raced =>
       \A c \in Conns : c \notin Through[c, Cardinality(Conns)]

(* Whatever the chains have become, ExpandJumpChain ends, and a route it     *)
(* gives is one a dial can follow: over SSH, no connection twice and never   *)
(* the target, and each hop after the hops of its own chain.                 *)
RoutesSound ==
  \A u \in Users, c \in Conns :
    LET w == ExpandJumpChain(u, c) IN
    w.ok => /\ IsInjective(w.route) /\ c \notin Range(w.route)
            /\ Len(w.route) <= MaxJumpChain
            /\ \A i \in DOMAIN w.route :
                 /\ Visible(u, w.route[i]) /\ ssh[w.route[i]]
                 /\ \A h \in Range(jumps[w.route[i]]) : \E j \in 1..(i - 1) : w.route[j] = h

(* What a deletion destroys is what it was asked to: DeleteFolder never a    *)
(* connection, even one saved after its count; DeleteFolderRecursive of one's*)
(* own folder, unless overtaken, the connections below it and no others.     *)
DeletesExactly ==
  [][LET destroyed == {c \in Saved : holder'[c] = Gone} IN
     \A r \in Requests :
       /\ pending[r].op = "deleteFolder" /\ pending'[r] = Nothing => destroyed = {}
       /\ /\ pending[r].op = "deleteTree" /\ pending'[r] = Nothing /\ r \notin stale
          /\ owner[pending[r].id] \in Users /\ owner'[pending[r].id] = Gone
          => destroyed = Inside(Below(pending[r].id))]_treeVars
=============================================================================
