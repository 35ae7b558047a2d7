------------------------------ MODULE Transfers ------------------------------
(***************************************************************************)
(* Work over file sessions: the server-side copy and delete jobs of        *)
(* internal/files/transfer.go, the SFTP operations of                      *)
(* internal/proto/sftpx/client.go they are made of, and the handlers of    *)
(* internal/api/file_handlers.go that start jobs or change files directly. *)
(* The sessions themselves are FileAccess: they open, are taken out of the *)
(* map by their user, the reaper or Shutdown, and die under whoever still  *)
(* works over them.                                                        *)
(*                                                                         *)
(* A path is the sequence of its names, so that path.Join is \o and being  *)
(* beneath is being an extension.  A host's tree maps the paths that exist *)
(* to nodes; a file's data is the sequence of its buffers.  Every SFTP     *)
(* round trip that changes a tree is one action.  Listings come back in an *)
(* arbitrary order instead of by name.                                     *)
(***************************************************************************)
EXTENDS FileAccess, SequencesExt

CONSTANTS Requests,      \* HTTP requests in flight
          Jobs,          \* server-side jobs; each is started once
          MaxJobsPerUser,
          Trees,         \* what is on each host to begin with
          Targets,       \* paths the user names
          Spellings,     \* how the user names what to copy
          Dirs,          \* directories the user copies into
          Places,        \* paths a rename may move things to
          Modes,         \* permission bits a chmod may ask for
          MaxEdits,      \* bound on requests that change or stream files
          MaxBuffers     \* bound on the buffers an upload writes

(***************************************************************************)
(* The path of a copy's source is used as the user sent it, everything      *)
(* else is cleaned first.  A spelling is the path it means, what path.Base  *)
(* finds in it, and by how many characters it is longer than the path as    *)
(* List will spell it; every name here is of one letter, and so a slash and *)
(* a name are two characters.  "/a/./b" is a surplus of two; "/a/." is too, *)
(* with the base "."; "." itself counts as two, for List drops it (sessions *)
(* start at the root here).                                                 *)
(***************************************************************************)
ASSUME TransfersAssumption ==
  /\ MaxJobsPerUser \in Nat \ {0}
  /\ MaxEdits \in Nat
  /\ MaxBuffers \in Nat
  /\ \A p \in Spellings : /\ p.surplus \in Nat
                          /\ p.base \in {".", ".."} \/ p.base = Last(p.path)

VARIABLES tree,  \* what is on each host
          job,   \* Transfers.jobs, and where each job's goroutine is
          ask,   \* the job a request asks for, between quota and registration
          quiet, \* whether nobody else has changed a tree while a job runs
          busy,  \* the upload or download a request streams
          edits  \* how many changes were made outside jobs

workVars == <<tree, job, ask, quiet, busy, edits>>
vars == <<accessVars, workVars>>

File(d, m) == [kind |-> "file", data |-> d, mode |-> m, to |-> <<>>]
Dir        == [kind |-> "dir", data |-> <<>>, mode |-> None, to |-> <<>>]

(***************************************************************************)
(* The SFTP operations, on a tree t.                                       *)
(***************************************************************************)

Ancestors(p) == {SubSeq(p, 1, n) : n \in 0..(Len(p) - 1)}
IsLink(t, p) == p \in DOMAIN t /\ t[p].kind = "link"

(* Where the server finds p: a link on the way to it is followed. *)
Real(t, p) ==
  IF \E q \in Ancestors(p) : IsLink(t, q)
  THEN LET q == CHOOSE q \in Ancestors(p) : IsLink(t, q)
       IN  t[q].to \o SubSeq(p, Len(q) + 1, Len(p))
  ELSE p

Exists(t, p) == Real(t, p) \in DOMAIN t
Node(t, p)   == t[Real(t, p)]

(* What is at p once a link at p itself is followed too: what opening p, and *)
(* stat, see.                                                               *)
Follow(t, p) == IF Exists(t, p) /\ Node(t, p).kind = "link" THEN Node(t, p).to
                                                            ELSE Real(t, p)
Kind(t, p)   == IF Follow(t, p) \in DOMAIN t THEN t[Follow(t, p)].kind ELSE "none"

(* Stat, Size: lstat says what p is, stat what it leads to. *)
IsDir(t, p)   == Exists(t, p) /\ Node(t, p).kind = "dir"
HasSize(t, p) == Kind(t, p) = "file"

(* List: what is in p, named under p. *)
List(t, p) ==
  {Append(p, Last(q)) : q \in {q \in DOMAIN t \ {<<>>} : Front(q) = Follow(t, p)}}

Put(t, p, n) == [q \in DOMAIN t \cup {p} |-> IF q = p THEN n ELSE t[q]]
Drop(t, p)   == [q \in DOMAIN t \ {p} |-> t[q]]

(* Mkdir, MkdirAll: any missing parents too, refused where a file is. *)
CanMkdir(t, p) ==
  \A q \in Ancestors(p) \cup {p} : Exists(t, q) => Kind(t, q) = "dir"
Mkdir(t, p) ==
  LET new == {Real(t, q) : q \in {q \in Ancestors(p) \cup {p} : ~Exists(t, q)}}
  IN  [q \in DOMAIN t \cup new |-> IF q \in new THEN Dir ELSE t[q]]

(* Writer: the file is there, and empty when it is opened at offset zero. *)
CanWrite(t, p) == /\ p # <<>> /\ Kind(t, Front(p)) = "dir"
                  /\ Kind(t, p) \in {"none", "file"}
Writer(t, p, offset) ==
  LET old == IF HasSize(t, p) THEN t[Follow(t, p)] ELSE File(<<>>, None)
  IN  Put(t, Follow(t, p), IF offset = 0 THEN [old EXCEPT !.data = <<>>] ELSE old)

Data(t, p) == t[Follow(t, p)].data

(* One buffer written at a place; a gap reads as None. *)
WriteAt(t, p, pos, b) ==
  LET f == t[Follow(t, p)]
      n == IF pos > Len(f.data) THEN pos ELSE Len(f.data)
      d == [i \in 1..n |-> IF i = pos THEN b ELSE IF i <= Len(f.data) THEN f.data[i] ELSE None]
  IN  Put(t, Follow(t, p), [f EXCEPT !.data = d])

Chmod(t, p, m) == Put(t, Follow(t, p), [t[Follow(t, p)] EXCEPT !.mode = m])

(* Remove and RemoveDirectory: never a directory with anything in it. *)
CanUnlink(t, p) == Exists(t, p) /\ (IsDir(t, p) => List(t, p) = {})
Unlink(t, p)    == Drop(t, Real(t, p))

(* Rename, by PosixRename or the plain rename that will not replace: what   *)
(* is beneath p moves with it.                                              *)
CanRename(t, p, q) ==
  /\ p # <<>> /\ q # <<>> /\ p \in DOMAIN t
  /\ IsDir(t, Front(q)) /\ q = Real(t, q) /\ ~IsPrefix(p, q)
  /\ Exists(t, q) => Node(t, q).kind # "dir" /\ t[p].kind # "dir"
Rename(t, p, q) ==
  LET moved == {r \in DOMAIN t : IsPrefix(p, r)}
      New(r) == q \o SubSeq(r, Len(p) + 1, Len(r))
      Old(r) == p \o SubSeq(r, Len(q) + 1, Len(r))
  IN  [r \in ((DOMAIN t \ moved) \ {q}) \cup {New(m) : m \in moved} |->
         IF IsPrefix(q, r) THEN t[Old(r)] ELSE t[r]]

(***************************************************************************)
(* Jobs.                                                                   *)
(***************************************************************************)

NoJob == [st |-> "none", kind |-> None, src |-> None, dst |-> None,
          from |-> <<>>, surplus |-> 0, root |-> <<>>, over |-> FALSE, stop |-> FALSE,
          at |-> "none", stack |-> <<>>, found |-> <<>>, pos |-> 0, old |-> FALSE]

Init ==
  /\ AccessInit
  /\ tree  = Trees
  /\ job   = [j \in Jobs |-> NoJob]
  /\ ask   = [r \in Requests |-> NoJob]
  /\ quiet = [j \in Jobs |-> TRUE]
  /\ busy  = [r \in Requests |-> None]
  /\ edits = 0

Running == {j \in Jobs : job[j].st = "running"}

(* Nothing recovers a panic of a job's goroutine: the server is gone. *)
Crashed == \E j \in Jobs : job[j].st = "panicked"
Free(r) == ask[r] = NoJob /\ busy[r] = None
Alive(s) == life[s] # "dead"

(* Manager.Get, sessionFor: the sessions a request can come by. *)
Findable == {s \in Sessions : life[s] = "open"}

(* A change of a tree that is not job k's own. *)
Disturb(k) == quiet' = [j \in Jobs |-> quiet[j] /\ (j = k \/ j \notin Running)]

(* within: p is q or beneath it.  Of the root it finds only the root to be. *)
Within(p, q) == p = q \/ (q # <<>> /\ IsStrictPrefix(q, p))

WithinQuota == Cardinality(Running) < MaxJobsPerUser

(* destRoot: path.Join(directory, path.Base(p)); the base of "/" is "/". *)
DestRoot(dir, base) ==
  CASE base = "."  -> dir
    [] base = ".." -> IF dir = <<>> THEN dir ELSE Front(dir)
    [] OTHER       -> Append(dir, base)

(* handleStartCopy and StartCopy, to the end of checkQuota. *)
StartCopy(r, s, d, p, dir, over) ==
  /\ Free(r)
  /\ WithinQuota
  /\ ask' = [ask EXCEPT ![r] = [NoJob EXCEPT
       !.kind = "copy", !.src = s, !.dst = d, !.from = p.path, !.surplus = p.surplus,
       !.root = DestRoot(dir, p.base), !.over = over, !.at = "stat"]]
  /\ UNCHANGED <<accessVars, tree, job, quiet, busy, edits>>

(* StartDelete, to the end of checkQuota. *)
StartDelete(r, s, p) ==
  /\ WithinQuota
  /\ ask' = [ask EXCEPT ![r] = [NoJob EXCEPT
       !.kind = "delete", !.src = s, !.dst = s, !.from = p, !.at = "visit",
       !.stack = <<[p |-> p, dir |-> FALSE]>>]]

(* StartCopy and StartDelete, the rest: the job is registered and started. *)
StartJob(r, j) ==
  /\ ask[r] # NoJob /\ job[j].st = "none"
  /\ job' = [job EXCEPT ![j] = [ask[r] EXCEPT !.st = "running"]]
  /\ ask' = [ask EXCEPT ![r] = NoJob]
  /\ UNCHANGED <<accessVars, tree, quiet, busy, edits>>

(* Cancel: the context of a job is cancelled. *)
Cancel(j) ==
  /\ job[j].st = "running" /\ ~job[j].stop
  /\ job' = [job EXCEPT ![j].stop = TRUE]
  /\ UNCHANGED <<accessVars, tree, ask, quiet, busy, edits>>

(* Transfers.Shutdown: the contexts of all of them are. *)
Shutdown ==
  /\ \E j \in Running : ~job[j].stop
  /\ job' = [j \in Jobs |-> IF j \in Running THEN [job[j] EXCEPT !.stop = TRUE] ELSE job[j]]
  /\ UNCHANGED <<accessVars, tree, ask, quiet, busy, edits>>

(* finish and sweep: the outcome is recorded, and jobs that finished more   *)
(* than JobRetention ago are forgotten.                                     *)
Finish(j, how) ==
  /\ job' = [k \in Jobs |->
       IF k = j THEN [NoJob EXCEPT !.st = how]
       ELSE IF job[k].old THEN [NoJob EXCEPT !.st = "gone"] ELSE job[k]]
  /\ UNCHANGED <<tree, quiet>>

(* JobRetention passes since a job finished. *)
JobAges(j) ==
  /\ job[j].st \in {"done", "failed", "cancelled"} /\ ~job[j].old
  /\ job' = [job EXCEPT ![j].old = TRUE]
  /\ UNCHANGED <<accessVars, tree, ask, quiet, busy, edits>>

Goto(j, r) == job' = [job EXCEPT ![j] = r] /\ UNCHANGED <<tree, quiet>>
Src(j)     == tree[owner[job[j].src]]
Dst(j)     == tree[owner[job[j].dst]]
OnDst(j, t, r) == /\ tree' = [tree EXCEPT ![owner[job[j].dst]] = t]
                  /\ Disturb(j)
                  /\ job' = [job EXCEPT ![j] = r]

(* Where the entry f of the source goes: what is left of its path once as   *)
(* many characters are cut off as the user's spelling of the source has.    *)
Target(j, f) ==
  job[j].root \o SubSeq(f, Len(job[j].from) + job[j].surplus \div 2 + 1, Len(f))

(* There are not as many. *)
OutOfRange(j, f) == job[j].surplus > 2 * (Len(f) - Len(job[j].from))

Entries(t, S) == SetToSeq({[p |-> p, dir |-> IsDir(t, p)] : p \in S})


(* Copying a host onto itself, into what is being copied. *)
IntoItself(j) ==
  job[j].src = job[j].dst /\ Within(job[j].root, job[j].from)

(* runCopy, to the walk: what is there, and whether it would be copied into *)
(* itself.                                                                  *)
RunCopy(j) ==
  LET from == job[j].from IN
  IF ~Exists(Src(j), from) \/ IntoItself(j) THEN Finish(j, "failed")
  ELSE IF Kind(Src(j), from) = "dir"
  THEN Goto(j, [job[j] EXCEPT !.at = "walk", !.stack = <<[p |-> from, dir |-> TRUE]>>])
  ELSE Goto(j, [job[j] EXCEPT !.at = "check", !.found = <<[p |-> from, dir |-> FALSE]>>])

(* walk: the next entry is taken, and a directory listed, its directories   *)
(* before its files and no links.                                           *)
Walk(j) ==
  LET e    == Head(job[j].stack)
      here == {p \in List(Src(j), e.p) : ~IsLink(Src(j), Real(Src(j), p))}
      dirs == {p \in here : IsDir(Src(j), p)}
      found == job[j].found \o (IF e.p = job[j].from THEN <<>> ELSE <<e>>)
  IN  IF job[j].stack = <<>> THEN Goto(j, [job[j] EXCEPT !.at = "next"])
      ELSE IF ~e.dir THEN Goto(j, [job[j] EXCEPT !.stack = Tail(@), !.found = found])
      ELSE IF ~Exists(Src(j), e.p) THEN Finish(j, "failed")
      ELSE Goto(j, [job[j] EXCEPT !.found = found,
             !.stack = Entries(Src(j), dirs) \o Entries(Src(j), here \ dirs) \o Tail(@)])

(* Slip: a directory stays on the list once it was made. *)
NextEntry_Stuck(j) ==
  LET e == Head(job[j].found)
      d == IF e.dir THEN Target(j, e.p) ELSE Front(Target(j, e.p))
  IN  IF job[j].found = <<>> THEN Finish(j, "done")
      ELSE IF OutOfRange(j, e.p) THEN Goto(j, [NoJob EXCEPT !.st = "panicked"])
      ELSE IF ~CanMkdir(Dst(j), d) THEN Finish(j, "failed")
      ELSE OnDst(j, Mkdir(Dst(j), d),
             IF e.dir THEN job[j] ELSE [job[j] EXCEPT !.at = "check"])

(* runCopy's loop: the entry's target is worked out, and a directory made,  *)
(* or a file's directory and then the file.                                 *)
NextEntry(j) ==
  LET e == Head(job[j].found)
      d == IF e.dir THEN Target(j, e.p) ELSE Front(Target(j, e.p))
  IN  IF job[j].found = <<>> THEN Finish(j, "done")
      ELSE IF OutOfRange(j, e.p) THEN Goto(j, [NoJob EXCEPT !.st = "panicked"])
      ELSE IF ~CanMkdir(Dst(j), d) THEN Finish(j, "failed")
      ELSE OnDst(j, Mkdir(Dst(j), d),
             IF e.dir THEN [job[j] EXCEPT !.found = Tail(@)]
                      ELSE [job[j] EXCEPT !.at = "check"])

(* copyFile, its look at what is there. *)
MayReplace(j) == job[j].over \/ ~HasSize(Dst(j), Target(j, Head(job[j].found).p))
Check(j) ==
  IF MayReplace(j) THEN Goto(j, [job[j] EXCEPT !.at = "open"]) ELSE Finish(j, "failed")

(* copyFile, both ends opened and the destination truncated. *)
OpenFiles(j) ==
  LET f == Head(job[j].found).p IN
  IF ~HasSize(Src(j), f) \/ ~CanWrite(Dst(j), Target(j, f)) THEN Finish(j, "failed")
  ELSE OnDst(j, Writer(Dst(j), Target(j, f), 0), [job[j] EXCEPT !.at = "stream", !.pos = 1])

(* Slip: the last block is taken for the end of the file. *)
Stream_Short(j) ==
  LET f == Head(job[j].found).p
      t == Target(j, f)
  IN  IF ~HasSize(Src(j), f) \/ ~HasSize(Dst(j), t) THEN Finish(j, "failed")
      ELSE IF job[j].pos >= Len(Data(Src(j), f))
      THEN Goto(j, [job[j] EXCEPT !.at = "mode"])
      ELSE OnDst(j, WriteAt(Dst(j), t, job[j].pos, Data(Src(j), f)[job[j].pos]),
                 [job[j] EXCEPT !.pos = @ + 1])

(* stream: one buffer, until the source ends. *)
Stream(j) ==
  LET f == Head(job[j].found).p
      t == Target(j, f)
  IN  IF ~HasSize(Src(j), f) \/ ~HasSize(Dst(j), t) THEN Finish(j, "failed")
      ELSE IF job[j].pos > Len(Data(Src(j), f))
      THEN Goto(j, [job[j] EXCEPT !.at = "mode"])
      ELSE OnDst(j, WriteAt(Dst(j), t, job[j].pos, Data(Src(j), f)[job[j].pos]),
                 [job[j] EXCEPT !.pos = @ + 1])

(* copyFile, the mode follows the file, unless the context is cancelled     *)
(* and so the source cannot be asked for it.                                *)
FollowMode(j) ==
  LET f == Head(job[j].found).p
      t == Target(j, f)
      after == [job[j] EXCEPT !.at = "next", !.pos = 0, !.found = Tail(@)]
  IN  IF job[j].stop \/ ~HasSize(Src(j), f) \/ ~HasSize(Dst(j), t) THEN Goto(j, after)
      ELSE OnDst(j, Chmod(Dst(j), t, Node(Src(j), f).mode), after)

(* Slip: a link to a directory is descended into. *)
RemoveAll_Follows(j) ==
  LET e == Head(job[j].stack) IN
  IF job[j].stack = <<>> THEN Finish(j, "done")
  ELSE IF ~Exists(Src(j), e.p) \/ (e.dir /\ ~CanUnlink(Src(j), e.p)) THEN Finish(j, "failed")
  ELSE IF e.dir \/ List(Src(j), e.p) = {}
  THEN OnDst(j, Unlink(Src(j), e.p), [job[j] EXCEPT !.stack = Tail(@)])
  ELSE Goto(j, [job[j] EXCEPT
         !.stack = SetToSeq({[p |-> p, dir |-> FALSE] : p \in List(Src(j), e.p)})
                   \o <<[e EXCEPT !.dir = TRUE]>> \o Tail(@)])

(* RemoveAll: a link or a file goes; a directory is listed once, and goes   *)
(* after what was in it then (dir marks that it has been listed).           *)
RemoveAll(j) ==
  LET e == Head(job[j].stack) IN
  IF job[j].stack = <<>> THEN Finish(j, "done")
  ELSE IF ~Exists(Src(j), e.p) \/ (e.dir /\ ~CanUnlink(Src(j), e.p)) THEN Finish(j, "failed")
  ELSE IF e.dir \/ ~IsDir(Src(j), e.p)
  THEN OnDst(j, Unlink(Src(j), e.p), [job[j] EXCEPT !.stack = Tail(@)])
  ELSE Goto(j, [job[j] EXCEPT
         !.stack = SetToSeq({[p |-> p, dir |-> FALSE] : p \in List(Src(j), e.p)})
                   \o <<[e EXCEPT !.dir = TRUE]>> \o Tail(@)])

(* Where a job's goroutine looks at its context: at each stat, listing,     *)
(* entry and buffer; not between looking at a file and opening it, nor      *)
(* after the last entry, nor before a listed directory is removed.          *)
Stopped(j) ==
  /\ job[j].stop
  /\ \/ job[j].at \in {"stat", "stream"}
     \/ job[j].at = "walk" /\ job[j].stack # <<>> /\ Head(job[j].stack).dir
     \/ job[j].at = "next" /\ job[j].found # <<>>
     \/ job[j].at = "visit" /\ job[j].stack # <<>> /\ ~Head(job[j].stack).dir

(* One step of a job's goroutine.  Its sessions may have died under it. *)
JobStep(j) ==
  /\ job[j].st = "running" /\ ~Crashed
  /\ IF Stopped(j) THEN Finish(j, "cancelled")
     ELSE IF ~Alive(job[j].src) \/ ~Alive(job[j].dst) THEN Finish(j, "failed")
     ELSE CASE job[j].at = "stat"   -> RunCopy(j)
            [] job[j].at = "walk"   -> Walk(j)
            [] job[j].at = "next"   -> NextEntry(j)
            [] job[j].at = "check"  -> Check(j)
            [] job[j].at = "open"   -> OpenFiles(j)
            [] job[j].at = "stream" -> Stream(j)
            [] job[j].at = "mode"   -> FollowMode(j)
            [] job[j].at = "visit"  -> RemoveAll(j)
  /\ UNCHANGED <<accessVars, ask, busy, edits>>

(***************************************************************************)
(* Requests that change or stream files themselves.                        *)
(***************************************************************************)

(* A change of the tree of the session s. *)
Edit(r, s, t) ==
  /\ Free(r)
  /\ edits < MaxEdits
  /\ tree' = [tree EXCEPT ![owner[s]] = t]
  /\ Disturb(None)
  /\ edits' = edits + 1
  /\ UNCHANGED <<accessVars, job, ask>>

HandleMkdir(r, s, p) ==
  LET t == tree[owner[s]] IN
  CanMkdir(t, p) /\ Edit(r, s, Mkdir(t, p)) /\ UNCHANGED busy
HandleRename(r, s, p, q) ==
  LET t == tree[owner[s]] IN
  CanRename(t, p, q) /\ Edit(r, s, Rename(t, p, q)) /\ UNCHANGED busy
HandleChmod(r, s, p, m) ==
  LET t == tree[owner[s]] IN
  HasSize(t, p) /\ Edit(r, s, Chmod(t, p, m)) /\ UNCHANGED busy

(* handleDeletePath: a link or a file is removed at once; a directory       *)
(* becomes a job.                                                           *)
DeletePath(r, s, p) ==
  LET t == tree[owner[s]] IN
  /\ p # <<>> /\ Exists(t, p)
  /\ \/ ~IsDir(t, p) /\ Edit(r, s, Unlink(t, p)) /\ UNCHANGED busy
     \/ /\ IsDir(t, p) /\ Free(r)
        /\ StartDelete(r, s, p)
        /\ UNCHANGED <<accessVars, tree, job, quiet, busy, edits>>

(* handleUpload, to the io.Copy: at offset zero the file is truncated. *)
Upload(r, s, p, offset) ==
  /\ CanWrite(tree[owner[s]], p)
  /\ Edit(r, s, Writer(tree[owner[s]], p, offset))
  /\ busy' = [busy EXCEPT ![r] = [s |-> s, p |-> p, pos |-> offset + 1]]

(* The io.Copy of an upload writes a buffer. *)
UploadBuffer(r, b) ==
  /\ busy[r] # None /\ Alive(busy[r].s) /\ busy[r].pos > 0
  /\ HasSize(tree[owner[busy[r].s]], busy[r].p)
  /\ busy[r].pos <= MaxBuffers
  /\ tree' = [tree EXCEPT ![owner[busy[r].s]] = WriteAt(@, busy[r].p, busy[r].pos, b)]
  /\ Disturb(None)
  /\ busy' = [busy EXCEPT ![r].pos = @ + 1]
  /\ UNCHANGED <<accessVars, job, ask, edits>>

(* handleDownload, to the io.Copy. *)
Download(r, s, p) ==
  /\ Free(r) /\ HasSize(tree[owner[s]], p)
  /\ edits < MaxEdits
  /\ busy' = [busy EXCEPT ![r] = [s |-> s, p |-> p, pos |-> 0]]
  /\ edits' = edits + 1
  /\ UNCHANGED <<accessVars, tree, job, ask, quiet>>

(* The io.Copy of either ends: all was copied, the browser went, the body   *)
(* was too big, or the session was closed.                                  *)
StreamEnds(r) ==
  /\ busy[r] # None
  /\ busy' = [busy EXCEPT ![r] = None]
  /\ UNCHANGED <<accessVars, tree, job, ask, quiet, edits>>

Request(r) ==
  \/ StreamEnds(r) \/ UploadBuffer(r, "u")
  \/ \E j \in Jobs : StartJob(r, j)
  \/ \E s, d \in Findable, p \in Spellings, dir \in Dirs, over \in BOOLEAN :
       StartCopy(r, s, d, p, dir, over)
  \/ \E s \in Findable, p \in Targets :
       \/ HandleMkdir(r, s, p) \/ DeletePath(r, s, p) \/ Download(r, s, p)
       \/ Upload(r, s, p, 0) \/ Upload(r, s, p, 1)
       \/ \E q \in Places : HandleRename(r, s, p, q)
       \/ \E m \in Modes : HandleChmod(r, s, p, m)

Next ==
  /\ ~Crashed
  /\ \/ AccessNext /\ UNCHANGED workVars
     \/ \E r \in Requests : Request(r)
     \/ \E j \in Jobs : Cancel(j) \/ JobStep(j) \/ JobAges(j)
     \/ Shutdown

Spec == Init /\ [][Next]_vars

(* The scheduler runs the goroutine of every job; users need not act. *)
FairSpec == Spec /\ \A j \in Jobs : WF_vars(JobStep(j))

(***************************************************************************)
(* Properties.                                                             *)
(***************************************************************************)

TypeOK ==
  /\ owner \in [Sessions -> Conns \cup {None}]
  /\ life \in [Sessions -> {"none", "open", "leaving", "dead"}]
  /\ \A c \in Conns : <<>> \in DOMAIN tree[c]
  /\ \A j \in Jobs :
       /\ job[j].st \in {"none", "running", "done", "failed", "cancelled", "gone", "panicked"}
       /\ job[j].st = "running" => {job[j].src, job[j].dst} \subseteq Sessions
  /\ \A r \in Requests : ask[r] # NoJob => busy[r] = None

Copying(j)  == job[j].st = "running" /\ job[j].kind = "copy" /\ JobStep(j)
Beneath(t, p) == {q \in DOMAIN t : IsPrefix(p, q)}

(* A link in the way to where j writes, or beneath it, that leads back to    *)
(* what j reads.                                                            *)
LinkedBack(j) ==
  \E q \in DOMAIN Dst(j) :
    /\ IsLink(Dst(j), q)
    /\ IsPrefix(q, job[j].root) \/ IsPrefix(job[j].root, q)
    /\ IsPrefix(Dst(j)[q].to, job[j].from) \/ IsPrefix(job[j].from, Dst(j)[q].to)

(* Copies the check for copying into itself settles.  Three overlaps it lets *)
(* through: a directory copied over one of its own ancestors, where a       *)
(* nested name can land on what is still to be copied; the root of a host   *)
(* copied into one of its directories, as Within never holds beneath the    *)
(* root; and a copy through a link, as Within compares names.               *)
Apart(j) ==
  \/ owner[job[j].src] # owner[job[j].dst]
  \/ /\ ~IsStrictPrefix(job[j].root, job[j].from)
     /\ job[j].from # <<>>
     /\ ~LinkedBack(j)


(* Every file of j's source is where it belongs. *)
Whole(j) ==
  \A p \in Beneath(Src(j), job[j].from) :
    LET t == job[j].root \o SubSeq(p, Len(job[j].from) + 1, Len(p)) IN
    Src(j)[p].kind = "file" =>
      /\ HasSize(Dst(j), t)
      /\ Data(Dst(j), t) = Src(j)[p].data
      /\ job[j].stop \/ Node(Dst(j), t).mode = Src(j)[p].mode

(* A copy reported done, that nobody disturbed, is whole: every file of the *)
(* source, at any depth and by whatever order the walk took, is at the      *)
(* destination with its data, and its mode unless it was being cancelled.   *)
(* (A directory's path has to be spelled as List spells it, but for a slash *)
(* at its end: see WholeHoweverSpelled.)                                    *)
DoneIsWhole ==
  [][\A j \in Jobs : /\ job'[j].st = "done" /\ Copying(j) /\ Apart(j) /\ quiet[j]
                     /\ job[j].surplus > 1 => Kind(Src(j), job[j].from) # "dir"
       => Whole(j)]_vars

(* A recursive delete touches nothing outside what it was asked to delete:  *)
(* links are removed, never followed (client.go:337).  A link on the way to *)
(* the path itself the server follows, as it always does; the trees have    *)
(* none there.                                                              *)
DeleteStaysInside ==
  [][\A j \in Jobs : tree' # tree /\ job[j].kind = "delete" /\ JobStep(j)
       => \A p \in DOMAIN Src(j) : IsPrefix(job[j].from, p) \/ p \in DOMAIN tree'[owner[job[j].src]]]_vars

(* Every job ends, whether or not anyone cancels it, and whatever happens   *)
(* to the trees and the sessions meanwhile: none is running for ever (while *)
(* the server runs).                                                        *)
JobsEnd == \A j \in Jobs : []<>(job[j].st # "running" \/ Crashed)

(***************************************************************************)
(* What the code does not keep (README, Divergences).                        *)
(***************************************************************************)

(* A directory arrives whole however its path was spelled.                  *)
WholeHoweverSpelled ==
  [][\A j \in Jobs : job'[j].st = "done" /\ Copying(j) /\ Apart(j) /\ quiet[j]
       => Whole(j)]_vars

(* A job does not take the server with it. *)
NeverCrashed == ~Crashed
=============================================================================
