------------------------------- MODULE Broadcast -------------------------------
(***************************************************************************)
(* Typing into several terminals at once: the reading half of one bridge   *)
(* (internal/terminal/bridge.go readFromBrowser, setBroadcast,             *)
(* mirrorInput), broadcaster.Targets (internal/api/terminal_handlers.go)   *)
(* and the browser at the other end of the socket, which shows a group     *)
(* only when it is acknowledged (web/src/terminal/TerminalPane.tsx).       *)
(*                                                                         *)
(* One goroutine reads the socket.  A keystroke is written to the terminal *)
(* the browser is attached to and then to the other members of the group,  *)
(* one Write after another, while terminals end and are removed around it. *)
(* Keystrokes are numbered as they are read.  A list of terminals is a bag *)
(* (how often each is named): its order does not matter, and the server    *)
(* does not refuse a terminal named twice.                                 *)
(***************************************************************************)
EXTENDS Integers, Sequences

CONSTANTS Terms,    \* terminals, of this user and of others
          Mine,     \* the ones of this user
          Primary,  \* the one this browser is attached to
          Choices,  \* the lists a browser may ask for
          MaxSent   \* bound on the messages a browser sends

Lists == [Terms -> Nat]

ASSUME BroadcastAssumption ==
  /\ Mine \subseteq Terms
  /\ Primary \in Mine
  /\ Choices \subseteq Lists
  /\ MaxSent \in Nat

VARIABLES
  terminal, \* a terminal: "open", "ended" (t.closed, still registered), "removed"
  got,      \* the keystrokes each shell has received
  reader,   \* "reading", "mirroring" or "stopped" (readFromBrowser returned)
  typed,    \* number of the last keystroke
  mirror,   \* b.mirror
  todo,     \* members mirrorInput has still to write to
  since,    \* the keystroke after which a member joined
  meant,    \* whom the keystroke being mirrored was meant for at most
  inbox,    \* what the browser sent and the bridge has not read
  outbox,   \* acknowledged groups on their way to the browser
  shown,    \* the group the browser shows
  sent      \* number of messages the browser has sent

shells == <<terminal, got>>
bridge == <<reader, typed, mirror, todo, since, meant>>
browser == <<inbox, outbox, shown, sent>>
broadcastVars == <<shells, bridge, browser>>

In(list) == {t \in Terms : list[t] > 0}
Nobody == [t \in Terms |-> 0]

(* A keystroke carries whom it was meant for at most; an ask, its list. *)
Keystroke(reach) == [kind |-> "key", reach |-> reach]
Ask(ids) == [kind |-> "ask", ids |-> ids]
Messages == [kind : {"key"}, reach : SUBSET Terms] \cup [kind : {"ask"}, ids : Lists]

BroadcastInit ==
  /\ terminal = [t \in Terms |-> "open"]
  /\ got      = [t \in Terms |-> <<>>]
  /\ reader   = "reading"
  /\ typed    = 0
  /\ mirror   = Nobody
  /\ todo     = Nobody
  /\ since    = [t \in Terms |-> 0]
  /\ meant    = {}
  /\ inbox    = <<>>
  /\ outbox   = <<>>
  /\ shown    = {}
  /\ sent     = 0

-----------------------------------------------------------------------------
(* The browser. *)

(* It is written directly, or every keystroke would arrive twice. *)
Group(ids) == [ids EXCEPT ![Primary] = 0]

(* What the person can take the keyboard to reach, besides the terminal     *)
(* they look at: the group shown, and what they asked for and have not seen *)
(* answered.                                                                *)
Reach ==
  shown \cup {t \in Terms : \/ \E i \in 1..Len(outbox) : t \in outbox[i]
                            \/ \E i \in 1..Len(inbox) :
                                 inbox[i].kind = "ask" /\ t \in In(Group(inbox[i].ids))}

Send(message) ==
  /\ reader # "stopped"
  /\ sent < MaxSent
  /\ sent' = sent + 1
  /\ inbox' = Append(inbox, message)
  /\ UNCHANGED <<shells, bridge, outbox, shown>>

Press == Send(Keystroke(Reach))
AskFor(ids) == Send(Ask(ids))

(* onBroadcast.  No other message changes the group that is shown: neither  *)
(* a refusal nor the warning that a member has left it.                     *)
Shows ==
  /\ outbox # <<>>
  /\ shown' = Head(outbox)
  /\ outbox' = Tail(outbox)
  /\ UNCHANGED <<shells, bridge, inbox, sent>>

-----------------------------------------------------------------------------
(* The bridge. *)

Reads(kind) ==
  /\ reader = "reading"
  /\ inbox # <<>>
  /\ Head(inbox).kind = kind
  /\ inbox' = Tail(inbox)

(* Targets: every one is registered and this user's.  The terminals are    *)
(* looked up one by one; as none comes back, the last lookup decides.      *)
Resolves(ids) == \A t \in In(ids) : terminal[t] # "removed" /\ t \in Mine

(* A terminal named more than once is mirrored to as often. *)
Joins(group) ==
  /\ mirror' = group
  /\ since' = [t \in Terms |-> IF mirror[t] = 1 THEN since[t] ELSE typed]

(* Slip: as many are joined as resolve, and the browser is told it failed. *)
SetBroadcast_Partly ==
  /\ Reads("ask")
  /\ LET ids == Head(inbox).ids
         found == {t \in Mine : terminal[t] # "removed"}
     IN /\ Joins(Group([t \in Terms |-> IF t \in found THEN ids[t] ELSE 0]))
        /\ outbox' = IF Resolves(ids) THEN Append(outbox, In(Group(ids))) ELSE outbox
  /\ UNCHANGED <<shells, reader, typed, todo, meant, shown, sent>>

(* setBroadcast.  No ids clear the group; a refused group changes nothing. *)
SetBroadcast ==
  /\ Reads("ask")
  /\ LET ids == Head(inbox).ids
     IN \/ /\ Resolves(ids)
           /\ Joins(Group(ids))
           /\ outbox' = Append(outbox, In(Group(ids)))
        \/ /\ ~Resolves(ids)
           /\ UNCHANGED <<mirror, since, outbox>>
  /\ UNCHANGED <<shells, reader, typed, todo, meant, shown, sent>>

Receives(t) == got' = [got EXCEPT ![t] = Append(@, typed')]

(* A keystroke: this terminal first, and then mirrorInput. *)
Type ==
  /\ Reads("key")
  /\ terminal[Primary] = "open"
  /\ typed' = typed + 1
  /\ Receives(Primary)
  /\ todo' = mirror
  /\ meant' = Head(inbox).reach
  /\ reader' = "mirroring"
  /\ UNCHANGED <<terminal, mirror, since, outbox, shown, sent>>

(* term.Write failed: readFromBrowser returns, nothing is mirrored. *)
OwnWriteFails ==
  /\ Reads("key")
  /\ reader' = "stopped"
  /\ UNCHANGED <<shells, typed, mirror, todo, since, meant, outbox, shown, sent>>

MirrorWrite(t) ==
  /\ reader = "mirroring"
  /\ todo[t] > 0
  /\ terminal[t] = "open"
  /\ todo' = [todo EXCEPT ![t] = @ - 1]
  /\ got' = [got EXCEPT ![t] = Append(@, typed)]
  /\ UNCHANGED <<terminal, reader, typed, mirror, since, meant, browser>>

(* Slip: it stays in the group. *)
MirrorFails_Stays(t) ==
  /\ reader = "mirroring"
  /\ todo[t] > 0
  /\ todo' = [todo EXCEPT ![t] = @ - 1]
  /\ UNCHANGED <<shells, reader, typed, mirror, since, meant, browser>>

(* It has ended, or its shell refused: it leaves the group.  The browser is *)
(* sent a sentence about it, which changes nothing there.  Once it is named *)
(* only once again, its keystrokes count from here.                         *)
MirrorFails(t) ==
  /\ reader = "mirroring"
  /\ todo[t] > 0
  /\ todo' = [todo EXCEPT ![t] = @ - 1]
  /\ mirror' = [mirror EXCEPT ![t] = @ - 1]
  /\ since' = [since EXCEPT ![t] = IF todo[t] > 1 THEN typed - 1 ELSE typed]
  /\ UNCHANGED <<shells, reader, typed, meant, browser>>

Mirrored ==
  /\ reader = "mirroring"
  /\ todo = Nobody
  /\ reader' = "reading"
  /\ UNCHANGED <<shells, typed, mirror, todo, since, meant, browser>>

(* The socket broke or the terminal ended: the group ends with the bridge. *)
Stop ==
  /\ reader = "reading"
  /\ reader' = "stopped"
  /\ UNCHANGED <<shells, typed, mirror, todo, since, meant, browser>>

(* Meanwhile a terminal ends, or is removed by its owner or the reaper. *)
ShellEnds(t) ==
  /\ terminal[t] = "open"
  /\ \E s \in {"ended", "removed"} : terminal' = [terminal EXCEPT ![t] = s]
  /\ UNCHANGED <<got, bridge, browser>>

Removed(t) ==
  /\ terminal[t] = "ended"
  /\ terminal' = [terminal EXCEPT ![t] = "removed"]
  /\ UNCHANGED <<got, bridge, browser>>

BroadcastNext ==
  \/ Press \/ Shows \/ SetBroadcast
  \/ \E ids \in Choices : AskFor(ids)
  \/ Type \/ OwnWriteFails \/ Mirrored \/ Stop
  \/ \E t \in Terms : \/ MirrorWrite(t) \/ MirrorFails(t)
                      \/ ShellEnds(t) \/ Removed(t)

BroadcastSpec == BroadcastInit /\ [][BroadcastNext]_broadcastVars

-----------------------------------------------------------------------------
(* Properties. *)

(* The types of the variables. *)
BroadcastTypeOK ==
  /\ terminal \in [Terms -> {"open", "ended", "removed"}]
  /\ got \in [Terms -> Seq(Nat)]
  /\ reader \in {"reading", "mirroring", "stopped"}
  /\ typed \in Nat
  /\ mirror \in Lists
  /\ todo \in Lists
  /\ since \in [Terms -> Nat]
  /\ meant \subseteq Terms
  /\ inbox \in Seq(Messages)
  /\ outbox \in Seq(SUBSET Terms)
  /\ shown \subseteq Terms
  /\ sent \in Nat

(* A broadcast never becomes a way to type into somebody else's terminal.   *)
OnlyMine == \A t \in Terms : got[t] # <<>> => t \in Mine

(* The terminal the person looks at is never behind one they do not: it has *)
(* every keystroke before anybody else has it, and once.                    *)
NeverBehind == got[Primary] = [i \in 1..typed |-> i]

(* The last d keystrokes of g are the ones after s. *)
EndsWith(g, s, d) ==
  Len(g) >= d /\ \A i \in 1..d : g[Len(g) - d + i] = s + i

(* The last keystroke a member has to have by now. *)
Due(t) == IF todo[t] > 0 THEN typed - 1 ELSE typed

(* Every member named once has every keystroke since it joined, once and in *)
(* order, or is the next to be written to: a failing member, and a group    *)
(* changed between two keystrokes, cost the others nothing.                 *)
InStep ==
  \A t \in Terms : mirror[t] = 1 => EndsWith(got[t], since[t], Due(t) - since[t])

(* Nobody is typed into that the person did not mean: a member was in the   *)
(* group shown when the key was pressed, or they had asked for it.          *)
OnlyMeant == reader = "mirroring" => In(todo) \subseteq meant

(* Every terminal typed into, the one looked at first, has every keystroke    *)
(* that was meant for it, once and in order (readFromBrowser, mirrorInput).   *)
KeysInStep == NeverBehind /\ InStep

(* A keystroke reaches the person's own terminals only, and none but those    *)
(* their browser showed as joined, or had asked to join, when it was pressed: *)
(* however asks, answers, refusals and keystrokes cross on the socket, no     *)
(* group is larger than its owner believes (setBroadcast, mirrorInput,        *)
(* TerminalPane's onBroadcast).                                               *)
GroupHonest == OnlyMine /\ OnlyMeant

(***************************************************************************)
(* What comments say, and the code does not keep (README, Divergences).      *)
(***************************************************************************)

(* bridge.go: a group naming a terminal that has gone is refused entirely. *)
JoinedAreOpen ==
  [][\A t \in In(mirror') \ In(mirror) : terminal[t] = "open"]_broadcastVars

(* bridge.go, TerminalPane.tsx: the group typed into is not smaller than the *)
(* one shown either.  A member that failed has left the group and is shown.  *)
NoneMissing ==
  reader = "reading" /\ inbox = <<>> /\ outbox = <<>> => shown \subseteq In(mirror)

=============================================================================
