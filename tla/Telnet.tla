------------------------------- MODULE Telnet -------------------------------
(***************************************************************************)
(* A terminal whose shell is a telnet connection: the option negotiation   *)
(* and the parser of internal/proto/telnetx, the channel between its       *)
(* reader goroutine and Read, and the logon script that reads along and    *)
(* types (internal/terminal/logon.go), up to the pump of TerminalStream.   *)
(* The other shell is an SSH channel, which the pump reads as it comes.    *)
(*                                                                         *)
(* A byte is [b, at]: what it is and, for a byte of the device's output,   *)
(* its place in that output.  Of the output only prompts and the byte 255  *)
(* matter.  What an agreed option makes this end report (a window size, a  *)
(* terminal type) draws no answer and is left out.  The pump never waits   *)
(* for a browser, so on a telnet terminal nobody is attached here.         *)
(*                                                                         *)
(* The device is external.  It may refuse or accept, change its mind, and  *)
(* answer a second time what is agreed; it starts a change of an option    *)
(* only when its last one was answered.                                    *)
(***************************************************************************)
EXTENDS TerminalStream

CONSTANTS Options, Echo,
          WantLocal, WantRemote, SupportedLocal, SupportedRemote,
          Steps,      \* the prompts a logon script waits for, in order
          Printable,  \* what a byte of output may be
          Window,     \* logonWindow
          Capacity,   \* of Conn.data (64 chunks)
          ReadMax,    \* the pump's buffer
          MaxPrinted, MaxChanges, MaxKeys  \* bounds on the device and the user

ASSUME TelnetAssumption ==
  /\ {Echo} \cup SupportedLocal \cup SupportedRemote \subseteq Options
  /\ WantLocal \subseteq SupportedLocal /\ WantRemote \subseteq SupportedRemote
  /\ Capacity \in Nat \ {0} /\ ReadMax \in Nat \ {0} /\ Window \in Nat \ {0}

VARIABLES
  transport,          \* "ssh" or "telnet"
  conn,               \* the reader's state: options.us and him, remoteRefusedEcho, the
                      \* parser's place in a command, and the data of this socket read
  wire, toDevice,     \* bytes from the device, commands to it
  data, partial,      \* Conn.data, Conn.partial
  line,               \* "up"; "down": closed, or the device hung up; "gone": the reader has
                      \* ended and closed the channel; "crashed": the server's process
  writing, pumpAt,    \* what the pump has read while the script's Write goes on, and where
                      \* in it the pump is: "read", "write", "echo"
  script, next, window,  \* logonShell: "on" or done; steps fired; window
  user,               \* the goroutine that types: "idle", or "echo" in Conn.Write
  device,             \* external: what it does, lets us do, waits for; its budget
  printed, keys, pushed, answered
                      \* output printed, keys typed, output pushed, prompts answered

streamVars == vars
logonVars  == <<writing, pumpAt, script, next, window, answered>>
telnetVars == <<transport, conn, wire, toDevice, data, partial, line, logonVars, user, device,
                printed, keys, pushed>>
allVars == <<streamVars, telnetVars>>

Byte(b, at)   == [b |-> b, at |-> at]
Protocol(b)   == Byte(b, 0)
Command(c, o) == <<Protocol("IAC"), Protocol(c), Protocol(o)>>
Say(c, o)     == [c |-> c, o |-> o]
EchoByte      == Protocol("echo")

(* escape: a 255 in the data is doubled. *)
escape(x) == IF x.b = "IAC" THEN <<Protocol("IAC"), x>> ELSE <<x>>

(***************************************************************************)
(* negotiate.go: the option's new state, and what to say if anything.      *)
(* (Nothing ever asks for a disable, so stateWantNo is not reached.)       *)
(***************************************************************************)
Wanted(side)    == IF side = "us" THEN WantLocal ELSE WantRemote
Supported(side) == IF side = "us" THEN SupportedLocal ELSE SupportedRemote

Silent(st) == [st |-> st, say |-> "nothing"]

(* Slip: an agreement is confirmed again. *)
receiveWill_Reflex(st, o) ==
  IF o \in SupportedRemote THEN [st |-> "yes", say |-> "DO"] ELSE [st |-> "no", say |-> "DONT"]

receiveWill(st, o) ==
  IF st # "no" THEN Silent("yes")
  ELSE IF o \in Supported("him") THEN [st |-> "yes", say |-> "DO"]
  ELSE [st |-> "no", say |-> "DONT"]

receiveWont(st, o) == IF st = "yes" THEN [st |-> "no", say |-> "DONT"] ELSE Silent("no")

receiveDo(st, o) ==
  IF st # "no" THEN Silent("yes")
  ELSE IF o \in Supported("us") THEN [st |-> "yes", say |-> "WILL"]
  ELSE [st |-> "no", say |-> "WONT"]

receiveDont(st, o) == IF st = "yes" THEN [st |-> "no", say |-> "WONT"] ELSE Silent("no")

(* Conn.negotiate: c is the connection with the replies it has still to send. *)
negotiate(c, cmd, o) ==
  LET side == IF cmd \in {"WILL", "WONT"} THEN "him" ELSE "us"
      st == c[side][o]
      r == CASE cmd = "WILL" -> receiveWill(st, o) [] cmd = "WONT" -> receiveWont(st, o)
             [] cmd = "DO" -> receiveDo(st, o)     [] cmd = "DONT" -> receiveDont(st, o)
  IN [c EXCEPT ![side][o] = r.st,
               !.parser = "data",
               !.replies = IF r.say = "nothing" THEN @ ELSE Append(@, Say(r.say, o)),
               !.refused = IF o = Echo /\ side = "him" THEN cmd = "WONT" ELSE @]

offerLocal == {Say("WILL", o) : o \in Wanted("us")}
askRemote  == {Say("DO", o) : o \in Wanted("him")}

(* startNegotiation. *)
Offers == SetToSeq(offerLocal) \o SetToSeq(askRemote)

(* newOptions, once the offers are made. *)
newOptions == [side \in {"us", "him"} |-> [o \in Options |-> IF o \in Wanted(side) THEN "want" ELSE "no"]]

(***************************************************************************)
(* conn.go: the parser.                                                    *)
(***************************************************************************)

(* Conn.step: one byte. *)
step(c, x) ==
  CASE c.parser = "data" /\ x.b = "IAC"  -> [c EXCEPT !.parser = "iac"]
    [] c.parser = "data" /\ x.b # "IAC"  -> [c EXCEPT !.chunk = Append(@, x)]
    [] c.parser = "iac" /\ x.b = "IAC"   -> [c EXCEPT !.chunk = Append(@, x), !.parser = "data"]
    [] c.parser = "iac" /\ x.b # "IAC"   ->
         [c EXCEPT !.parser = IF x.b \in {"WILL", "WONT", "DO", "DONT", "SB"} THEN x.b ELSE "data"]
    [] c.parser \in {"WILL", "WONT", "DO", "DONT"} -> negotiate(c, c.parser, x.b)
    [] c.parser = "SB"    -> [c EXCEPT !.parser = IF x.b = "IAC" THEN "SB IAC" ELSE @]
    [] c.parser = "SB IAC" -> [c EXCEPT !.parser = IF x.b = "IAC" THEN "SB" ELSE "data"]

(* Slip: the parser starts afresh with every socket read. *)
consume_Afresh(bytes) == FoldLeft(step, [conn EXCEPT !.parser = "data"], bytes)

(* Conn.consume: a command may be cut anywhere, so the place in it is kept. *)
consume(bytes) == FoldLeft(step, conn, bytes)

TelnetInit ==
  /\ Init
  /\ transport \in {"ssh", "telnet"}
  /\ conn = [us |-> newOptions["us"], him |-> newOptions["him"],
             refused |-> FALSE, parser |-> "data", chunk |-> <<>>, replies |-> <<>>]
  /\ wire = <<>> /\ toDevice = Offers
  /\ data = <<>> /\ partial = <<>> /\ line = "up"
  /\ writing = <<>> /\ pumpAt = "read" /\ script = "on" /\ next = 0 /\ window = <<>> /\ answered = <<>>
  /\ user = "idle"
  /\ device \in [does : {{}}, lets : {{}}, waits : {{}}, changes : {0},
                 reflex : IF transport = "telnet" THEN BOOLEAN ELSE {FALSE}]
  /\ printed = 0 /\ keys = 0 /\ pushed = 0

(* The pump reads an SSH channel. *)
SSHRead ==
  /\ transport = "ssh"
  /\ \E n \in 1..MaxChunk : Pump(n)
  /\ UNCHANGED telnetVars

Browser ==
  /\ transport = "ssh"
  /\ Attach \/ SendReplay \/ Deliver \/ Detach
  /\ UNCHANGED telnetVars

Room  == Len(data) < Capacity
OnAir == transport = "telnet" /\ line = "up"

(* readLoop: one socket read of n bytes, answered as it is parsed. *)
SocketRead(n) ==
  /\ OnAir /\ conn.chunk = <<>>
  /\ LET c == consume(SubSeq(wire, 1, n)) IN
     /\ conn' = [c EXCEPT !.replies = <<>>]
     /\ toDevice' = toDevice \o c.replies
  /\ wire' = SubSeq(wire, n + 1, Len(wire))
  /\ UNCHANGED <<streamVars, transport, data, partial, line, logonVars, user, device, printed,
                 keys, pushed>>

(* emit: the reader waits for room, or until the connection goes away. *)
Emit ==
  /\ conn.chunk # <<>>
  /\ \/ Room /\ data' = Append(data, conn.chunk)
     \/ line = "down" /\ UNCHANGED data
  /\ conn' = [conn EXCEPT !.chunk = <<>>]
  /\ UNCHANGED <<streamVars, transport, wire, toDevice, partial, line, logonVars, user, device,
                 printed, keys, pushed>>

(* Close, or fail: what has not been read is lost. *)
Close ==
  /\ OnAir
  /\ line' = "down" /\ wire' = <<>> /\ toDevice' = <<>>
  /\ UNCHANGED <<streamVars, transport, conn, data, partial, logonVars, user, device, printed,
                 keys, pushed>>

(* The reader finds out, and closes the channel it emits into. *)
ReaderEnds ==
  /\ line = "down" /\ conn.chunk = <<>>
  /\ line' = "gone"
  /\ UNCHANGED <<streamVars, transport, conn, wire, toDevice, data, partial, logonVars, user,
                 device, printed, keys, pushed>>

(* Conn.Write's local echo, emitted once the line was seen to be up.  By then *)
(* the channel may be closed, and then it is either of emit's cases: what is  *)
(* typed is dropped, or the send panics.                                      *)
Echoes ==
  \/ /\ line \in {"up", "down"} /\ Room
     /\ data' = Append(data, <<EchoByte>>) /\ UNCHANGED line
  \/ /\ line \in {"down", "gone"}
     /\ UNCHANGED <<data, line>>
  \/ /\ line = "gone"
     /\ line' = "crashed" /\ UNCHANGED data

(***************************************************************************)
(* The pump: Conn.Read, the script's observe, then the push.               *)
(***************************************************************************)
Source == IF partial # <<>> THEN partial ELSE IF data # <<>> THEN Head(data) ELSE <<>>
Got == SubSeq(Source, 1, IF Len(Source) < ReadMax THEN Len(Source) ELSE ReadMax)

(* Conn.Read: the rest of a chunk, or the next one. *)
Read ==
  /\ pumpAt = "read" /\ Source # <<>> /\ line # "crashed"
  /\ partial' = SubSeq(Source, ReadMax + 1, Len(Source))
  /\ data' = IF partial # <<>> THEN data ELSE Tail(data)

(* What was read goes to the replay. *)
Pushes(got) ==
  /\ Pump(Len(got))
  /\ pushed' = pushed + Len(SelectSeq(got, LAMBDA x : x.at > 0))

Seen == LET w == window \o Got IN
  IF Len(w) > Window THEN SubSeq(w, Len(w) - Window + 1, Len(w)) ELSE w

(* LogonStep.Matches. *)
Matches(w) == script = "on" /\ \E i \in 1..Len(w) : w[i].b = Steps[next + 1]

(* Slip: the window is kept when a step fires. *)
Cleared_Not(w) == w

(* The prompt that satisfied one step cannot satisfy the next. *)
Cleared(w) == <<>>

(* observe, when no step fires. *)
Watch ==
  /\ Read /\ ~Matches(Seen)
  /\ window' = IF script = "on" THEN Seen ELSE window
  /\ Pushes(Got)
  /\ UNCHANGED <<transport, conn, wire, toDevice, line, writing, pumpAt, script, next, answered, user,
                 device, printed, keys>>

(* observe, when one does: no more than one, as the window is empty then. *)
Fire ==
  /\ Read /\ Matches(Seen)
  /\ next' = next + 1 /\ window' = Cleared(Seen)
  /\ script' = IF next + 1 = Len(Steps) THEN "off" ELSE "on"
  /\ answered' = Append(answered, [to |-> Seen, keys |-> keys])
  /\ writing' = Got /\ pumpAt' = "write"
  /\ UNCHANGED <<streamVars, transport, conn, wire, toDevice, line, user, device, printed,
                 keys, pushed>>

(* The deadline has passed, which observe notices. *)
OutOfTime ==
  /\ OnAir /\ script = "on" /\ pumpAt = "read"
  /\ script' = "off"
  /\ UNCHANGED <<streamVars, transport, conn, wire, toDevice, data, partial, line, writing,
                 pumpAt, next, window, answered, user, device, printed, keys, pushed>>

(* observe's Write, after the lock: to the device and, where it refused to    *)
(* echo, to the screen first.                                                 *)
ScriptWrites ==
  /\ pumpAt = "write" /\ line # "crashed"
  /\ IF line = "up" /\ conn.refused
       THEN pumpAt' = "echo" /\ UNCHANGED <<streamVars, script, writing, pushed>>
       ELSE /\ script' = IF line = "up" THEN script ELSE "off"
            /\ Pushes(writing) /\ writing' = <<>> /\ pumpAt' = "read"
  /\ UNCHANGED <<transport, conn, wire, toDevice, data, partial, line, next, window, answered, user,
                 device, printed, keys>>

(* It is the pump that waits for room here. *)
ScriptEchoes ==
  /\ pumpAt = "echo" /\ Echoes
  /\ script' = IF line = "up" THEN script ELSE "off"
  /\ Pushes(writing) /\ writing' = <<>> /\ pumpAt' = "read"
  /\ UNCHANGED <<transport, conn, wire, toDevice, partial, next, window, answered, user, device,
                 printed, keys>>

(***************************************************************************)
(* The user, and the device.                                               *)
(***************************************************************************)

(* logonShell.Write: somebody typing has taken over. *)
TakesOver == "off"

Type ==
  /\ OnAir /\ user = "idle" /\ keys < MaxKeys
  /\ keys' = keys + 1 /\ script' = TakesOver
  /\ user' = IF conn.refused THEN "echo" ELSE "idle"
  /\ UNCHANGED <<streamVars, transport, conn, wire, toDevice, data, partial, line, writing,
                 pumpAt, next, window, answered, device, printed, pushed>>

TypeEchoes ==
  /\ user = "echo" /\ Echoes
  /\ user' = "idle"
  /\ UNCHANGED <<streamVars, transport, conn, wire, toDevice, partial, logonVars, device, printed,
                 keys, pushed>>

DeviceAlone ==
  UNCHANGED <<streamVars, transport, conn, data, partial, line, logonVars, user, keys, pushed>>

Prints(b) ==
  /\ OnAir /\ printed < MaxPrinted
  /\ printed' = printed + 1
  /\ wire' = wire \o escape(Byte(b, printed + 1))
  /\ UNCHANGED <<device, toDevice>> /\ DeviceAlone

Says(side, yes) == IF side = "does" THEN (IF yes THEN "WILL" ELSE "WONT")
                                    ELSE (IF yes THEN "DO" ELSE "DONT")
With(side, o, on) == [device EXCEPT ![side] = IF on THEN @ \cup {o} ELSE @ \ {o}]

(* It starts a change. *)
Changes(side, o) ==
  LET on == o \notin device[side] IN
  /\ OnAir /\ device.changes < MaxChanges
  /\ <<side, o>> \notin device.waits
  /\ device' = [With(side, o, on) EXCEPT !.waits = @ \cup {<<side, o>>}, !.changes = @ + 1]
  /\ wire' = wire \o Command(Says(side, on), o)
  /\ UNCHANGED <<toDevice, printed>> /\ DeviceAlone

(* It asks for the terminal's type. *)
Asks ==
  /\ OnAir /\ device.changes < MaxChanges
  /\ device' = [device EXCEPT !.changes = @ + 1]
  /\ wire' = wire \o <<Protocol("IAC"), Protocol("SB"), Protocol("SEND"), Protocol("IAC"), Protocol("SE")>>
  /\ UNCHANGED <<toDevice, printed>> /\ DeviceAlone

(* It reads a command: the answer to its own, or one to act on and answer. *)
DeviceReads ==
  LET m == Head(toDevice)
      side == IF m.c \in {"DO", "DONT"} THEN "does" ELSE "lets"
      yes == m.c \in {"DO", "WILL"}
      Answers(on) == wire' = wire \o Command(Says(side, on), m.o)
  IN
  /\ OnAir /\ toDevice # <<>>
  /\ toDevice' = Tail(toDevice)
  /\ IF <<side, m.o>> \in device.waits
       THEN /\ device' = [With(side, m.o, yes) EXCEPT !.waits = @ \ {<<side, m.o>>}]
            /\ UNCHANGED wire
     ELSE IF yes = (m.o \in device[side])
       THEN /\ IF device.reflex THEN Answers(yes) ELSE UNCHANGED wire
            /\ UNCHANGED device
     ELSE \E on \in (IF yes THEN BOOLEAN ELSE {FALSE}) :
            device' = With(side, m.o, on) /\ Answers(on)
  /\ UNCHANGED printed /\ DeviceAlone

(* A socket read is of one byte or of all there is: every cut there can be. *)
readLoop == (wire # <<>> /\ \E n \in {1, Len(wire)} : SocketRead(n)) \/ Emit \/ ReaderEnds
pump     == Watch \/ Fire \/ ScriptWrites \/ ScriptEchoes

TelnetNext ==
  \/ SSHRead \/ Browser
  \/ readLoop \/ Close
  \/ pump \/ OutOfTime
  \/ Type \/ TypeEchoes
  \/ \E b \in Printable : Prints(b)
  \/ \E side \in {"does", "lets"}, o \in Options : Changes(side, o)
  \/ Asks \/ DeviceReads

(* The goroutines run, and the device reads what it is sent. *)
TelnetSpec ==
  /\ TelnetInit /\ [][TelnetNext]_allVars
  /\ WF_allVars(readLoop) /\ WF_allVars(pump) /\ WF_allVars(DeviceReads)

(***************************************************************************)
(* Properties.                                                             *)
(***************************************************************************)

(* The device's bytes between its socket and the replay. *)
Flow == SelectSeq(writing \o partial \o FlattenSeq(data) \o conn.chunk, LAMBDA x : x # EchoByte)

(* What the pump is handed is the device's output: every byte, once and in    *)
(* order, however the socket cut it, and no byte of the protocol (step,       *)
(* consume, emit, Read).                                                      *)
OutputOnly ==
  LET flow == Flow IN
  /\ \A i \in 1..Len(flow) : flow[i].at = pushed + i
  /\ line = "up" => pushed + Len(flow) + Len(SelectSeq(wire, LAMBDA x : x.at > 0)) = printed

(* emit "hands data to Read, or drops it if the connection is going away".    *)
(* Refuted: a Write that saw the line up may come to emit when the reader has *)
(* closed the channel, and a send on it panics the server.                    *)
EmitDrops == line # "crashed"

(* What a person reads, now or on coming back, is what the shell printed: the *)
(* replay is the latest of it, a browser is sent it in order and without a    *)
(* gap unless it did not keep up, and a telnet line adds nothing of its own   *)
(* and loses nothing (ringBuffer, Attach, pump; telnetx.Conn).                *)
OutputFaithful == ReplayIsTail /\ ReadsFaithfully /\ OutputOnly

(* The script types each secret in answer to the prompt it is for, one that   *)
(* was printed after all it had seen when it answered the prompt before, and  *)
(* to nothing seen after somebody typed (observe, logonShell.Write).          *)
ScriptYields ==
  \A i \in 1..Len(answered) :
    /\ answered[i].keys = 0
    /\ \E x \in Range(answered[i].to) :
         x.b = Steps[i] /\ (i > 1 => \A y \in Range(answered[i - 1].to) : x.at > y.at)

(* The pump waits for room in the channel that only it empties. *)
PumpStuck == pumpAt = "echo" /\ ~Room

Agreed ==
  /\ toDevice = <<>> /\ wire = <<>> /\ conn.parser = "data"
  /\ \A o \in Options : /\ conn.him[o] = IF o \in device.does THEN "yes" ELSE "no"
                        /\ conn.us[o]  = IF o \in device.lets THEN "yes" ELSE "no"

(* Negotiation ends, with both ends of one mind about every option, even with *)
(* a device that answers agreements: nobody confirms for ever.  Except on a   *)
(* line closed, or one whose pump the script's own echo blocks (receiveWill,  *)
(* receiveDo and their like).                                                 *)
NegotiationEnds == <>[](transport = "telnet" => line # "up" \/ PumpStuck \/ Agreed)
=============================================================================
