------------------------------ MODULE Recording ------------------------------
(***************************************************************************)
(* Session transcripts: internal/terminal/transcript.go (NewTranscript,    *)
(* Transcript, TranscriptHolder, recordingShell), the recording verbs of   *)
(* Terminal (session.go StartRecording, StopRecording, close) and of       *)
(* Connector (connect.go recordingFor, StartRecording).                    *)
(*                                                                         *)
(* Every session has a holder, an atomic pointer to the transcript being   *)
(* written.  The pump loads the pointer and then writes; the user starts   *)
(* and stops recording; closing the terminal closes the transcript.  The   *)
(* steps of different goroutines interleave.                               *)
(*                                                                         *)
(* All sessions here are of one user and one connection label, which is    *)
(* what makes their file names collide.                                    *)
(***************************************************************************)
EXTENDS Integers, FiniteSets

CONSTANTS Sessions,  \* terminals of one user to one saved connection
          Logs,      \* transcript objects (and the files behind them)
          Nil,
          MaxBytes,  \* MaxTranscriptBytes, in reads
          Seconds    \* bound on the clock that file names are made from

ASSUME RecordingAssumption ==
  /\ Nil \notin Sessions \cup Logs
  /\ MaxBytes \in Nat \ {0}
  /\ Seconds \in Nat

Suffixes == {"plain", "pid"}  \* name.log, and name-<pid>.log on a collision
Names == (0..Seconds) \X Suffixes
Unnamed == <<0, "none">>      \* of a file that has not been made
FileNames == Names \cup {Unnamed}

VARIABLES
  now,     \* the second the clock shows
  life,    \* a session: "none", "open", "closed" (t.closed), "done"
  forced,  \* policy.RecordAllSessions, and so Terminal.RecordForced
  holder,  \* TranscriptHolder.p
  loaded,  \* the transcript the pump has loaded for the bytes it read
  asking,  \* the transcript a StartRecording request has opened
  name,    \* the name of a transcript's file
  file,    \* "none", "open", "full", "failed" or "closed"
  note,    \* its last line: "none", "truncated" or "ended" (session ended)
  written, \* Transcript.written
  of,      \* the session a transcript is of
  refused  \* sessions told that their transcript could not be opened

sessionVars == <<life, holder, loaded, asking>>
logVars     == <<name, file, note, written, of>>
recordingVars == <<now, life, forced, holder, loaded, asking, name, file, note,
                   written, of, refused>>

RecordingInit ==
  /\ now     = 0
  /\ life    = [s \in Sessions |-> "none"]
  /\ forced  \in BOOLEAN
  /\ holder  = [s \in Sessions |-> Nil]
  /\ loaded  = [s \in Sessions |-> Nil]
  /\ asking  = [s \in Sessions |-> Nil]
  /\ name    = [l \in Logs |-> Unnamed]
  /\ file    = [l \in Logs |-> "none"]
  /\ note    = [l \in Logs |-> "none"]
  /\ written = [l \in Logs |-> 0]
  /\ of      = [l \in Logs |-> Nil]
  /\ refused = {}

-----------------------------------------------------------------------------
(* NewTranscript. *)
Taken == {name[l] : l \in {k \in Logs : file[k] # "none"}}

(* O_EXCL, then once more with the process id as a suffix. *)
FreeName(n) ==
  /\ n \in {<<now, x>> : x \in Suffixes}
  /\ n \notin Taken
  /\ n[2] = "pid" => <<now, "plain">> \in Taken

NoName == \A x \in Suffixes : <<now, x>> \in Taken

(* The file is created and its header written, which may fail. *)
NewTranscript(l, s) ==
  /\ file[l] = "none"
  /\ \E n \in {<<now, x>> : x \in Suffixes} :
       FreeName(n) /\ name' = [name EXCEPT ![l] = n]
  /\ \E f \in {"open", "failed"} : file' = [file EXCEPT ![l] = f]
  /\ of'   = [of EXCEPT ![l] = s]
  /\ UNCHANGED <<note, written>>

(* recordingFor: nobody wants a transcript of this session. *)
OpenPlain(s) ==
  /\ life[s] = "none"
  /\ ~forced
  /\ life' = [life EXCEPT ![s] = "open"]
  /\ UNCHANGED <<now, forced, holder, loaded, asking, logVars, refused>>

(* recordingFor: the policy or the connection wants one. *)
OpenRecorded(s, l) ==
  /\ life[s] = "none"
  /\ NewTranscript(l, s)
  /\ life'   = [life EXCEPT ![s] = "open"]
  /\ holder' = [holder EXCEPT ![s] = l]
  /\ UNCHANGED <<now, forced, loaded, asking, refused>>

(* The transcript could not be opened: Connect gives the shell up, or the  *)
(* request to start recording fails.                                       *)
Refused(s) ==
  /\ life[s] \in {"none", "open", "closed"}
  /\ NoName
  /\ refused' = refused \cup {s}
  /\ UNCHANGED <<now, forced, sessionVars, logVars>>

-----------------------------------------------------------------------------
(* recordingShell.Read: load the pointer, then write through it. *)
Load(s) ==
  /\ life[s] \in {"open", "closed"}
  /\ loaded[s] = Nil
  /\ holder[s] # Nil
  /\ loaded' = [loaded EXCEPT ![s] = holder[s]]
  /\ UNCHANGED <<now, life, forced, holder, asking, logVars, refused>>

(* Transcript.write of one read's worth. *)
AppendTo(l) ==
  IF file[l] = "open"
    THEN /\ written' = [written EXCEPT ![l] = @ + 1]
         /\ file' = [file EXCEPT ![l] = IF written[l] + 1 >= MaxBytes
                                          THEN "full" ELSE @]
         /\ note' = [note EXCEPT ![l] = IF written[l] + 1 >= MaxBytes
                                          THEN "truncated" ELSE @]
    ELSE UNCHANGED <<written, file, note>>

Tee(s) ==
  /\ loaded[s] # Nil
  /\ AppendTo(loaded[s])
  /\ loaded' = [loaded EXCEPT ![s] = Nil]
  /\ UNCHANGED <<now, life, forced, holder, asking, name, of, refused>>

(* The write failed: the transcript gives up and the session goes on. *)
TeeFails(s) ==
  /\ loaded[s] # Nil
  /\ file[loaded[s]] = "open"
  /\ file' = [file EXCEPT ![loaded[s]] = "failed"]
  /\ loaded' = [loaded EXCEPT ![s] = Nil]
  /\ UNCHANGED <<now, life, forced, holder, asking, name, note, written, of,
                 refused>>

(* Transcript.Close. *)
Finish(l) ==
  IF l # Nil /\ file[l] = "open"
    THEN /\ file' = [file EXCEPT ![l] = "closed"]
         /\ note' = [note EXCEPT ![l] = "ended"]
    ELSE UNCHANGED <<file, note>>

-----------------------------------------------------------------------------
(* Connector.StartRecording: open a file, then ask the terminal to use it. *)
AskRecording(s, l) ==
  /\ life[s] \in {"open", "closed"}
  /\ asking[s] = Nil
  /\ NewTranscript(l, s)
  /\ asking' = [asking EXCEPT ![s] = l]
  /\ UNCHANGED <<now, life, forced, holder, loaded, refused>>

(* Slip: a session that has ended is given the transcript all the same. *)
MayStart_Ended(s) == holder[s] = Nil

MayStart(s) == life[s] = "open" /\ holder[s] = Nil

StartRecording(s) ==
  /\ asking[s] # Nil
  /\ MayStart(s)
  /\ holder' = [holder EXCEPT ![s] = asking[s]]
  /\ asking' = [asking EXCEPT ![s] = Nil]
  /\ UNCHANGED <<now, life, forced, loaded, logVars, refused>>

(* The session has ended or is being recorded: close the new file again. *)
StartRefused(s) ==
  /\ asking[s] # Nil
  /\ ~MayStart(s)
  /\ Finish(asking[s])
  /\ asking' = [asking EXCEPT ![s] = Nil]
  /\ UNCHANGED <<now, life, forced, holder, loaded, name, written, of,
                 refused>>

(* Slip: the operator's recording can be stopped. *)
StopRecording_Forced(s) ==
  /\ life[s] # "none"
  /\ holder[s] # Nil
  /\ holder' = [holder EXCEPT ![s] = Nil]
  /\ Finish(holder[s])
  /\ UNCHANGED <<now, life, forced, loaded, asking, name, written, of,
                 refused>>

(* StopRecording: refused when the policy requires the recording. *)
StopRecording(s) ==
  /\ life[s] # "none"
  /\ ~forced
  /\ holder[s] # Nil
  /\ holder' = [holder EXCEPT ![s] = Nil]
  /\ Finish(holder[s])
  /\ UNCHANGED <<now, life, forced, loaded, asking, name, written, of,
                 refused>>

-----------------------------------------------------------------------------
(* Terminal.close: mark it closed, then recordingShell.Close. *)
CloseBegin(s) ==
  /\ life[s] = "open"
  /\ life' = [life EXCEPT ![s] = "closed"]
  /\ UNCHANGED <<now, forced, holder, loaded, asking, logVars, refused>>

ShellClose(s) ==
  /\ life[s] = "closed"
  /\ Finish(holder[s])
  /\ life' = [life EXCEPT ![s] = "done"]
  /\ UNCHANGED <<now, forced, holder, loaded, asking, name, written, of,
                 refused>>

Tick ==
  /\ now < Seconds
  /\ now' = now + 1
  /\ UNCHANGED <<forced, sessionVars, logVars, refused>>

SessionStep(s) ==
  \/ OpenPlain(s)
  \/ \E l \in Logs : OpenRecorded(s, l)
  \/ Refused(s)
  \/ Load(s) \/ Tee(s) \/ TeeFails(s)
  \/ \E l \in Logs : AskRecording(s, l)
  \/ StartRecording(s) \/ StartRefused(s) \/ StopRecording(s)
  \/ CloseBegin(s) \/ ShellClose(s)

RecordingNext == (\E s \in Sessions : SessionStep(s)) \/ Tick

RecordingSpec == RecordingInit /\ [][RecordingNext]_recordingVars

-----------------------------------------------------------------------------
(* Properties. *)

(* The types of the variables, and the cap: a transcript never grows past   *)
(* MaxTranscriptBytes, and one that reached it says that it was truncated.  *)
RecordingTypeOK ==
  /\ now \in 0..Seconds
  /\ life \in [Sessions -> {"none", "open", "closed", "done"}]
  /\ forced \in BOOLEAN
  /\ holder \in [Sessions -> Logs \cup {Nil}]
  /\ loaded \in [Sessions -> Logs \cup {Nil}]
  /\ asking \in [Sessions -> Logs \cup {Nil}]
  /\ name \in [Logs -> FileNames]
  /\ file \in [Logs -> {"none", "open", "full", "failed", "closed"}]
  /\ note \in [Logs -> {"none", "truncated", "ended"}]
  /\ written \in [Logs -> 0..MaxBytes]
  /\ of \in [Logs -> Sessions \cup {Nil}]
  /\ refused \subseteq Sessions

(* No transcript is left open behind a session that is over, whatever the   *)
(* order in which it was closed and recording was started and stopped.      *)
FilesClosed ==
  \A l \in Logs : file[l] = "open" /\ life[of[l]] = "done" => asking[of[l]] = l

(* Recording required by policy cannot be escaped: until the shell closes   *)
(* its transcript is in the holder, and it ends early only by reaching the  *)
(* cap or by a failed write.                                                *)
ForcedIsKept ==
  \A s \in Sessions : forced /\ life[s] \in {"open", "closed"} =>
    holder[s] # Nil /\ file[holder[s]] # "closed"

(* Two transcripts never share a file: one session's record is never        *)
(* overwritten by another's (NewTranscript).                                *)
OwnFiles ==
  \A l, m \in Logs : file[l] # "none" /\ file[m] # "none" /\ name[l] = name[m] =>
    l = m

(* A record that has to be there is there: neither the person recorded nor    *)
(* another session's file takes it away (StopRecording, NewTranscript).       *)
RecordsKept == ForcedIsKept /\ OwnFiles

(***************************************************************************)
(* What comments say, and the code does not keep (README, Divergences).      *)
(***************************************************************************)

(* A transcript that says the session ended is of a session that has.      *)
NoteIsTrue ==
  \A l \in Logs : note[l] = "ended" => life[of[l]] \in {"closed", "done"}

(* NewTranscript: falling back to a unique suffix beats refusing to record. *)
NeverRefused == refused = {}

=============================================================================
