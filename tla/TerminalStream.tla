---------------------------- MODULE TerminalStream ----------------------------
(***************************************************************************)
(* What one browser sees of a terminal's output: the pump, the replay ring *)
(* buffer, Attach and the bridge's writer (internal/terminal/session.go    *)
(* ringBuffer, pump, Attach; bridge.go Run, writeToBrowser).               *)
(*                                                                         *)
(* The shell's output is the sequence 1, 2, 3, ... so that a byte is known *)
(* by its place.  The pump writes a chunk to the ring and sends it to the  *)
(* attached channel in one critical section; a full channel drops the      *)
(* chunk.  The writer sends the replay first and then the queued chunks.   *)
(***************************************************************************)
EXTENDS Integers, Sequences, SequencesExt

CONSTANTS Size,      \* ReplayBytes
          Frames,    \* capacity of the output channel (256 chunks)
          MaxChunk,  \* longest read of the pump
          MaxOutput  \* bound on the output the shell produces

ASSUME StreamAssumption ==
  /\ Size \in Nat \ {0}
  /\ Frames \in Nat \ {0}
  /\ MaxChunk \in Nat \ {0}
  /\ MaxOutput \in Nat

VARIABLES
  out,      \* how much the shell has printed
  ring,     \* t.replay: [buf, start, length]
  browser,  \* "away", "replaying" (Attach returned) or "live"
  replay,   \* Attachment.Replay, until it is sent
  queue,    \* chunks in the output channel
  shown,    \* what this browser has been sent since it attached
  dropped   \* whether a chunk was dropped since it attached

vars == <<out, ring, browser, replay, queue, shown, dropped>>

-----------------------------------------------------------------------------
(* ringBuffer. *)

Push(r, x) ==
  [r EXCEPT !.buf[(r.start + r.length) % Size] = x,
            !.length = IF @ < Size THEN @ + 1 ELSE @,
            !.start  = IF r.length < Size THEN @ ELSE (@ + 1) % Size]

(* Only the last Size bytes can survive, so a huge write is trimmed first. *)
Write(r, p) ==
  IF Len(p) >= Size
    THEN [buf    |-> [i \in 0..(Size - 1) |-> p[Len(p) - Size + 1 + i]],
          start  |-> 0,
          length |-> Size]
    ELSE FoldLeft(Push, r, p)

(* The contents, oldest first. *)
Bytes(r) == [i \in 1..r.length |-> r.buf[(r.start + i - 1) % Size]]

-----------------------------------------------------------------------------
Init ==
  /\ out     = 0
  /\ ring    = [buf |-> [i \in 0..(Size - 1) |-> 0], start |-> 0, length |-> 0]
  /\ browser = "away"
  /\ replay  = <<>>
  /\ queue   = <<>>
  /\ shown   = <<>>
  /\ dropped = FALSE

Chunk(n) == [i \in 1..n |-> out + i]

(* The pump read n bytes: remember them and send them if anybody listens. *)
Pump(n) ==
  /\ out + n <= MaxOutput
  /\ out' = out + n
  /\ ring' = Write(ring, Chunk(n))
  /\ IF browser # "away" /\ Len(queue) < Frames
       THEN queue' = Append(queue, Chunk(n)) /\ UNCHANGED dropped
       ELSE dropped' = (dropped \/ browser # "away") /\ UNCHANGED queue
  /\ UNCHANGED <<browser, replay, shown>>

(* A browser attaches, possibly displacing the one that was there: the     *)
(* snapshot of the ring and the new channel are taken together.            *)
Attach ==
  /\ browser' = "replaying"
  /\ replay'  = Bytes(ring)
  /\ queue'   = <<>>
  /\ shown'   = <<>>
  /\ dropped' = FALSE
  /\ UNCHANGED <<out, ring>>

(* Run sends the replay before it starts the writer. *)
SendReplay ==
  /\ browser = "replaying"
  /\ browser' = "live"
  /\ shown'   = replay
  /\ replay'  = <<>>
  /\ UNCHANGED <<out, ring, queue, dropped>>

(* writeToBrowser forwards one chunk. *)
Deliver ==
  /\ browser = "live"
  /\ queue # <<>>
  /\ shown' = shown \o Head(queue)
  /\ queue' = Tail(queue)
  /\ UNCHANGED <<out, ring, browser, replay, dropped>>

(* The browser left; what was still queued for it is gone with the channel. *)
Detach ==
  /\ browser # "away"
  /\ browser' = "away"
  /\ replay'  = <<>>
  /\ queue'   = <<>>
  /\ shown'   = <<>>
  /\ dropped' = FALSE
  /\ UNCHANGED <<out, ring>>

Next == \/ \E n \in 1..MaxChunk : Pump(n)
        \/ Attach
        \/ SendReplay
        \/ Deliver
        \/ Detach

Spec == Init /\ [][Next]_vars

-----------------------------------------------------------------------------
(* Properties. *)

(* The types of the variables. *)
TypeOK ==
  /\ out \in 0..MaxOutput
  /\ ring.buf \in [0..(Size - 1) -> 0..MaxOutput]
  /\ ring.start \in 0..(Size - 1)
  /\ ring.length \in 0..Size
  /\ browser \in {"away", "replaying", "live"}
  /\ replay \in Seq(1..MaxOutput)
  /\ queue \in Seq(Seq(1..MaxOutput))
  /\ shown \in Seq(1..MaxOutput)
  /\ dropped \in BOOLEAN

LastBytes(n) == LET k == IF n < Size THEN n ELSE Size IN [i \in 1..k |-> n - k + i]

(* The replay buffer holds exactly the most recent output, oldest first,    *)
(* however the writes were cut into chunks and wherever the ring wraps.     *)
ReplayIsTail == Bytes(ring) = LastBytes(out)

Pending == replay \o shown \o FlattenSeq(queue)

(* A browser reads the output in the order it was printed: replay first,    *)
(* then live, with nothing repeated at the seam or anywhere else, even when *)
(* chunks are dropped or arrive between Attach and the replay.              *)
InOrder ==
  \A i, j \in 1..Len(Pending) : i < j => Pending[i] < Pending[j]

(* Nothing is missing either, unless the browser did not keep up: what it   *)
(* has, and what is on its way, runs without a gap up to the newest byte.   *)
NoGap ==
  browser # "away" /\ ~dropped /\ Pending # <<>> =>
    /\ Last(Pending) = out
    /\ \A i \in 1..(Len(Pending) - 1) : Pending[i + 1] = Pending[i] + 1

(* What a browser reads of the output is in order, and complete unless it did *)
(* not keep up (Attach's snapshot, the replay before the live output, pump's  *)
(* send under the lock).                                                      *)
ReadsFaithfully == InOrder /\ NoGap

=============================================================================
