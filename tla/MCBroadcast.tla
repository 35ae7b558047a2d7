----------------------------- MODULE MCBroadcast -----------------------------
(***************************************************************************)
(* Broadcast for TLC: the lists a browser asks for.                        *)
(***************************************************************************)
EXTENDS Broadcast, TLC

CONSTANTS t1, t2, t3, t4

(* Nobody, two others, one of them twice, the browser's own terminal among  *)
(* them, and a colleague's.                                                 *)
MCChoices ==
  { Nobody,
    t2 :> 1 @@ t3 :> 1 @@ Nobody,
    t2 :> 2 @@ Nobody,
    t1 :> 1 @@ t3 :> 1 @@ Nobody,
    t2 :> 1 @@ t4 :> 1 @@ Nobody }
=============================================================================
