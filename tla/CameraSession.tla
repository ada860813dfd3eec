---------------------------- MODULE CameraSession ----------------------------
(***************************************************************************)
(* What the preview promises about its camera, without saying how: a       *)
(* camera is opened, its buffers are made ready, a reader goes in and out  *)
(* of it; and nothing is taken away while the reader is in.                *)
(***************************************************************************)

VARIABLES
    camera,     \* "closed", "open", or "ready": open with its buffers mapped
    reader      \* "in" while a thread works on the buffers, or may

vars == <<camera, reader>>

TypeOK == camera \in {"closed", "open", "ready"} /\ reader \in {"in", "out"}

Init == camera = "closed" /\ reader = "out"

\* The reader only enters a camera that is ready.
Enter == /\ camera = "ready" /\ reader = "out"
         /\ reader' = "in"
         /\ UNCHANGED camera

Leave == /\ reader = "in"
         /\ reader' = "out"
         /\ UNCHANGED camera

\* The camera only changes while the reader is out.
Open == camera = "closed" /\ camera' = "open"
MakeReady == camera = "open" /\ camera' = "ready"
Release == camera = "ready" /\ camera' = "open"
Close == camera # "closed" /\ camera' = "closed"

Change == /\ Open \/ MakeReady \/ Release \/ Close
          /\ reader = "out"
          /\ UNCHANGED reader

\* The process dies and takes both away.
Crash == camera' = "closed" /\ reader' = "out"

Next == Enter \/ Leave \/ Change \/ Crash

Spec == Init /\ [][Next]_vars
==============================================================================
