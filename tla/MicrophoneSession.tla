-------------------------- MODULE MicrophoneSession --------------------------
(***************************************************************************)
(* What the test of a microphone promises about the capture device,        *)
(* without saying how: it is held by one part of the application at a      *)
(* time, first by the check and then by the recording, which gives it back *)
(* after at most one more buffer once it is asked to stop.                 *)
(***************************************************************************)
EXTENDS Naturals

VARIABLES
    holder,     \* who holds the device: "nobody", "check" or "recording"
    turn,       \* whose turn it is to take it: "check", "recording", or "over"
    asked,      \* the recording is asked to stop
    more        \* the buffers written since

vars == <<holder, turn, asked, more>>

TypeOK ==
    /\ holder \in {"nobody", "check", "recording"}
    /\ turn \in {"check", "recording", "over"}
    /\ asked \in BOOLEAN /\ more \in 0..1

Init == holder = "nobody" /\ turn = "check" /\ ~asked /\ more = 0

\* Each takes the device in its turn, once, and from nobody.
Take(who, next) ==
    /\ holder = "nobody" /\ turn = who
    /\ holder' \in {who, "nobody"} /\ turn' = next
    /\ UNCHANGED <<asked, more>>

CheckTakes == Take("check", "recording")

RecordingTakes == Take("recording", "over")

GiveBack ==
    /\ holder # "nobody"
    /\ holder' = "nobody"
    /\ UNCHANGED <<turn, asked, more>>

\* Nobody asks a check to stop.
Ask ==
    /\ holder # "check" /\ turn # "check" /\ ~asked
    /\ asked' = TRUE
    /\ UNCHANGED <<holder, turn, more>>

OneMore ==
    /\ holder = "recording" /\ asked /\ more = 0
    /\ more' = 1
    /\ UNCHANGED <<holder, turn, asked>>

\* The process dies; the kernel takes the device back, and the next one starts over.
Crash == holder' = "nobody" /\ turn' = "check" /\ asked' = FALSE /\ more' = 0

Next == CheckTakes \/ RecordingTakes \/ GiveBack \/ Ask \/ OneMore \/ Crash

Spec == Init /\ [][Next]_vars
==============================================================================
