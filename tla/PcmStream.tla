----------------------------- MODULE PcmStream -----------------------------
(***************************************************************************)
(* A client of Pcm that makes any call the library lets it make, in any    *)
(* order: it opens a stream with any flags, or without a config, and on    *)
(* one that pcm_is_ready it writes, reads, prepares, starts and stops      *)
(* until it closes it, or until the process dies.                          *)
(***************************************************************************)
EXTENDS Pcm

CONSTANT
    MaxLeaked       \* opens without a config in the life of a process

ASSUME MaxLeakedAssumption == MaxLeaked \in Nat

VARIABLE
    leaked          \* blocks of such opens, to which no handle leads

vars == <<stream, leaked>>

TypeOK == StreamTypeOK /\ leaked \in 0..MaxLeaked

Init == StreamInit /\ leaked = 0

\* pcm_open(card, device, flags, NULL)
Leak ==
    /\ leaked < MaxLeaked
    /\ OpenNoConfig
    /\ leaked' = leaked + 1

Client ==
    \/ \E f \in SUBSET Flags : pcm_open(f)
    \/ \E n \in 1..(Periods + 1) : pcm_write(n) \/ pcm_read(n)
    \/ pcm_prepare \/ pcm_start \/ pcm_stop
    \/ pcm_close

ProcessDeath == StreamLost /\ leaked' = 0

Next ==
    \/ (Client \/ CallStep \/ Kernel) /\ UNCHANGED leaked
    \/ Leak \/ ProcessDeath

Spec == Init /\ [][Next]_vars

\* A call that is not blocked goes on. The clock of a card that runs does not stop, and
\* a substream that runs again and again moves a period now and then. The client makes
\* calls when it likes, and nothing has to fail.
Fairness ==
    /\ WF_vars(CallStep /\ UNCHANGED leaked)
    /\ WF_vars(Play /\ UNCHANGED leaked)
    /\ WF_vars(CapturePeriod /\ UNCHANGED leaked)
    /\ SF_vars(WritePeriod /\ UNCHANGED leaked)
    /\ SF_vars(ReadPeriod /\ UNCHANGED leaked)

FairSpec == Spec /\ Fairness

-----------------------------------------------------------------------------
(* What makes a stream correct. *)

\* What pcm_open takes is accounted for in the handle, whichever way it fails half-way,
\* so that pcm_close gives all of it back: no descriptor or page is held that the handle
\* does not lead to, and none when there is no handle. The same holds of the blocks but
\* for one that is lost, for good, with every open that is given no config.
Accounted ==
    /\ openFds = IF fd = "open" THEN 1 ELSE 0
    /\ blocks = (IF handle = "live" THEN 1 ELSE 0)
                    + (IF mmap_status = "sync_ptr" THEN 1 ELSE 0) + leaked
    /\ "status" \in maps <=> mmap_status = "mapped"
    /\ "buffer" \in maps <=> mmap_buffer = "mapped"
    /\ handle = "none" => fd = "none" /\ mmap_status = "null" /\ mmap_buffer = "null"

\* The flags follow the substream, which stops by itself. One believed to run was at
\* least prepared since it was set up; one believed to be prepared and not running has
\* not run since, except while the first write is filling it.
FlagsFollow ==
    /\ running => prepared /\ substream # "setup"
    /\ prepared /\ ~running /\ place # "initial"
           => substream \in {"prepared", "suspended", "disconnected"}

\* "when set, calls to pcm_write for a playback stream will not attempt to restart the
\* stream in the case of an underflow, but will return -EPIPE instead": once a write
\* without restart is past the preparation, it never prepares the substream again.
NoRestart ==
    [][("PCM_NORESTART" \in flags /\ call = "write" /\ place \in {"initial", "transfer"})
           => place' \in {"initial", "transfer", "idle"}]_vars

\* A call that does not restart its stream comes nearer to its end with every step it
\* takes, and nothing that the card, a signal or the end of the process does sends it back:
\* the transfers of pcm_write and pcm_read are loops that only an underrun starts over.
OnlyRestartsDelay ==
    [][place # "idle" /\ ~Restarts =>
           /\ StepsLeft' <= StepsLeft
           /\ CallStep \/ Interrupted => StepsLeft' < StepsLeft]_vars

\* Every call returns, however often the stream underruns and is restarted inside it.
CallEnds == place # "idle" ~> place = "idle"
=============================================================================
