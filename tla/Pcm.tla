-------------------------------- MODULE Pcm --------------------------------
(***************************************************************************)
(* A pcm stream of jni/tinyalsa/pcm.c: the handle that pcm_open returns,   *)
(* the substream the kernel keeps for it, and the calls that move frames   *)
(* with read and write.  The handle remembers in two flags, prepared and   *)
(* running, what it believes of the substream; the kernel plays, captures, *)
(* stops and suspends it on its own.                                       *)
(*                                                                         *)
(* Frames are counted in periods.  A call is a sequence of steps, one for  *)
(* each ioctl and one for each period an ioctl moves, and ends with a      *)
(* result; who makes the calls is left to the modules that extend this one *)
(* (PcmStream, TinyAlsaAudio).                                             *)
(***************************************************************************)
EXTENDS Naturals

CONSTANTS
    Periods,        \* periods in the buffer: config.period_count
    StopBuffers     \* buffers captured and not read at which the kernel stops (10)

ASSUME PeriodsAssumption ==
    /\ Periods \in Nat /\ Periods >= 2
    /\ StopBuffers \in Nat /\ StopBuffers >= 1

VARIABLES
    flags,          \* pcm->flags
    handle,         \* what the caller has: nothing, &bad_pcm, or a struct pcm
    fd,             \* pcm->fd
    prepared,
    running,
    mmap_buffer,    \* "failed" is MAP_FAILED, "unmapped" an address no longer mapped
    mmap_status,    \* with mmap_control: mapped pages, or inside sync_ptr
    substream,      \* the kernel's state of the substream
    delay,          \* periods written and not played, or captured and not read
    openFds, blocks, \* descriptors and heap blocks the process holds for streams
    maps,           \* pages of the kernel mapped into the process
    place,          \* where the call is; "idle" is outside
    call,           \* which one it is, or was
    asked,          \* periods it was asked to move
    left,           \* periods its ioctl has not moved
    result          \* what it returned

pointers == <<flags, handle, fd, mmap_buffer, mmap_status, openFds, blocks, maps>>
state    == <<prepared, running>>
kernel   == <<substream, delay>>
progress == <<place, call, asked, left, result>>
stream   == <<pointers, state, kernel, progress>>

Flags == {"PCM_IN", "PCM_MMAP", "PCM_NORESTART", "PCM_MONOTONIC"}

StreamTypeOK ==
    /\ flags \subseteq Flags
    /\ handle \in {"none", "bad", "live"}
    /\ fd \in {"none", "open"}
    /\ prepared \in BOOLEAN /\ running \in BOOLEAN
    /\ mmap_buffer \in {"null", "failed", "mapped", "unmapped"}
    /\ mmap_status \in {"null", "mapped", "sync_ptr"}
    /\ substream \in {"closed", "setup", "prepared", "running", "xrun", "suspended",
                      "disconnected"}
    /\ delay \in Nat
    /\ openFds \in Nat /\ blocks \in Nat
    /\ maps \subseteq {"buffer", "status"}
    /\ place \in {"idle", "top", "prepare", "initial", "start", "transfer"}
    /\ call \in {"none", "write", "read", "prepare", "start", "stop"}
    /\ asked \in Nat /\ left \in 0..asked
    /\ result \in {"none", "ok", "EPIPE", "EINVAL", "error"}

StreamInit ==
    /\ flags = {} /\ handle = "none" /\ fd = "none"
    /\ prepared = FALSE /\ running = FALSE
    /\ mmap_buffer = "null" /\ mmap_status = "null"
    /\ substream = "closed" /\ delay = 0
    /\ openFds = 0 /\ blocks = 0 /\ maps = {}
    /\ place = "idle" /\ call = "none" /\ asked = 0 /\ left = 0 /\ result = "none"

\* The process dies: the kernel takes back all it held for streams.
StreamLost ==
    /\ flags' = {} /\ handle' = "none" /\ fd' = "none"
    /\ prepared' = FALSE /\ running' = FALSE
    /\ mmap_buffer' = "null" /\ mmap_status' = "null"
    /\ substream' = "closed" /\ delay' = 0
    /\ openFds' = 0 /\ blocks' = 0 /\ maps' = {}
    /\ place' = "idle" /\ call' = "none" /\ asked' = 0 /\ left' = 0 /\ result' = "none"

Captures == "PCM_IN" \in flags

\* The periods at which a transfer starts the substream: half a buffer to play,
\* the first frame to capture.
StartsAt(periods) == Captures \/ 2 * periods >= Periods

\* Periods captured and not read at which the kernel stops. One that plays stops when
\* it has nothing left to play.
StopThreshold == StopBuffers * Periods

-----------------------------------------------------------------------------
(* The kernel and the card. *)

Play ==
    /\ substream = "running" /\ ~Captures
    /\ delay > 0
    /\ delay' = delay - 1
    /\ substream' = IF delay' = 0 THEN "xrun" ELSE "running"
    /\ UNCHANGED <<pointers, state, progress>>

CapturePeriod ==
    /\ substream = "running" /\ Captures
    /\ delay' = delay + 1
    /\ substream' = IF delay' >= StopThreshold THEN "xrun" ELSE "running"
    /\ UNCHANGED <<pointers, state, progress>>

\* The system goes to sleep, and wakes up with the substream still suspended.
Suspend ==
    /\ substream \in {"prepared", "running"}
    /\ substream' = "suspended"
    /\ UNCHANGED <<pointers, state, delay, progress>>

\* The sound card is pulled out.
Disconnect ==
    /\ substream \notin {"closed", "disconnected"}
    /\ substream' = "disconnected"
    /\ UNCHANGED <<pointers, state, delay, progress>>

-----------------------------------------------------------------------------
(* pcm_open and pcm_close. *)

\* A new struct pcm: calloc.
NewHandle(f) ==
    /\ handle = "none" /\ place = "idle"
    /\ flags' = f
    /\ handle' = "live"
    /\ prepared' = FALSE /\ running' = FALSE
    /\ UNCHANGED progress

\* The caller gets &bad_pcm, which leads to nothing.
BadHandle ==
    /\ handle = "none" /\ place = "idle"
    /\ handle' = "bad"
    /\ flags' = {} /\ fd' = "none" /\ mmap_buffer' = "null" /\ mmap_status' = "null"
    /\ prepared' = FALSE /\ running' = FALSE
    /\ UNCHANGED <<openFds, maps, kernel, progress>>

OpenNoMemory == BadHandle /\ UNCHANGED blocks

\* The caller gave no config: the struct that calloc has already allocated is lost.
OpenNoConfig == BadHandle /\ blocks' = blocks + 1

\* No device, or "fail_close": the node, SNDRV_PCM_IOCTL_INFO, HW_PARAMS, or the mmap of
\* the buffer, whose MAP_FAILED stays in the handle.
OpenFails(f) ==
    /\ NewHandle(f)
    /\ fd' = "none"
    /\ \/ mmap_buffer' = "null"
       \/ "PCM_MMAP" \in f /\ mmap_buffer' = "failed"
    /\ mmap_status' = "null"
    /\ blocks' = blocks + 1
    /\ UNCHANGED <<openFds, maps, kernel>>

\* The two pages of status and control, or the block that stands in for them.
MapsStatus(other, extra) ==
    \/ mmap_status' = "mapped" /\ maps' = other \cup {"status"} /\ blocks' = blocks + extra
    \/ mmap_status' = "sync_ptr" /\ maps' = other /\ blocks' = blocks + extra + 1

\* "fail": SW_PARAMS or the block for sync_ptr, or SNDRV_PCM_IOCTL_TTSTAMP, by when the
\* status is mapped. The buffer is unmapped and its address stays in the handle.
OpenFailsLate(f) ==
    /\ NewHandle(f)
    /\ fd' = "none"
    /\ mmap_buffer' = IF "PCM_MMAP" \in f THEN "unmapped" ELSE "null"
    /\ \/ mmap_status' = "null" /\ blocks' = blocks + 1 /\ UNCHANGED maps
       \/ "PCM_MONOTONIC" \in f /\ MapsStatus(maps, 1)
    /\ UNCHANGED <<openFds, kernel>>

OpenOk(f) ==
    /\ NewHandle(f)
    /\ fd' = "open" /\ openFds' = openFds + 1
    /\ IF "PCM_MMAP" \in f
       THEN mmap_buffer' = "mapped" /\ MapsStatus(maps \cup {"buffer"}, 1)
       ELSE mmap_buffer' = "null" /\ MapsStatus(maps, 1)
    /\ substream' = "setup" /\ delay' = 0

\* With a config, as the application passes one.
pcm_open(f) == OpenNoMemory \/ OpenFails(f) \/ OpenFailsLate(f) \/ OpenOk(f)

\* pcm_hw_munmap_status: the pages it unmaps, or the block it frees.
StatusPages == IF mmap_status = "mapped" THEN {"status"} ELSE {}

StatusBlocks == IF mmap_status = "sync_ptr" THEN 1 ELSE 0

\* Variant: a handle without a descriptor is not looked at.
CloseOnlyOpen ==
    /\ place = "idle" /\ handle # "none"
    /\ handle' = "none"
    /\ openFds' = IF fd = "open" THEN openFds - 1 ELSE openFds
    /\ blocks' = IF fd = "open" THEN blocks - StatusBlocks - 1 ELSE blocks
    /\ maps' = IF fd = "open" THEN {} ELSE maps
    /\ fd' = "none" /\ flags' = {}
    /\ mmap_buffer' = "null" /\ mmap_status' = "null"
    /\ prepared' = FALSE /\ running' = FALSE
    /\ substream' = "closed" /\ delay' = 0
    /\ UNCHANGED progress

\* &bad_pcm is left alone. Otherwise the status is unmapped, a mapped stream stopped and
\* its buffer unmapped, even if it is not mapped; the descriptor is closed and the handle
\* freed.
pcm_close ==
    /\ place = "idle" /\ handle # "none"
    /\ handle' = "none"
    /\ openFds' = IF fd = "open" THEN openFds - 1 ELSE openFds
    /\ blocks' = IF handle = "bad" THEN blocks ELSE blocks - StatusBlocks - 1
    /\ maps' = maps \ (StatusPages \cup IF "PCM_MMAP" \in flags THEN {"buffer"} ELSE {})
    /\ fd' = "none" /\ flags' = {}
    /\ mmap_buffer' = "null" /\ mmap_status' = "null"
    /\ prepared' = FALSE /\ running' = FALSE
    /\ substream' = "closed" /\ delay' = 0
    /\ UNCHANGED progress

-----------------------------------------------------------------------------
(* The steps of a call. *)

\* A call on a stream that is ready begins at a place of its own.
Begin(c, there, n) ==
    /\ place = "idle" /\ fd = "open"
    /\ call' = c /\ place' = there
    /\ asked' = n /\ left' = n
    /\ result' = "none"
    /\ UNCHANGED <<pointers, state, kernel>>

Goto(here, there) == place = here /\ place' = there

\* It returns.
Return(here, r) ==
    /\ Goto(here, "idle")
    /\ result' = r
    /\ UNCHANGED <<pointers, call, asked, left>>

\* The top of the loop of pcm_write and pcm_read.
Top ==
    /\ Goto("top", IF running THEN "transfer" ELSE "prepare")
    /\ left' = asked
    /\ UNCHANGED <<pointers, state, kernel, call, asked, result>>

\* What follows pcm_prepare: the first write of pcm_write, START of pcm_start, the caller.
AfterPrepare ==
    \/ call = "write" /\ Goto("prepare", "initial") /\ UNCHANGED result
    \/ call \in {"read", "start"} /\ Goto("prepare", "start") /\ UNCHANGED result
    \/ call = "prepare" /\ Goto("prepare", "idle") /\ result' = "ok"

AlreadyPrepared ==
    /\ prepared
    /\ AfterPrepare
    /\ UNCHANGED <<pointers, state, kernel, call, asked, left>>

\* SNDRV_PCM_IOCTL_PREPARE, which a running substream refuses.
PrepareOk ==
    /\ ~prepared
    /\ AfterPrepare
    /\ substream \in {"setup", "prepared", "xrun", "suspended"}
    /\ substream' = "prepared" /\ delay' = 0
    /\ prepared' = TRUE
    /\ UNCHANGED <<pointers, running, call, asked, left>>

PrepareFails == ~prepared /\ Return("prepare", "error") /\ UNCHANGED <<state, kernel>>

\* SNDRV_PCM_IOCTL_START, of a prepared substream that captures or has frames to play.
StartOk ==
    /\ substream = "prepared" /\ (Captures \/ delay > 0)
    /\ IF call = "read" THEN Goto("start", "transfer") /\ UNCHANGED result
                        ELSE Goto("start", "idle") /\ result' = "ok"
    /\ substream' = "running"
    /\ running' = TRUE
    /\ UNCHANGED <<pointers, prepared, delay, call, asked, left>>

\* Of a running one too: EBADFD.
StartFails == Return("start", "error") /\ UNCHANGED <<state, kernel>>

\* Variant: one period too many.
WriteOneMore ==
    /\ place \in {"initial", "transfer"} /\ call = "write"
    /\ substream \in {"prepared", "running"} /\ delay < Periods
    /\ delay' = delay + 1
    /\ left' = left - 1
    /\ substream' = IF StartsAt(delay') THEN "running" ELSE substream
    /\ UNCHANGED <<pointers, state, place, call, asked, result>>

\* WRITEI takes a period as soon as there is room, and starts the substream once it has
\* enough to play.
WritePeriod ==
    /\ place \in {"initial", "transfer"} /\ call = "write" /\ left > 0
    /\ substream \in {"prepared", "running"} /\ delay < Periods
    /\ delay' = delay + 1
    /\ left' = left - 1
    /\ substream' = IF StartsAt(delay') THEN "running" ELSE substream
    /\ UNCHANGED <<pointers, state, place, call, asked, result>>

\* READI hands out a captured period.
ReadPeriod ==
    /\ place = "transfer" /\ call = "read" /\ left > 0
    /\ substream = "running" /\ delay > 0
    /\ delay' = delay - 1
    /\ left' = left - 1
    /\ UNCHANGED <<pointers, state, substream, place, call, asked, result>>

\* The first WRITEI returns 0: with everything written, or with a part, after which the
\* substream stopped. The part is not looked at.
InitialDone ==
    /\ left = 0 \/ (left < asked /\ substream \notin {"prepared", "running"})
    /\ Return("initial", "ok")
    /\ running' = TRUE
    /\ UNCHANGED <<prepared, kernel>>

\* It fails with nothing written: the flags stay as pcm_prepare left them.
InitialFails ==
    /\ left = asked /\ substream \notin {"prepared", "running"}
    /\ Return("initial", "error")
    /\ UNCHANGED <<state, kernel>>

TransferDone ==
    /\ left = 0 \/ (left < asked /\ substream \notin {"prepared", "running"})
    /\ Return("transfer", "ok")
    /\ UNCHANGED <<state, kernel>>

\* Variants: the flags are not reset for a restart; every stream restarts.
XrunKeepsFlags ==
    /\ substream = "xrun" /\ left = asked
    /\ Goto("transfer", "top")
    /\ UNCHANGED <<pointers, state, kernel, call, asked, left, result>>

XrunRestarts ==
    /\ substream = "xrun" /\ left = asked
    /\ Goto("transfer", "top")
    /\ prepared' = FALSE /\ running' = FALSE
    /\ UNCHANGED <<pointers, kernel, call, asked, left, result>>

\* EPIPE: the flags are reset, and the loop starts over with the whole count, or a write
\* that may not restart returns.
TransferXrun ==
    /\ substream = "xrun" /\ left = asked
    /\ IF call = "write" /\ "PCM_NORESTART" \in flags
       THEN Goto("transfer", "idle") /\ result' = "EPIPE"
       ELSE Goto("transfer", "top") /\ UNCHANGED result
    /\ prepared' = FALSE /\ running' = FALSE
    /\ UNCHANGED <<pointers, kernel, call, asked, left>>

\* Another error, of a substream that is suspended or disconnected.
TransferFails ==
    /\ left = asked /\ substream \notin {"prepared", "running", "xrun"}
    /\ Return("transfer", "error")
    /\ prepared' = FALSE /\ running' = FALSE
    /\ UNCHANGED kernel

\* A signal interrupts the ioctl, which returns the part it moved, or else an error,
\* while the substream goes on.
Interrupted ==
    /\ place \in {"initial", "transfer"}
    /\ IF left < asked
       THEN /\ Return(place, "ok")
            /\ running' = TRUE /\ UNCHANGED prepared
       ELSE /\ Return(place, "error")
            /\ prepared' = (prepared /\ place = "initial") /\ running' = FALSE
    /\ UNCHANGED kernel

\* Variant: the flags are not reset.
StopKeepsFlags ==
    /\ place = "idle" /\ fd = "open"
    /\ substream' = IF substream = "disconnected" THEN substream ELSE "setup"
    /\ call' = "stop" /\ result' = "ok" /\ delay' = 0
    /\ UNCHANGED <<pointers, state, place, asked, left>>

\* SNDRV_PCM_IOCTL_DROP.
pcm_stop ==
    /\ place = "idle" /\ fd = "open"
    /\ call' = "stop"
    /\ \/ /\ substream # "disconnected"
          /\ substream' = "setup" /\ delay' = 0
          /\ prepared' = FALSE /\ running' = FALSE
          /\ result' = "ok"
       \/ result' = "error" /\ UNCHANGED <<state, kernel>>
    /\ UNCHANGED <<pointers, place, asked, left>>

\* A write to a stream that captures, and a read from one that plays, are refused.
pcm_write(n) ==
    \/ ~Captures /\ Begin("write", "top", n)
    \/ /\ Captures /\ place = "idle" /\ fd = "open"
       /\ call' = "write" /\ result' = "EINVAL"
       /\ UNCHANGED <<pointers, state, kernel, place, asked, left>>

pcm_read(n) ==
    \/ Captures /\ Begin("read", "top", n)
    \/ /\ ~Captures /\ place = "idle" /\ fd = "open"
       /\ call' = "read" /\ result' = "EINVAL"
       /\ UNCHANGED <<pointers, state, kernel, place, asked, left>>

pcm_prepare == Begin("prepare", "prepare", 0)

pcm_start == Begin("start", "prepare", 0)

CallStep ==
    \/ Top \/ AlreadyPrepared \/ PrepareOk \/ PrepareFails \/ StartOk \/ StartFails
    \/ WritePeriod \/ ReadPeriod \/ InitialDone \/ InitialFails
    \/ TransferDone \/ TransferXrun \/ TransferFails

Kernel == Play \/ CapturePeriod \/ Suspend \/ Disconnect \/ Interrupted

-----------------------------------------------------------------------------
(* How far a call is from its end. *)

\* The most steps a call has left to take, if no underrun or overrun starts it over.
StepsLeft ==
    [idle |-> 0, initial |-> 1 + left, transfer |-> 1 + left, start |-> 2 + left,
     prepare |-> 3 + left, top |-> 4 + asked][place]

Restarts == TransferXrun /\ place' = "top"
=============================================================================
