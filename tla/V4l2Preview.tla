---------------------------- MODULE V4l2Preview ----------------------------
(***************************************************************************)
(* The preview of the native camera, V4l2Preview.java, on the library of   *)
(* V4l2Device.  Two threads share it: the UI thread runs the callbacks     *)
(* surfaceCreated and surfaceDestroyed, the thread mainLoop runs run().    *)
(* They meet in two plain fields only, cameraExists and shouldStop:        *)
(* surfaceDestroyed raises shouldStop and polls it until the loop has      *)
(* lowered it, then closes the camera the loop was reading.                *)
(*                                                                         *)
(* Each C function a callback calls is a step of its own, since the camera *)
(* can be pulled out, and the process killed, between any two.             *)
(***************************************************************************)
EXTENDS V4l2Device

VARIABLES
    ui,             \* where the UI thread is
    loop,           \* where mainLoop is
    surface,        \* the surface exists
    cameraExists,
    shouldStop,
    mDeviceMsg      \* mDeviceMsg.result: "ok" is 0, "error" is -1

vars == <<device, ui, loop, surface, cameraExists, shouldStop, mDeviceMsg>>

\* "idle": in no callback. prepareCameraWithBase is "open" to "planes", its clean-up
\* "resetStop" to "resetted"; stopCamera is "stop" to "free".
UiPlaces == {"idle", "open", "init", "start", "planes", "resetStop", "resetUninit",
             "resetClose", "resetted", "failed", "prepared", "destroy", "waiting",
             "stop", "uninit", "close", "free"}

\* "select" to "frame" are inside processCamera, "bitmap" is pixeltobmp.
LoopPlaces == {"exited", "top", "select", "dequeue", "frame", "bitmap", "check"}

TypeOK ==
    /\ DeviceTypeOK
    /\ ui \in UiPlaces
    /\ loop \in LoopPlaces
    /\ surface \in BOOLEAN
    /\ cameraExists \in BOOLEAN
    /\ shouldStop \in BOOLEAN
    /\ mDeviceMsg \in {"ok", "error"}

\* The fields of a new activity in a new process.
Started ==
    /\ ui = "idle"
    /\ loop = "exited"
    /\ surface = FALSE
    /\ cameraExists = FALSE
    /\ shouldStop = FALSE
    /\ mDeviceMsg = "ok"

Init == DeviceInit /\ Started

-----------------------------------------------------------------------------
(* surfaceCreated. *)

\* The UI thread goes from one place to another and changes no field.
Goto(here, there) ==
    /\ ui = here
    /\ ui' = there
    /\ UNCHANGED <<loop, surface, cameraExists, shouldStop, mDeviceMsg>>

SurfaceCreated ==
    /\ ui = "idle" /\ ~surface
    /\ ui' = "open"
    /\ surface' = TRUE
    /\ UNCHANGED <<device, loop, cameraExists, shouldStop, mDeviceMsg>>

PrepareOpen == \/ Goto("open", "init") /\ OpenDeviceOk
               \/ Goto("open", "failed") /\ OpenDeviceFails

PrepareInit == \/ Goto("init", "start") /\ InitDeviceOk
               \/ Goto("init", "failed") /\ InitDeviceFails
               \/ Goto("init", "failed") /\ InitDeviceNotACamera

PrepareStart == \/ Goto("start", "planes") /\ StartCapturingOk
                \/ Goto("start", "resetStop") /\ StartCapturingFails

PreparePlanes == Goto("planes", "prepared") /\ AllocatePlanes

\* Only a device that was initialised and does not start is closed again here.
PrepareReset == \/ Goto("resetStop", "resetUninit") /\ StopCapturing
                \/ Goto("resetUninit", "resetClose") /\ UninitDevice
                \/ Goto("resetClose", "resetted") /\ CloseDevice
                \/ Goto("resetted", "failed") /\ UNCHANGED device

\* Variant: the loop is not started.
CameraPreparedNoLoop ==
    /\ ui = "prepared"
    /\ ui' = "idle"
    /\ cameraExists' = TRUE
    /\ mDeviceMsg' = "ok"
    /\ UNCHANGED <<device, loop, surface, shouldStop>>

\* The camera is there: remember it and start the loop.
CameraPrepared ==
    /\ ui = "prepared"
    /\ ui' = "idle"
    /\ mDeviceMsg' = "ok"
    /\ cameraExists' = TRUE
    /\ loop' = "top"
    /\ UNCHANGED <<device, surface, shouldStop>>

\* It is not: show the error, and go on with the body of surfaceDestroyed. cameraExists
\* keeps what an earlier surface left in it.
CameraFailed ==
    /\ ui = "failed"
    /\ ui' = "destroy"
    /\ mDeviceMsg' = "error"
    /\ UNCHANGED <<device, loop, surface, cameraExists, shouldStop>>

-----------------------------------------------------------------------------
(* surfaceDestroyed. *)

SurfaceDestroyed ==
    /\ ui = "idle" /\ surface
    /\ ui' = "destroy"
    /\ surface' = FALSE
    /\ UNCHANGED <<device, loop, cameraExists, shouldStop, mDeviceMsg>>

RequestStop ==
    /\ ui = "destroy"
    /\ IF cameraExists THEN ui' = "waiting" /\ shouldStop' = TRUE
                       ELSE ui' = "stop" /\ UNCHANGED shouldStop
    /\ UNCHANGED <<device, loop, surface, cameraExists, mDeviceMsg>>

\* Variant: a single sleep instead of the polling loop.
StoppedUnasked == Goto("waiting", "stop") /\ UNCHANGED device

\* One turn of the polling loop that finds the flag lowered.
Stopped == ~shouldStop /\ Goto("waiting", "stop") /\ UNCHANGED device

StopCamera == \/ Goto("stop", "uninit") /\ StopCapturing
              \/ Goto("uninit", "close") /\ UninitDevice
              \/ Goto("close", "free") /\ CloseDevice
              \/ Goto("free", "idle") /\ FreePlanes

-----------------------------------------------------------------------------
(* run. *)

LoopGoto(here, there) ==
    /\ loop = here
    /\ loop' = there
    /\ UNCHANGED <<ui, surface, cameraExists, shouldStop, mDeviceMsg>>

LoopTop == LoopGoto("top", IF cameraExists THEN "select" ELSE "exited")
           /\ UNCHANGED device

\* select() reports a descriptor whose camera has gone as ready, at once.
SelectReady == LoopGoto("select", "dequeue") /\ UNCHANGED device

\* After two seconds, or on an error, processCamera returns without a frame.
SelectTimeout == fd # "stale" /\ LoopGoto("select", "bitmap") /\ UNCHANGED device

DequeueFrame == LoopGoto("dequeue", "frame") /\ Dequeue

\* A failed VIDIOC_DQBUF goes back to select().
DequeueFails == LoopGoto("dequeue", "select") /\ UNCHANGED device

RequeueFrame == LoopGoto("frame", "bitmap") /\ Requeue

\* A failed VIDIOC_QBUF does too, although a frame was converted: its buffer is lost.
RequeueFails == LoopGoto("frame", "select") /\ UNCHANGED device

PixelToBmp == LoopGoto("bitmap", "check") /\ (CopyToBitmap \/ CopyToUnlockedBitmap)

\* Variants: the flag is lowered and the loop goes on; the loop ends and leaves it up.
CheckStopNoBreak ==
    /\ loop = "check"
    /\ loop' = "top"
    /\ shouldStop' = FALSE
    /\ UNCHANGED <<device, ui, surface, cameraExists, mDeviceMsg>>

CheckStopKeepsFlag ==
    LoopGoto("check", IF shouldStop THEN "exited" ELSE "top") /\ UNCHANGED device

CheckStop ==
    /\ loop = "check"
    /\ loop' = IF shouldStop THEN "exited" ELSE "top"
    /\ shouldStop' = FALSE
    /\ UNCHANGED <<device, ui, surface, cameraExists, mDeviceMsg>>

-----------------------------------------------------------------------------

UiThread ==
    /\ fault = "none"
    /\ \/ PrepareOpen \/ PrepareInit \/ PrepareStart \/ PreparePlanes \/ PrepareReset
       \/ CameraPrepared \/ CameraFailed
       \/ RequestStop \/ Stopped \/ StopCamera

LoopThread ==
    /\ fault = "none"
    /\ \/ LoopTop \/ SelectReady \/ SelectTimeout
       \/ DequeueFrame \/ DequeueFails \/ RequeueFrame \/ RequeueFails
       \/ PixelToBmp \/ CheckStop

Callback == fault = "none" /\ (SurfaceCreated \/ SurfaceDestroyed)

Environment == (Unplug \/ Plug)
               /\ UNCHANGED <<ui, loop, surface, cameraExists, shouldStop, mDeviceMsg>>

\* onDestroy of the activity, the system, or a fault kills the process.
ProcessDeath ==
    /\ Unload
    /\ ui' = "idle" /\ loop' = "exited" /\ surface' = FALSE
    /\ cameraExists' = FALSE /\ shouldStop' = FALSE /\ mDeviceMsg' = "ok"

Next == UiThread \/ LoopThread \/ Callback \/ Environment \/ ProcessDeath

Spec == Init /\ [][Next]_vars

\* Both threads are scheduled. A camera that is there, and keeps buffers to fill, hands
\* out a frame now and then. Nothing makes a callback come or a process die.
Fairness ==
    /\ WF_vars(UiThread)
    /\ WF_vars(LoopThread)
    /\ SF_vars(fault = "none" /\ DequeueFrame)

FairSpec == Spec /\ Fairness

-----------------------------------------------------------------------------
(* What makes the preview correct. *)

\* The loop is inside the library, or on its way there.
Reading == loop \notin {"exited", "check"}

\* As long as the loop may touch the camera, the descriptor is open, every buffer the
\* driver can return is mapped and in the table, and neither plane has been freed: the
\* wait of surfaceDestroyed comes before everything stopCamera takes away.
ReaderSafe == Reading => fd # "none" /\ BuffersUsable /\ PlanesUsable

\* The library has no lock and its globals one copy: a callback that is inside
\* prepareCameraWithBase or stopCamera never runs beside a loop, so that there is never
\* a second loop either.
SingleReader == ui \notin {"idle", "destroy", "waiting"} => loop = "exited"

\* A session leaves nothing behind. When no callback runs and no surface exists, no
\* descriptor, mapping, queued buffer or heap block is held, whichever way preparing
\* the camera failed, the loop has ended, and no request to stop is left for the next one.
NothingHeld ==
    (ui = "idle" /\ ~surface /\ fault = "none") =>
        /\ openFds = 0 /\ mapped = 0 /\ queued = 0 /\ blocks = 0
        /\ loop = "exited" /\ ~shouldStop

\* Nothing is orphaned: each descriptor, mapping and heap block the process holds can
\* still be reached from a global, at every step of preparing, failing and stopping.
Count(p) == IF p = "live" THEN 1 ELSE 0

NothingOrphaned ==
    /\ openFds = IF fd = "none" THEN 0 ELSE 1
    /\ mapped = IF buffers = "live" THEN n_buffers ELSE 0
    /\ blocks = Count(buffers) + Count(planes["rgb"]) + Count(planes["ybuf"])

\* buffers, n_buffers, rgb and ybuf are never reset, so a second stopCamera works on what
\* the first one freed. Sessions that are prepared never get there, in any sequence of
\* surfaces: it takes a camera that failed to be prepared.
DanglingNeedsError == fault = "dangling" => mDeviceMsg = "error"

\* surfaceDestroyed waits for a loop that exists, or that has just lowered the flag, when
\* the last camera was prepared.
WaitHasLoop == (ui = "waiting" /\ shouldStop /\ mDeviceMsg = "ok") => loop # "exited"

\* The preview implements CameraSession: the table of buffers is what makes a camera
\* ready, and the reader is the loop from its start to its last look at shouldStop.
Session == INSTANCE CameraSession WITH
    camera <- IF fd = "none" THEN "closed" ELSE IF buffers = "live" THEN "ready" ELSE "open",
    reader <- IF loop = "exited" THEN "out" ELSE "in"

ImplementsSession == Session!Spec

\* The wait of surfaceDestroyed ends, as long as the camera it has to close is plugged in
\* and the driver has buffers to fill: a camera that stalls, or returns errors now and
\* then, does not block the UI thread.
WaitEnds ==
    (ui = "waiting" /\ mDeviceMsg = "ok")
        ~> (ui # "waiting" \/ fd = "stale" \/ queued = 0 \/ fault # "none")

-----------------------------------------------------------------------------
(* What the comments say, and the code does not do. *)

\* "wait for thread stopping": there is a thread to wait for.
WaitingForThread == (ui = "waiting" /\ shouldStop) => loop # "exited"

\* There is none, when the surface that is given up is one whose camera failed, and an
\* earlier one had a camera: cameraExists is never lowered. The wait is then for good.
AsksNobody == RequestStop /\ cameraExists /\ mDeviceMsg = "error"

WaitsForGood ==
    [][(ui = "waiting" /\ shouldStop /\ loop = "exited")
           => UNCHANGED <<ui, shouldStop, loop>> \/ ProcessDeath]_vars

\* "wait for thread stopping": the thread stops.
ThreadStops ==
    (ui = "waiting" /\ loop # "exited" /\ fault = "none")
        ~> (ui # "waiting" \/ fault # "none")

\* It does not, once its camera was pulled out: the loop stays inside processCamera.
SpinsForGood ==
    [][(fd = "stale" /\ loop \in {"select", "dequeue"})
           => (fd' = "stale" /\ loop' \in {"select", "dequeue"}) \/ ProcessDeath]_vars

\* "device resetted": what follows, stopCamera, finds a device that is not in use.
DeviceResetted == ui = "resetted" => fd = "none" /\ buffers # "freed"

\* It never does: the table is freed and still in use, each time.
ResetDangles == ui = "resetted" => fd = "none" /\ buffers = "freed"
=============================================================================
