-------------------------- MODULE V4l2PreviewProofs --------------------------
(***************************************************************************)
(* Proofs about V4l2Preview, for every number of buffers: its types, that  *)
(* the loop never touches what stopCamera takes away, that a session       *)
(* leaves nothing behind, and that the preview implements CameraSession.   *)
(* Of the comments that the code does not keep: exactly when it does not,  *)
(* and what becomes of it then.                                            *)
(*                                                                         *)
(* The properties are not inductive: that the loop may read depends on     *)
(* where the UI thread is, and what the UI thread may free on what the     *)
(* callbacks before it did.  IInv says, place by place, what is open.      *)
(***************************************************************************)
EXTENDS V4l2Preview, TLAPS

\* Nothing is open: what a callback starts from, and returns to.
Closed == /\ fd = "none" /\ buffers # "live" /\ queued = 0
          /\ planes["rgb"] # "live" /\ planes["ybuf"] # "live"

\* The camera is set up for a loop.
Streaming == fd # "none" /\ buffers = "live" /\ PlanesUsable

Preparing == {"open", "init", "start", "planes", "resetStop", "resetUninit",
              "resetClose", "resetted", "failed", "prepared"}

\* Where a loop may be, and what it can count on there.
LoopInv ==
    loop # "exited" => /\ ui \in {"idle", "destroy", "waiting"}
                       /\ cameraExists
                       /\ Streaming
                       /\ ui = "idle" => surface
                       /\ mDeviceMsg = "ok"

\* The request to stop: who raised it waits, and goes on only when the loop is out.
StopInv ==
    /\ shouldStop => ui = "waiting"
    /\ ui = "waiting" /\ ~shouldStop => loop = "exited"

\* What the last surfaceCreated found, and what there is to close for that.
ResultInv ==
    /\ ui \in Preparing => surface
    /\ surface /\ ui \in {"destroy", "waiting", "stop", "uninit", "close", "free"}
          => mDeviceMsg = "error"
    /\ surface /\ ui = "idle" /\ mDeviceMsg = "ok" => loop # "exited" \/ fault # "none"
    /\ ui = "destroy" /\ mDeviceMsg = "ok" => loop # "exited"
    /\ ui = "waiting" /\ mDeviceMsg = "ok" /\ shouldStop => loop # "exited"
    /\ ui \in {"waiting", "stop", "uninit"} /\ mDeviceMsg = "ok"
          => buffers = "live" /\ PlanesUsable
    /\ ui \in {"close", "free"} /\ mDeviceMsg = "ok" => PlanesUsable
    /\ ui \in {"resetClose", "resetted"} => buffers = "freed"
    /\ ui = "resetted" => fd = "none"
    /\ DanglingNeedsError

\* What is open at each place of the UI thread, as long as nothing went wrong.
NoPlanes == planes["rgb"] # "live" /\ planes["ybuf"] # "live"

PlaceInv ==
    fault = "none" =>
        /\ ui = "idle" /\ loop = "exited" => Closed
        /\ ui = "open" => Closed
        /\ ui = "init" => fd # "none" /\ buffers # "live" /\ NoPlanes
        /\ ui \in {"start", "planes", "resetStop", "resetUninit"}
              => fd # "none" /\ buffers = "live" /\ NoPlanes
        /\ ui \in {"resetClose", "resetted", "failed"} => NoPlanes
        /\ ui = "prepared" => Streaming
        /\ ui \in {"close", "free"} => buffers # "live"
        /\ ui = "free" => fd = "none" /\ queued = 0

\* The driver holds no more buffers than there are, and one less while the loop has one.
QueueInv ==
    /\ ui \in {"planes", "prepared"} \/ loop # "exited" => queued <= n_buffers
    /\ loop = "frame" => queued < n_buffers

IInv == TypeOK /\ NothingOrphaned /\ LoopInv /\ StopInv /\ ResultInv /\ PlaceInv /\ QueueInv

-----------------------------------------------------------------------------

\* A new process is well typed.
LEMMA InitTypes == Init => TypeOK
<1>1. Init => DeviceTypeOK
  <2>1. DeviceInit => DeviceTypeOK
    BY MaxBuffersAssumption
    DEF DeviceInit, Loaded, DeviceTypeOK, Pointer, Fault
  <2> QED
    BY <2>1 DEF Init
<1>2. Init => ui \in UiPlaces /\ loop \in LoopPlaces
  BY DEF Init, Started, UiPlaces, LoopPlaces
<1> QED
  BY <1>1, <1>2 DEF Init, Started, TypeOK

\* A new process satisfies the invariant.
LEMMA InitIInv == Init => IInv
<1> SUFFICES ASSUME Init PROVE IInv
  OBVIOUS
<1> USE DEF Init, DeviceInit, Loaded, Started
<1>1. NothingOrphaned
  BY DEF NothingOrphaned, Count
<1>2. LoopInv /\ StopInv /\ ResultInv /\ PlaceInv /\ QueueInv
  BY DEF LoopInv, StopInv, ResultInv, PlaceInv, QueueInv, Closed, DanglingNeedsError, Preparing
<1> QED
  BY <1>1, <1>2, InitTypes DEF IInv

\* The steps of prepareCamera, down to a camera that streams or one that failed.
LEMMA PrepareStep ==
    ASSUME IInv, fault = "none",
           PrepareOpen \/ PrepareInit \/ PrepareStart \/ PreparePlanes
    PROVE  IInv'
<1> USE MaxBuffersAssumption
        DEF IInv, TypeOK, DeviceTypeOK, UiPlaces, LoopPlaces, Pointer, Fault,
            NothingOrphaned, Count, LoopInv, StopInv, ResultInv, PlaceInv, QueueInv,
            Closed, Streaming, NoPlanes, PlanesUsable, DanglingNeedsError, Preparing,
            Goto, LoopGoto, device, globals, held
<1>1. CASE PrepareOpen
  <2>1. CASE Goto("open", "init") /\ OpenDeviceOk
    BY <2>1 DEF OpenDeviceOk
  <2>2. CASE Goto("open", "failed") /\ OpenDeviceFails
    BY <2>2 DEF OpenDeviceFails
  <2> QED
    BY <1>1, <2>1, <2>2 DEF PrepareOpen
<1>2. CASE PrepareInit
  <2>1. CASE Goto("init", "start") /\ InitDeviceOk
    BY <2>1 DEF InitDeviceOk, InitMmapOk
  <2>2. CASE Goto("init", "failed") /\ InitDeviceFails
    BY <2>2 DEF InitDeviceFails, InitMmapFails
  <2>3. CASE Goto("init", "failed") /\ InitDeviceNotACamera
    BY <2>3 DEF InitDeviceNotACamera
  <2> QED
    BY <1>2, <2>1, <2>2, <2>3 DEF PrepareInit
<1>3. CASE PrepareStart
  <2>1. CASE Goto("start", "planes") /\ StartCapturingOk
    BY <2>1 DEF StartCapturingOk
  <2>2. CASE Goto("start", "resetStop") /\ StartCapturingFails
    BY <2>2 DEF StartCapturingFails
  <2> QED
    BY <1>3, <2>1, <2>2 DEF PrepareStart
<1>4. CASE PreparePlanes
  BY <1>4 DEF PreparePlanes, AllocatePlanes
<1> QED
  BY <1>1, <1>2, <1>3, <1>4

\* The clean-up of a camera that did not start.
LEMMA ResetStep ==
    ASSUME IInv, fault = "none",
           PrepareReset \/ CameraPrepared \/ CameraFailed
    PROVE  IInv'
<1> USE MaxBuffersAssumption
        DEF IInv, TypeOK, DeviceTypeOK, UiPlaces, LoopPlaces, Pointer, Fault,
            NothingOrphaned, Count, LoopInv, StopInv, ResultInv, PlaceInv, QueueInv,
            Closed, Streaming, NoPlanes, PlanesUsable, DanglingNeedsError, Preparing,
            Goto, LoopGoto, device, globals, held
<1>1. CASE PrepareReset
  <2>1. CASE Goto("resetStop", "resetUninit") /\ StopCapturing
    BY <2>1 DEF StopCapturing
  <2>2. CASE Goto("resetUninit", "resetClose") /\ UninitDevice
    BY <2>2 DEF UninitDevice
  <2>3. CASE Goto("resetClose", "resetted") /\ CloseDevice
    BY <2>3 DEF CloseDevice
  <2>4. CASE Goto("resetted", "failed") /\ UNCHANGED device
    BY <2>4
  <2> QED
    BY <1>1, <2>1, <2>2, <2>3, <2>4 DEF PrepareReset
<1>2. CASE CameraPrepared
  BY <1>2 DEF CameraPrepared
<1>3. CASE CameraFailed
  BY <1>3 DEF CameraFailed
<1> QED
  BY <1>1, <1>2, <1>3

\* The steps of stopCamera, which no loop runs beside.
LEMMA StopStep ==
    ASSUME IInv, fault = "none",
           RequestStop \/ Stopped \/ StopCamera
    PROVE  IInv'
<1> USE MaxBuffersAssumption
        DEF IInv, TypeOK, DeviceTypeOK, UiPlaces, LoopPlaces, Pointer, Fault,
            NothingOrphaned, Count, LoopInv, StopInv, ResultInv, PlaceInv, QueueInv,
            Closed, Streaming, NoPlanes, PlanesUsable, DanglingNeedsError, Preparing,
            Goto, LoopGoto, device, globals, held
<1>1. CASE RequestStop
  <2>1. CASE cameraExists
    BY <1>1, <2>1 DEF RequestStop
  <2>2. CASE ~cameraExists
    BY <1>1, <2>2 DEF RequestStop
  <2> QED
    BY <2>1, <2>2
<1>2. CASE Stopped
  BY <1>2 DEF Stopped
<1>3. CASE StopCamera
  <2>1. CASE Goto("stop", "uninit") /\ StopCapturing
    BY <2>1 DEF StopCapturing
  <2>2. CASE Goto("uninit", "close") /\ UninitDevice
    BY <2>2 DEF UninitDevice
  <2>3. CASE Goto("close", "free") /\ CloseDevice
    BY <2>3 DEF CloseDevice
  <2>4. CASE Goto("free", "idle") /\ FreePlanes
    BY <2>4 DEF FreePlanes
  <2> QED
    BY <1>3, <2>1, <2>2, <2>3, <2>4 DEF StopCamera
<1> QED
  BY <1>1, <1>2, <1>3

\* The steps of the loop, which keeps the camera it was started on.
LEMMA LoopStep ==
    ASSUME IInv, fault = "none",
           LoopTop \/ SelectReady \/ SelectTimeout \/ DequeueFrame \/ DequeueFails
              \/ RequeueFrame \/ RequeueFails \/ PixelToBmp \/ CheckStop
    PROVE  IInv'
<1> USE MaxBuffersAssumption
        DEF IInv, TypeOK, DeviceTypeOK, UiPlaces, LoopPlaces, Pointer, Fault,
            NothingOrphaned, Count, LoopInv, StopInv, ResultInv, PlaceInv, QueueInv,
            Closed, Streaming, NoPlanes, PlanesUsable, DanglingNeedsError, Preparing,
            Goto, LoopGoto, device, globals, held
<1>1. CASE LoopTop
  BY <1>1 DEF LoopTop
<1>2. CASE SelectReady
  BY <1>2 DEF SelectReady
<1>3. CASE SelectTimeout
  BY <1>3 DEF SelectTimeout
<1>4. CASE DequeueFrame
  BY <1>4 DEF DequeueFrame, Dequeue
<1>5. CASE DequeueFails
  BY <1>5 DEF DequeueFails
<1>6. CASE RequeueFrame
  BY <1>6 DEF RequeueFrame, Requeue
<1>7. CASE RequeueFails
  BY <1>7 DEF RequeueFails
<1>8. CASE PixelToBmp
  BY <1>8 DEF PixelToBmp, CopyToBitmap, CopyToUnlockedBitmap
<1>9. CASE CheckStop
  BY <1>9 DEF CheckStop
<1> QED
  BY <1>1, <1>2, <1>3, <1>4, <1>5, <1>6, <1>7, <1>8, <1>9

\* What holds of a new process holds of the one that replaces it.
LEMMA RestartIInv == Init' => IInv'
  BY InitIInv, PTL

\* The callbacks, the wait, the USB port and the end of the process.
LEMMA OtherStep ==
    ASSUME IInv, (Callback /\ fault = "none") \/ Environment \/ ProcessDeath \/ UNCHANGED vars
    PROVE  IInv'
<1> USE MaxBuffersAssumption
        DEF IInv, TypeOK, DeviceTypeOK, UiPlaces, LoopPlaces, Pointer, Fault,
            NothingOrphaned, Count, LoopInv, StopInv, ResultInv, PlaceInv, QueueInv,
            Closed, Streaming, NoPlanes, PlanesUsable, DanglingNeedsError, Preparing,
            device, globals, held
<1>1. CASE Callback /\ fault = "none"
  <2>1. CASE SurfaceCreated
    BY <1>1, <2>1 DEF SurfaceCreated
  <2>2. CASE SurfaceDestroyed
    BY <1>1, <2>2 DEF SurfaceDestroyed
  <2> QED
    BY <1>1, <2>1, <2>2 DEF Callback
<1>2. CASE Environment
  <2>1. CASE Unplug
    <3>1. /\ present' \in BOOLEAN
          /\ fd' \in {"none", "open", "stale"}
          /\ fd' = "none" <=> fd = "none"
      BY <2>1 DEF Unplug
    <3>2. UNCHANGED <<buffers, n_buffers, planes, held, fault>>
      BY <2>1 DEF Unplug
    <3>3. UNCHANGED <<ui, loop, surface, cameraExists, shouldStop, mDeviceMsg>>
      BY <1>2 DEF Environment
    <3> QED
      BY <3>1, <3>2, <3>3
  <2>2. CASE Plug
    BY <1>2, <2>2 DEF Environment, Plug
  <2> QED
    BY <1>2, <2>1, <2>2 DEF Environment
<1>3. CASE ProcessDeath
  <2>1. Init'
    <3>1. present' \in BOOLEAN
      BY <1>3 DEF ProcessDeath, Unload, Reload
    <3>2. Loaded'
      BY <1>3 DEF ProcessDeath, Unload, Reload, Loaded
    <3>3. Started'
      BY <1>3 DEF ProcessDeath, Started
    <3> QED
      BY <3>1, <3>2, <3>3 DEF Init, DeviceInit
  <2> QED
    BY <2>1, RestartIInv
<1>4. CASE UNCHANGED vars
  BY <1>4 DEF vars
<1> QED
  BY <1>1, <1>2, <1>3, <1>4

\* The invariant is inductive.
LEMMA StepIInv == IInv /\ [Next]_vars => IInv'
<1> SUFFICES ASSUME IInv, [Next]_vars PROVE IInv'
  OBVIOUS
<1>1. CASE UiThread
  BY <1>1, PrepareStep, ResetStep, StopStep DEF UiThread
<1>2. CASE LoopThread
  BY <1>2, LoopStep DEF LoopThread
<1>3. CASE Callback \/ Environment \/ ProcessDeath \/ UNCHANGED vars
  BY <1>3, OtherStep DEF Callback
<1> QED
  BY <1>1, <1>2, <1>3 DEF Next

\* The inductive invariant holds in every behaviour.
THEOREM Invariance == Spec => []IInv
  BY InitIInv, StepIInv, PTL DEF Spec

-----------------------------------------------------------------------------

\* Every variable keeps its type: in particular the driver never holds more buffers than
\* startcapturing queued, and no count of what is held goes below zero.
THEOREM TypeCorrect == Spec => []TypeOK
<1>1. IInv => TypeOK
  BY DEF IInv
<1> QED
  BY <1>1, Invariance, PTL

\* The loop never works on a descriptor, a buffer or a plane that stopCamera has taken
\* away, for any number of surfaces, failures and unplugged cameras.
THEOREM ReaderIsSafe == Spec => []ReaderSafe
<1>1. IInv => ReaderSafe
  BY DEF IInv, LoopInv, NothingOrphaned, ReaderSafe, Reading, Streaming, BuffersUsable
<1> QED
  BY <1>1, Invariance, PTL

\* The library, which has no lock, is never entered by two threads.
THEOREM OneReader == Spec => []SingleReader
<1>1. IInv => SingleReader
  BY DEF IInv, LoopInv, SingleReader
<1> QED
  BY <1>1, Invariance, PTL

\* A session leaves no descriptor, mapping, queued buffer, heap block, thread or request
\* to stop behind.
THEOREM NothingIsHeld == Spec => []NothingHeld
<1>1. IInv => NothingHeld
  <2> SUFFICES ASSUME IInv, ui = "idle", ~surface, fault = "none"
               PROVE  /\ openFds = 0 /\ mapped = 0 /\ queued = 0 /\ blocks = 0
                      /\ loop = "exited" /\ ~shouldStop
    BY DEF NothingHeld
  <2>1. loop = "exited" /\ ~shouldStop
    BY DEF IInv, LoopInv, StopInv
  <2>2. Closed
    BY <2>1 DEF IInv, PlaceInv
  <2> QED
    BY <2>1, <2>2 DEF IInv, NothingOrphaned, Closed, Count
<1> QED
  BY <1>1, Invariance, PTL

\* What the process holds, it can still give back.
THEOREM NothingIsOrphaned == Spec => []NothingOrphaned
<1>1. IInv => NothingOrphaned
  BY DEF IInv
<1> QED
  BY <1>1, Invariance, PTL

\* The pointers that stopCamera leaves dangling are only used after a failed surfaceCreated.
THEOREM DanglingIsExplained == Spec => []DanglingNeedsError
<1>1. IInv => DanglingNeedsError
  BY DEF IInv, ResultInv
<1> QED
  BY <1>1, Invariance, PTL

\* surfaceDestroyed never waits for a loop that is not there, when the camera was prepared.
THEOREM WaitIsForALoop == Spec => []WaitHasLoop
<1>1. IInv => WaitHasLoop
  BY DEF IInv, ResultInv, WaitHasLoop
<1> QED
  BY <1>1, Invariance, PTL

-----------------------------------------------------------------------------
(* What the comments say, and when the code does not do it. *)

\* Only RequestStop begins a wait, and only the end of the loop lowers the flag.
LEMMA WaitBegins ==
    ASSUME IInv, [Next]_vars, ui' = "waiting", shouldStop', loop' = "exited"
    PROVE  RequestStop \/ (ui = "waiting" /\ shouldStop /\ loop = "exited")
<1>1. CASE UiThread
  BY <1>1 DEF UiThread, PrepareOpen, PrepareInit, PrepareStart, PreparePlanes, PrepareReset,
              CameraPrepared, CameraFailed, Stopped, StopCamera, Goto
<1>2. CASE LoopThread
  BY <1>2 DEF LoopThread, LoopTop, SelectReady, SelectTimeout, DequeueFrame, DequeueFails,
              RequeueFrame, RequeueFails, PixelToBmp, CheckStop, LoopGoto, IInv, LoopInv
<1>3. CASE Callback
  BY <1>3 DEF Callback, SurfaceCreated, SurfaceDestroyed
<1>4. CASE Environment
  BY <1>4 DEF Environment
<1>5. CASE ProcessDeath
  BY <1>5 DEF ProcessDeath
<1>6. CASE UNCHANGED vars
  BY <1>6 DEF vars
<1> QED
  BY <1>1, <1>2, <1>3, <1>4, <1>5, <1>6 DEF Next

\* surfaceDestroyed waits for a loop that exists exactly in the behaviours in which nobody
\* stops a camera that failed after an earlier one had been prepared (CameraFailed, which
\* leaves cameraExists as it is, and RequestStop).
THEOREM FailedCameraWaits == Spec => ([]WaitingForThread <=> [][~AsksNobody]_vars)
<1>1. IInv /\ AsksNobody => ~WaitingForThread'
  BY DEF IInv, LoopInv, AsksNobody, RequestStop, WaitingForThread
<1>2. IInv /\ [Next]_vars /\ WaitingForThread /\ ~AsksNobody => WaitingForThread'
  <2> SUFFICES ASSUME IInv, [Next]_vars, WaitingForThread, ~AsksNobody,
                      ui' = "waiting", shouldStop', loop' = "exited"
               PROVE  FALSE
    BY DEF WaitingForThread
  <2>1. RequestStop
    BY WaitBegins DEF WaitingForThread
  <2>2. cameraExists /\ loop = "exited"
    BY <2>1 DEF RequestStop, IInv, StopInv
  <2>3. mDeviceMsg = "error"
    BY <2>1, <2>2 DEF RequestStop, IInv, TypeOK, ResultInv
  <2> QED
    BY <2>1, <2>2, <2>3 DEF AsksNobody
<1>3. Init => WaitingForThread
  BY DEF Init, Started, WaitingForThread
<1>4. UNCHANGED vars => ~AsksNobody
  BY DEF vars, AsksNobody, RequestStop
<1> QED
  BY <1>1, <1>2, <1>3, <1>4, Invariance, PTL DEF Spec

\* A wait for a loop that does not exist ends with the process only.
THEOREM WaitIsForGood == Spec => WaitsForGood
<1>1. [Next]_vars => [(ui = "waiting" /\ shouldStop /\ loop = "exited")
                          => UNCHANGED <<ui, shouldStop, loop>> \/ ProcessDeath]_vars
  <2> SUFFICES ASSUME Next, ui = "waiting", shouldStop, loop = "exited", ~ProcessDeath
               PROVE  UNCHANGED <<ui, shouldStop, loop>>
    OBVIOUS
  <2>1. ~UiThread
    BY DEF UiThread, PrepareOpen, PrepareInit, PrepareStart, PreparePlanes, PrepareReset,
           CameraPrepared, CameraFailed, RequestStop, Stopped, StopCamera, Goto
  <2>2. ~LoopThread
    BY DEF LoopThread, LoopTop, SelectReady, SelectTimeout, DequeueFrame, DequeueFails,
           RequeueFrame, RequeueFails, PixelToBmp, CheckStop, LoopGoto
  <2>3. ~Callback
    BY DEF Callback, SurfaceCreated, SurfaceDestroyed
  <2> QED
    BY <2>1, <2>2, <2>3 DEF Next, Environment
<1> QED
  BY <1>1, PTL DEF Spec, WaitsForGood

\* A loop that is inside processCamera when its camera is pulled out never comes out again,
\* whatever the UI thread asks of it, so that surfaceDestroyed waits for good
\* (SelectReady, DequeueFails).
THEOREM LoopSpinsForGood == Spec => SpinsForGood
<1>1. IInv /\ [Next]_vars =>
          [(fd = "stale" /\ loop \in {"select", "dequeue"})
              => (fd' = "stale" /\ loop' \in {"select", "dequeue"}) \/ ProcessDeath]_vars
  <2> SUFFICES ASSUME IInv, Next, fd = "stale", loop \in {"select", "dequeue"}, ~ProcessDeath
               PROVE  fd' = "stale" /\ loop' \in {"select", "dequeue"}
    OBVIOUS
  <2>1. CASE UiThread
    <3>1. ui \in {"idle", "destroy", "waiting"} /\ (ui = "waiting" => shouldStop)
      BY DEF IInv, LoopInv, StopInv
    <3>2. RequestStop
      BY <2>1, <3>1
      DEF UiThread, PrepareOpen, PrepareInit, PrepareStart, PreparePlanes, PrepareReset,
          CameraPrepared, CameraFailed, Stopped, StopCamera, Goto
    <3> QED
      BY <3>2 DEF RequestStop, device, globals
  <2>2. CASE LoopThread
    BY <2>2
    DEF LoopThread, LoopTop, SelectReady, SelectTimeout, DequeueFrame, Dequeue, DequeueFails,
        RequeueFrame, RequeueFails, PixelToBmp, CheckStop, LoopGoto, device, globals
  <2>3. CASE Callback
    BY <2>3 DEF Callback, SurfaceCreated, SurfaceDestroyed, device, globals
  <2>4. CASE Environment
    BY <2>4 DEF Environment, Unplug, Plug, globals
  <2> QED
    BY <2>1, <2>2, <2>3, <2>4 DEF Next
<1> QED
  BY <1>1, Invariance, PTL DEF Spec, SpinsForGood

\* prepareCamera never resets a device: what it calls so has freed its table, and kept it
\* in buffers for the stopCamera that follows (PrepareReset, UninitDevice).
THEOREM ResetNeverResets == Spec => []ResetDangles
<1>1. IInv => ResetDangles
  BY DEF IInv, ResultInv, ResetDangles
<1> QED
  BY <1>1, Invariance, PTL

-----------------------------------------------------------------------------
(* The refinement. *)

\* A new process has a closed camera and no reader.
LEMMA InitSession == Init => Session!Init
  BY DEF Init, DeviceInit, Loaded, Started, Session!Init

\* The loop going in and out is the reader's; the rest of what a thread does changes the
\* camera, with the reader out, or nothing the session sees.
LEMMA StepSession == IInv /\ [Next]_vars => [Session!Next]_(Session!vars)
<1> SUFFICES ASSUME IInv, [Next]_vars PROVE [Session!Next]_(Session!vars)
  OBVIOUS
<1> USE DEF Session!Next, Session!vars, Session!Change, Session!Open, Session!MakeReady,
            Session!Release, Session!Close, Session!Enter, Session!Leave, Session!Crash,
            Goto, LoopGoto, device, globals, held
<1>1. CASE UiThread
  <2>1. CASE PrepareOpen
    BY <1>1, <2>1 DEF UiThread, IInv, LoopInv, PlaceInv, Closed, PrepareOpen,
                      OpenDeviceOk, OpenDeviceFails
  <2>2. CASE PrepareInit
    BY <1>1, <2>2 DEF UiThread, IInv, LoopInv, PlaceInv, PrepareInit, InitDeviceOk,
                      InitDeviceFails, InitMmapOk, InitMmapFails, InitDeviceNotACamera
  <2>3. CASE PrepareStart \/ PreparePlanes
    BY <2>3 DEF PrepareStart, PreparePlanes, StartCapturingOk, StartCapturingFails,
                AllocatePlanes
  <2>4. CASE PrepareReset
    BY <1>1, <2>4 DEF IInv, LoopInv, PrepareReset, StopCapturing, UninitDevice, CloseDevice
  <2>5. CASE CameraPrepared
    BY <1>1, <2>5 DEF UiThread, IInv, LoopInv, PlaceInv, Streaming, CameraPrepared
  <2>6. CASE CameraFailed \/ RequestStop \/ Stopped
    BY <2>6 DEF CameraFailed, RequestStop, Stopped
  <2>7. CASE StopCamera
    BY <1>1, <2>7 DEF IInv, LoopInv, StopCamera, StopCapturing, UninitDevice, CloseDevice,
                      FreePlanes
  <2> QED
    BY <1>1, <2>1, <2>2, <2>3, <2>4, <2>5, <2>6, <2>7 DEF UiThread
<1>2. CASE LoopThread
  <2>1. CASE LoopTop
    BY <2>1 DEF LoopTop
  <2>2. CASE SelectReady \/ SelectTimeout \/ DequeueFrame \/ DequeueFails
    BY <2>2 DEF SelectReady, SelectTimeout, DequeueFrame, DequeueFails, Dequeue
  <2>3. CASE RequeueFrame \/ RequeueFails \/ PixelToBmp
    BY <2>3 DEF RequeueFrame, RequeueFails, PixelToBmp, Requeue, CopyToBitmap,
                CopyToUnlockedBitmap
  <2>4. CASE CheckStop
    BY <2>4 DEF CheckStop
  <2> QED
    BY <1>2, <2>1, <2>2, <2>3, <2>4 DEF LoopThread
<1>3. CASE Callback \/ Environment \/ UNCHANGED vars
  BY <1>3 DEF Callback, SurfaceCreated, SurfaceDestroyed, Environment, Unplug, Plug, vars
<1>4. CASE ProcessDeath
  BY <1>4 DEF ProcessDeath, Unload, Reload
<1> QED
  BY <1>1, <1>2, <1>3, <1>4 DEF Next

\* The preview implements the session: the camera only opens, changes and closes while the
\* loop is out of it.
THEOREM Implementation == Spec => ImplementsSession
<1> QED
  BY InitSession, StepSession, Invariance, PTL DEF Spec, ImplementsSession, Session!Spec

==============================================================================
