# AVDevicesCheck: verification project

AVDevicesCheck is an Android application for TV boxes that tests USB cameras and USB
microphones. It looks for the device nodes of what the user plugs in, tries the devices
through two native libraries (a V4L2 one, and one on a copy of tinyalsa), shows the
picture and plays the sound, and keeps a report that it sends to a server.

This directory holds TLA+ models of it, what TLC checks of them, and what the TLA+ proof
system proves. Paths are relative to the repository; `J/` stands for
`deviceChecker/src/com/example/devicechecker/`, `N/` for `deviceChecker/jni/`.

## 1. Inventory

| Component | Source | State | Operations | Modelled in |
|---|---|---|---|---|
| Native camera library | `N/v4l2/ImageProc.c`, `.h` | globals `fd`, `buffers`, `n_buffers`, `rgb`, `ybuf`; what kernel and heap hold | open, init, mmap, start, dequeue/requeue, stop, unmap, close | `V4l2Device` |
| Camera preview | `J/V4l2Preview.java`, `J/PreviewActivity.java` | `cameraExists`, `shouldStop`, `mDeviceMsg`, the thread `mainLoop` | `surfaceCreated`, `surfaceDestroyed`, `run` | `V4l2Preview`, `CameraSession` |
| Device scan and checks | `J/DeviceScan.java`, `J/DevicePermissionActivity.java` | static flags and names, three lists per kind | two scanning threads, the dialog's button, the native checks | `DeviceScan`, on `V4l2Device` |
| PCM stream | `N/tinyalsa/pcm.c` | `struct pcm`; the kernel's substream | `pcm_open`, `pcm_close`, `pcm_write`, `pcm_read`, `pcm_prepare`, `pcm_start`, `pcm_stop` | `Pcm`, `PcmStream` |
| PCM mapped transfer | `N/tinyalsa/pcm.c` | `hw_ptr`, `appl_ptr`, the mapped ring | `pcm_mmap_write/read/begin/commit/avail` | `PcmRing` |
| Microphone test | `J/TinyAlsaAudio.java`, `N/tinyalsa/TinyAlsaAudio.c` | `CaptureDevice`, `CardId`, `DeviceId`, `capturing`, three threads | scan, check, record, stop, play | `TinyAlsaAudio` (on `Pcm`), `MicrophoneSession` |
| Result file | `J/ResultHandler.java`, `J/MainActivity.java` | `checkResult.txt`, the request in flight | append, send, remove | `ResultFile`, `ReportDelivery` |
| Mixer library | `N/tinyalsa/mixer.c` | `struct mixer`, its arrays and descriptor; the elements' values in the kernel | `mixer_open`, `mixer_close`, `mixer_ctl_set_*`, `mixer_ctl_update` | `Mixer` |
| Android camera previews | `J/CameraPreview.java`, `J/AndroidAVTest.java` | - | - | not modelled |
| Android audio loop-back | `J/AndroidAudio.java`, `J/AudioActivity.java` | - | - | not modelled |
| The rest | wrappers, navigation, headers, resources | - | - | not modelled |

**How they interact.** The activities start threads and share plain (not volatile, not
locked) fields with them. The native libraries keep everything in C globals and have no
lock either: which calls may overlap is decided by the Java side alone. The preview and
the device scan call `ImageProc.c`; the microphone test and the device scan call
`TinyAlsaAudio.c`, which calls `pcm.c`. `mixer.c` and the mapped transfer of `pcm.c` are
built into the same library and called by nothing in the application; they are modelled
as a client that makes any sequence of calls would meet them. Two activities end by
killing the process, so that the next one starts with new globals; only the result file
outlives it.

**What is hard**, and what makes each part correct:

* *Preview.* Two threads, one camera. `surfaceDestroyed` raises `shouldStop` and polls
  it on the UI thread; then it unmaps, closes and frees what the loop was reading. Every
  step of `prepareCamera` may fail and leave the globals in another state, and the
  camera may be pulled out at any moment. Correct: the loop never touches what was taken
  away; a session leaves nothing behind; the wait ends.
* *Scan.* The button's handler lowers the flags and at once reads names that the threads
  may still be writing. Lists are compared by size, an empty one counts as not scanned.
  Correct: what is checked is what was found and what is shown; nothing that was found is
  reported missing; the native check gives back all it took, although the camera may go
  and come back between any two of its calls.
* *PCM stream.* The handle remembers in two flags what it believes of a substream that
  underruns, suspends and disappears on its own; opening fails in a dozen places.
  Correct: everything taken is accounted for; the flags follow the kernel; calls return.
* *Mapped transfer.* Pointer arithmetic modulo a boundary, with the kernel moving its
  pointer between any two steps. Correct: copies stay in the buffer and on frames that
  are available; frames keep their order.
* *Microphone test.* A check and a recording open the same exclusive device one after
  the other, and the user's stop meets a read that blocks. Correct: the device is free
  when it is opened; nothing is left; at most one more buffer; the thread ends;
  what is recorded is what the dialog names.
* *Mixer.* Opening a card makes requests and allocations that may each fail, and one
  clean-up serves them all; it closes a descriptor by a number the handle may not have yet.
  Correct: no block is left; nobody else's descriptor is closed; names are read inside
  their table; only the call that compares nothing puts a value out of its range.
* *Result file.* Reports are appended in one activity and removed in another one, and
  what the application makes of a lost answer, or of one that refuses, need not be what
  the server did. Correct: one report at a time, taken once but where an answer other than
  OK or a crash left that in doubt.

`PROJECT.json` lists each hazard at its line with the properties that would catch it, and
says why where none does.

## 2. Modules

| Module | What it is | Extends |
|---|---|---|
| `V4l2Device` | the globals of `ImageProc.c`, what the process holds, one action per C function and outcome | |
| `V4l2Preview` | UI thread and capture loop as two threads of program places; composes `V4l2Device` | `V4l2Device` |
| `CameraSession` | abstract specification of the preview: a camera and a reader, nothing taken away while the reader is in | |
| `V4l2PreviewProofs` | theorems about `V4l2Preview` | `V4l2Preview` |
| `DeviceScan`, `MCDeviceScan` | the two scanning threads and the handler, which calls the camera library step by step; device nodes for TLC | instance `Camera` of `V4l2Device` |
| `DeviceScanProofs` | theorems about `DeviceScan` | `DeviceScan` |
| `Pcm` | a handle and its substream; calls as sequences of ioctls | |
| `PcmStream` | any client: every call in every order, opens without a config among them; at the same time the abstract specification that every other client implements | `Pcm` |
| `PcmProofs` | the lemmas on types that both clients of `Pcm` need | `Pcm` |
| `PcmStreamProofs` | theorems about `PcmStream` | `PcmStream`, `PcmProofs` |
| `PcmRing`, `PcmRingProofs` | the mapped transfer of a stream that runs; theorems about it | |
| `TinyAlsaAudio`, `MCTinyAlsaAudio` | the microphone test as a client of `Pcm`; two cards for TLC, one of which has a device of two digits and the other a number of two | `Pcm` |
| `MicrophoneSession` | abstract specification of the microphone test: one holder of the device at a time, one more buffer after the request to stop | |
| `TinyAlsaAudioProofs` | theorems about `TinyAlsaAudio` | `TinyAlsaAudio`, `PcmProofs` |
| `Mixer`, `MCMixer` | handles of the mixer library in a process with other descriptors; two ranges for TLC | |
| `MixerProofs` | theorems about `Mixer` | `Mixer` |
| `ResultFile`, `ResultFileProofs` | the file, the two activities and the server; theorems about it | |
| `ReportDelivery` | abstract specification of the result file: reports on their way, delivered once, lost, or back in doubt | |

Conventions. Variables have the names of the fields they stand for; a thread's place is a
variable of its own (`ui`, `loop`, `scan`, `recorder`, `place`). An action is one step
that no other thread can interrupt as far as the shared state goes: one C function of the
camera library, one ioctl of a stream, one access to a shared field. A function that may
fail has an action, or a disjunct, per outcome, since its callers branch on it.
Definitions marked *Variant* are plausible mistakes in the definition that follows them;
no specification uses them, they serve to show that the properties notice.

**`V4l2Device`.** `buffers`, `rgb` and `ybuf` are pointers that are null, live or freed,
because the code never resets them. `openFds`, `mapped`, `blocks` and `queued` are the
kernel's and the heap's side of the account and are not in the code. `fd = "stale"` is an
open descriptor of a camera pulled out. Undefined behaviour sets `fault`, after which
only the death of the process is possible: a freed or null table that is walked
(`UninitDevice`), a freed plane (`FreePlanes`), a write into a string constant
(`InitDeviceNotACamera`: `sprintf` at ImageProc.c:97 and 106 gives the format string of
`initdevice`'s message as the buffer to write), a copy
through a pointer that `lockPixels` did not set. `munmap` and `close` of what is mapped
and open do not fail: the early return of `uninitdevice` after such a failure
(ImageProc.c:326-337) is left out.

**`V4l2Preview`.** `ui` goes through `prepareCamera` (`open`, `init`, `start`, `planes`,
or `resetStop` to `resetted`) and through `surfaceDestroyed` (`destroy`, `waiting`,
`stop` to `free`); a failed `prepareCamera` leads into the body of `surfaceDestroyed` as
in the code. `loop` is `run()` with `processCamera` inside (`select`, `dequeue`,
`frame`). `Plug`, `Unplug` and `ProcessDeath` may come at any step.

**`DeviceScan`.** One thread per kind of node. `listFiles` is one step; the loop over the
targets is a step per target, in any order. The handler reads a name in one step, parses
it in a later one and shows it in a third. A name is a record; reading single digits of
it is `FirstDigit`. `checkCameraWithBase` is a sequence of actions of `Camera`, the
instance of `V4l2Device` on the node that was opened: `OpenVideo`, and if that worked
`InitVideo`, `UninitVideo` and `CloseVideo`, whatever `InitVideo` came to. That node may
go (`Camera!Unplug`) and come back (`Camera!Plug`) at every step; a fault of the library
leaves only the death of the process to the handler.

**`Pcm`, `PcmStream`.** Frames are counted in periods. `call`, `place`, `asked`, `left`
and `result` are the activation of one library call; `substream` and `delay` are the
kernel's. `mmap_buffer = "unmapped"` is the address that a failed `pcm_open` leaves in
the handle. A `pcm_open` that fails before it has a handle to give answers `&bad_pcm`
(`BadHandle`): without memory nothing is taken, without a config the struct is allocated
and lost. `leaked` counts these blocks (`Leak` is `PcmStream`'s alone, since the
application always gives a config).

**`PcmRing`.** `in` and `out` count the frames that have gone into and out of the ring
and number its contents; they are not in the code and no guard of the code's actions
uses them but the bound on how much is written. `Surplus` is what
`pcm_get_htimestamp` answers too many. `PCM_IN` is the flag of the stream, fixed
by `Init`: one module has both directions, as the C functions do.

**`TinyAlsaAudio`.** The scanning thread is the one of `DeviceScan` for `/dev/snd`, with
its lists abstracted to the difference between two of them. `parsePCMID` reads the
characters 4 and 6 of the name: the first digit of the card (`FirstDigit`), and, if the
card has one digit, the first of the device; otherwise that character is no digit of it,
`parseInt` throws, and only the death of the process is left. `lost` and `late` are counts
that the code does not have. `alsaAudioThread` is the client of the stream, the handler's
check another one. In `MicrophoneSession`, `holder` is the one of them whose descriptor
is open, and `more` is `late`. `Stream` is the instance of `PcmStream` on the variables of
the stream: the application implements it, so that it meets no order of calls and failures
but those that `PcmStream` has, and what holds of every client (`Accounted`,
`FlagsFollow`, `NoRestart`, `OnlyRestartsDelay`) holds of its stream.

**`Mixer`.** `table` says whom a descriptor number belongs to, `heap` which blocks are
allocated, named by what they are for; neither is in the code, which closes and frees by
number and pointer. Between `"card"` and `"elements"` the handle's own `fd` is still the
0 of `calloc`, and `Fail` closes that one. `stale` is raised when `mixer_ctl_update` finds
another number of items than names were copied; from then on `mixer_close` and the search
for a name run over the table (`broken`). Percents are computed in `int`s of `IntMax`
(`Wrap`): an overflow, undefined in C, wraps as on the devices it is built for, where
a `long` is as wide as an `int`. `SetArray` is a caller of `mixer_ctl_set_array` with
any `Values`; another process (`OutsideSets`) keeps to the range, which the kernel's driver
sees to or not. The library is used by one thread (`Idle`), the
rest of the process opens and closes descriptors at any time.

**`ResultFile`.** A report is the number of its check and whether it was written
completely. `server` is the server's side, `doubtful` what it took and the file kept.
Whether the server takes the report (`Send`, `SendError`) and what it answers are
independent: only the answer SC_OK removes the file, and any other, or an exception, keeps
it. `delete()` does what it is asked (ResultHandler.java:127 does not look).
The request and its answer block
the UI thread, so the activity cannot be left between them; the process can die. In
`ReportDelivery`, `pending` is what is in the file and the server has not taken: a report
that waits for its answer is delivered already, and an answer other than SC_OK, or the
death of the process, brings it back as `doubtful` (`Return`).

## 3. Runs

Every run is one question. Worker count and time are those of a small machine.

| Run | Module, cfg | Expected | What it shows |
|---|---|---|---|
| `preview` | `V4l2Preview`, `MCV4l2Preview.cfg` | pass | the two threads never collide, nothing leaks, the wait ends while the camera delivers, `CameraSession` is implemented |
| `preview_no_thread` | `MCV4l2PreviewNoThread.cfg` | violation | the UI thread waits for a thread that does not exist |
| `preview_thread_stops` | `MCV4l2PreviewThreadStops.cfg` | violation | with the camera pulled out the loop never sees the request to stop |
| `preview_reset` | `MCV4l2PreviewReset.cfg` | violation | the device that was "resetted" keeps a freed table |
| `scan` | `MCDeviceScan`, `MCDeviceScan.cfg` | pass | names read again are still there; shown is what was checked; the native check leaves nothing behind; "not found" is final; a lasting change is found |
| `scan_base` | `MCDeviceScan`, `MCDeviceScanBase.cfg` | violation | the node that is checked is not the one that was found |
| `stream` | `PcmStream`, `MCPcmStream.cfg` | pass | whatever is opened is accounted for but the block of an open without a config; flags follow, no restart where none is allowed, every call returns |
| `ring` | `PcmRing`, `MCPcmRing.cfg` | pass | in both directions: copies stay in the buffer, take what is available and keep the order, over several wraps (playback: until its pointer wraps); a time stamp comes with the right count, none, or between the two wraps of a playback stream one boundary too many; a transfer to a card that plays ends |
| `ring_wrap` | `PcmRing`, `MCPcmRingWrap.cfg` | violation | with a full ring and one pointer wrapped, frames that were not played are overwritten |
| `microphone` | `MCTinyAlsaAudio`, `MCTinyAlsaAudio.cfg` | pass | the device is free when opened, nothing is left, what is recorded is what the dialog names, as far as its name is parsed, `MicrophoneSession` (one more buffer at most) and `PcmStream` are implemented, the thread ends |
| `mixer` | `MCMixer`, `MCMixer.cfg` | pass | no block is left, nobody closes another's descriptor as long as none is lost, only an open that fails early loses one, names are read in their table, only `mixer_ctl_set_array` puts values out of their range |
| `result` | `ResultFile`, `MCResultFile.cfg` | pass | one report at a time; `ReportDelivery` is implemented: only the last report is delivered, and none twice but one that came back after a crash or an answer other than SC_OK |

### Bounds

| Constant | Value | Why it is enough |
|---|---|---|
| `MaxBuffers` | 3 (2 in the violations and in `scan`) | the driver grants 2 or 3 buffers, so a partial mapping, a partial queueing and losing buffers one by one all happen; the code asks for 4. Sessions, failures and unplugs are not bounded |
| `PcmNodes` | one microphone with a node to capture and one to play | the filter on capture nodes matters |
| `VideoNodes` | `video0` and `video10` (five nodes in `scan_base`) | two targets at once, a number of two digits; five nodes for the base 4 |
| `MaxChanges` | 3 (1) | a node comes, goes while the library works on it, and comes back during the check; or two come at once; beside any initial set of nodes |
| `Periods` | 3 in `stream`, 2 in `microphone` | a write of less than half a buffer does not start the stream, one of more does; transfers of up to one buffer and a period |
| `MaxLeaked` | 1 | a block is lost before, between and after the opens that work; a second one is like the first |
| `StopBuffers` | 2 | the code has 10; two are enough for an overrun inside a read and between reads |
| `BufferSize`, `Boundary` | 3 and 9 (2 and 4 in `ring_wrap`) | transfers of up to two buffers that start at every place; both pointers wrap more than twice within `MaxFrames` 24. `StopThreshold` 7 lets a capture stream overrun its ring and go on |
| `Handles`, `FdCount` | 2 and 4 | two handles and another descriptor beside the one the process starts with, so that numbers are freed and taken again by somebody else |
| `Elements`, `Enumerated`, `MaxItems`, `Channels` | 2 each | an element before the ENUMERATED one and a failure at each; items that grow under an open handle; an array written in part |
| `Ranges`, `Percents`, `Values` | -22..0 and 0..100; 100 and 101; 1 | a range that holds -EINVAL, and one whose percents overflow; a percent that is none; a value that is out of the first range and in the second, for `mixer_ctl_set_value` and `mixer_ctl_set_array` |
| `IntMax` | 4095 | 100 times the width of the second range is more, of the first not |
| `CaptureNodes` | card 1 device 10, card 10 device 0 | two targets, to confuse card and device of one with those of the other; two digits in either place |
| `MaxChecks` | 3 | a report, another one after a loss, and one after that |

`MaxFrames`, `MaxChanges`, `MaxChecks`, `MaxLeaked`, `FdCount` and `MaxItems` bound
counters in the guards of the environment (or of the number of transfers), never
a step of the code in progress. The two `ring` runs say
`CHECK_DEADLOCK FALSE` because a stream ends with `MaxFrames`; all others check for
deadlock. `mixer` treats the two handles as symmetric, with safety properties only.

### Fairness

* `V4l2Preview`: weak fairness of the two threads, since the system schedules them; the
  polling loop and `select` are steps that stay enabled. Strong fairness of
  `DequeueFrame`: a camera that is plugged in and has buffers to fill hands out a frame
  now and then, although `select` may time out and ioctls fail in between. No callback,
  unplugging or death has to happen, and `WaitEnds` makes no promise for a camera that is
  gone or has no buffers left.
* `DeviceScan`: weak fairness of each scanning thread and of the handler once the button
  is pressed. The user, the nodes and the process do what they like.
* `PcmRing`: weak fairness of the application and of the card's clock.
* `PcmStream`, `TinyAlsaAudio`: weak fairness of the call in progress and of the clocks;
  strong fairness of the step that moves a period, because a stream that underruns and is
  restarted again and again, or is interrupted by signals, still runs in between. Without
  it a write could be starved by an underrun in every round.

### Findings

Five statements of comments and log messages that the code does not keep; each has a run
whose counterexample shows it, and an entry under `findings` that quotes the line.

1. `surfaceDestroyed` "wait for thread stopping", no thread (`WaitingForThread`):
   `cameraExists` is never lowered, so that a second surface whose camera fails waits
   forever on the UI thread. *Exactly then* (theorem `FailedCameraWaits`): the property
   holds in the behaviours in which nobody gives up a surface whose camera failed after
   an earlier one had worked (`AsksNobody`), and in no others. Only the death of the
   process ends the wait (`WaitIsForGood`).
2. The same wait with the camera pulled out (`ThreadStops`): `readframeonce` spins
   between `select` and a failing `VIDIOC_DQBUF`. That the loop never leaves those two
   steps, whatever is asked of it and whether or not the camera comes back, is theorem
   `LoopSpinsForGood`.
3. "device resetted" (`DeviceResetted`): `uninitdevice` leaves `buffers` and `n_buffers`,
   the `stopCamera` that follows frees the table again. It happens every time a device
   that does not start is "resetted" (`ResetNeverResets`).
4. "/dev/videox (x=cameraId+cameraBase)" (`CheckedNodeIsFound`): the base passed to
   `checkCameraWithBase` is not a parameter of the C function; the one it computes is
   added to a number that is already absolute. *Exactly* (`AnotherIsChecked`) when a
   camera is checked while `video0` to `video3` are all there, or one whose number has
   two digits, of which `checkVideoPermission` reads the first (`AsksForAnother`).
5. "we can only copy frames if the are availabale" (`OnlyAvailable`): `appl_ptr` wraps
   when it exceeds the boundary, the correction of `avail` does not match it, and a full
   ring looks empty for as long as only one pointer has wrapped. *Exactly then*
   (`FullRingsFool`): a round of `pcm_mmap_transfer` asks for more than is available in
   the behaviours with such a look (`LooksAtFullRing`), and in no others. Without one, a
   playback stream overwrites only what was played, plays in order, and transfers come
   to their end, over any number of wraps of both pointers (`OnlyFullRingsFool`,
   `TransfersComeToAnEnd`). After one, TLC also finds a grant of no frames, with which the
   `while (size > 0)` of `pcm_mmap_transfer_areas` spins until the card has played.

The passing runs state the strongest form that does hold beside these: `WaitHasLoop`,
`WaitEnds` and `DanglingNeedsError` for the preview, `GrantAvailable` and `FramesInOrder`
with `Wrapped` for the ring.

## 4. Proofs

TLAPS checks these for every value of the constants that satisfies the named assumptions
(`MaxBuffersAssumption`, `PcmRingAssumption`, `PeriodsAssumption`,
`MaxLeakedAssumption`, `MaxChecksAssumption`, `NodesAssumption`, `BuffersAssumption`,
`CaptureNodesAssumption`, `MixerAssumption`), which TLC evaluates in the runs.

| Module | Theorems | Argument |
|---|---|---|
| `V4l2PreviewProofs` | `TypeCorrect`, `ReaderIsSafe`, `OneReader`, `NothingIsHeld`, `NothingIsOrphaned`, `DanglingIsExplained`, `WaitIsForALoop`, `Implementation`; `FailedCameraWaits`, `WaitIsForGood`, `LoopSpinsForGood`, `ResetNeverResets` | `ReaderSafe` depends on where the UI thread is, and what it may free on what the callbacks before it did. `IInv` says place by place what is open (`PlaceInv`), where a loop can be (`LoopInv`), who raised the flag (`StopInv`), what the last camera left (`ResultInv`) and how many buffers the driver has (`QueueInv`). One lemma per group of actions. `Implementation` maps each step to a step or stutter of `CameraSession`. `FailedCameraWaits` goes both ways: `AsksNobody` refutes `WaitingForThread` at once, since no loop runs beside a camera that failed; and a wait that begins otherwise has a loop, which leaves only by lowering the flag. `LoopSpinsForGood` rests on a pulled-out camera staying `"stale"` to whoever has it open |
| `PcmRingProofs` | `TypeCorrect`, `GrantsAreAvailable`, `TimestampsAreAvailable`, `FramesStayInOrder`; `OnlyFullRingsFool`, `FullRingsFool`, `TransfersComeToAnEnd` | the difference of the pointers is the number of frames in the ring only up to `Boundary`; `CapturePointers` and `PlaybackPointers` say which case holds, and for playback only until its pointer wraps, as finding 5 demands. The order of the frames needs `OrderInv` on top of that: frame j is in place j modulo `BufferSize` (`Captured`, `Queued`), and a copy that is not committed yet counts. Lemmas on remainders carry a wrap of the pointers over to the places. Beyond the wrap, `Sound` is an invariant of the behaviours without `LooksAtFullRing`: the distance of the pointers is what is in the ring, or differs from it by one `Boundary` (`Distance`); what is asked for and granted is then there (`Sizes`), and the places are right (`Playing`). A time stamp is given or not after any number of faults: `Congruent`, that the pointers are as far apart as frames wait but for a multiple of `Boundary`, holds even then, and `TimestampsAreAvailable` shows that of the multiples only none and the one of `Surplus` are left. In the other direction, a look at a full ring finds `Boundary` frames where none is, and asks for some |
| `PcmStreamProofs` | `TypeCorrect`, `AllAccounted`, `FlagsAreRight`, `NeverRestarts`, `CallsComeToAnEnd` | `Handles` says which handle has which pointers, and how many blocks no handle leads to (`leaked`); `Places` what a call can count on at each of its places, for instance that a first write that has moved nothing has not seen the substream run. `CallsComeToAnEnd` gives every call a measure (`StepsLeft`) that each of its steps lowers and nothing raises but the restart after an underrun |
| `ResultFileProofs` | `TypeCorrect`, `LatestOnly`, `SentOnce`, `Implementation` | the dialog of a check is up only in front of an empty file (`Emptied`); the server has no number of a check to come (`Numbered`), and what waits for its answer is what it took (`Waiting`). `SentOnce`: what the server has and the file still holds is `doubtful`, since every other way out of the request removes the file. `Implementation` maps each step to a step or stutter of `ReportDelivery` |
| `DeviceScanProofs` | `TypeCorrect`, `ReadsStay`, `ReportIsChecked`, `MissingIsFinal`, `ChecksLeaveNothing`; `AnotherIsChecked` | a name is a target, and without a name the targets that count are those the thread has not reached (`Found`); what the handler works on are targets (`Asked`), and targets are never taken back, so that two different names are two targets. `Holds` says what the library has at each step of the check: it never walks a freed table there. `AnotherIsChecked` needs only that `CheckVideo` is the one step that opens a camera: the number it opens is the name's as long as `AsksForAnother` does not hold, and another one when it does |
| `TinyAlsaAudioProofs` | `TypeCorrect`, `DeviceIsHandedOn`, `RecordingLeavesNothing`, `RecordedIsNamed`, `Implementation`, `StreamImplementation`, `RecordingComesToAnEnd` | what is held follows from where the two threads are (`Accounts`, `Holders`), where they can be together from what the user has done (`Turns`), and the numbers are first digits of those of targets (`Names`), which `ParseDevice` lets pass for cards of one digit only. `Implementation` maps each step to a step or stutter of `MicrophoneSession`. `StreamImplementation` maps each step to one of `PcmStream`; it needs that whoever opens finds the stream closed (`Closed`, with `IInv`), because the library's client has one handle at a time. `RecordingComesToAnEnd` measures what the recording thread has left to do (`RecorderLeft`) once `capturing` is lowered: its own steps lower it, and nobody raises it but an overrun in the read |
| `MixerProofs` | `TypeCorrect`, `OwnDescriptors`, `LostByFailedOpen`, `EarlyFailuresTake`, `FreesAreVerified`, `NamesAreInTable`, `OnlyArraysLeaveRange`, `PercentsComeBack` | a handle has its descriptor from `"elements"` on, and only descriptor 0 is ever closed by somebody it does not belong to (`DescriptorInv`), so that none is lost without a close of 0 in place of the card's; the blocks of a handle are those of its place, as long as no update found more items (`HeapIs`). `OnlyArraysLeaveRange` needs no more than that `mixer_ctl_set_value` compares what the percent came to, whatever overflowed before, and that it writes back what it had read. `PercentsComeBack` holds for every range 100 times whose width is an `int` (`NoOverflow`): percents come back as no more than was set, and exactly at both ends |

`PcmProofs` has the lemmas that `PcmStreamProofs` and `TinyAlsaAudioProofs` share: the
types of a stream, and that the steps of a call lower `StepsLeft`.

The invariants were first checked by TLC on the instances of the runs.

**Only model-checked:** all liveness (`WaitEnds`, `ChangeIsFound`, `TransferEnds`,
`CallEnds`, `RecordingEnds`), since fairness and ENABLED are beyond the prover here. Of
three of them the theorems have the safety half, that the steps of a call, a transfer or a
recording that was ended lead to its end and nothing undoes them (`CallsComeToAnEnd`,
`TransfersComeToAnEnd`, `RecordingComesToAnEnd`); that the steps are taken, and that an
underrun or overrun does not start them over for ever, is what TLC checks. Every
invariant, action property and refinement of the passing
runs is proved. What recursive definitions compute for all inputs could not be proved
either; the modules contain none.

**Violations and theorems.** That a statement of the code is violated is shown on an
instance; when it is, is proved. A theorem of the form
`Spec => ([]P <=> [][~A]_vars)` says that the step `A` violates `P` whenever it is taken,
and that nothing else ever does: its hypothesis is no restriction of the program but the
condition under which a correction of that one step would suffice.

### What else the models show

Behaviour that no comment denies, so that it is no finding, but that a reader should know:

* `mixer_open` writes the descriptor into the handle only after the requests and
  allocations that may fail (mixer.c:127). An open that fails before closes descriptor 0
  of the process and loses the card's. `DescriptorsAreTheirs` and `LostInOpenOnly` state
  what remains true, and theorem `EarlyFailuresTake` that it is *exactly* such an open
  (`FailsEarly`) that takes from somebody what they opened.
* `percent_to_int` answers -EINVAL for a percent that is none, and
  `mixer_ctl_set_percent` sets that value when the range has it; `int_to_percent` divides
  before it multiplies and answers 0 or 100 only. A range wider than a hundredth of an
  `int` overflows: what is set is then another value of the range, or nothing.
* `mixer_ctl_set_array` compares nothing with the range (mixer.c:440-442), and fills up
  with zeros; the calls for single values do compare (`OnlyArraysStray`).
* `pcm_open` without a config allocates the struct and answers `&bad_pcm`
  (pcm.c:637, "TODO: could support default config here"): the block is lost.
* The microphone test reads single digits of the name it found (TinyAlsaAudio.java:86-87):
  of `pcmC1D10c` it records device 1, although the dialog names device 10, and a card of
  two digits ends the process.
* A report that the server took may be sent once more, not only after a crash but after any
  answer other than SC_OK and after a `ClientProtocolException`; and what such an answer
  shows the user is that it was uploaded.
* `mixer_ctl_update` refreshes the number of items and not their names, after which
  `mixer_close` frees beyond the table (`FreesVerified`, `NamesInTable` hold until then).
* `pcm_get_htimestamp` does not correct for pointers that wrapped (pcm.c:368-373). Between
  the two wraps it refuses to answer for a capture stream that works, and answers a whole
  boundary too many for a playback stream, where asoundlib.h:171-177 promises the number
  of frames available (`TimestampAvailable` is what holds).
* A camera that cannot capture or stream ends the process that checks it
  (`InitDeviceNotACamera`).

## 5. Not modelled

* The pixel conversion and the size of a frame: `V4l2Device` has that the planes are
  written, not with what.
* `checkDeviceAvailable` of the scan in its steps: it is the same C code as the one in
  `TinyAlsaAudio`, where it is modelled; `DeviceScan` has it as one step. `DeviceScan.java`
  declares it with two parameters where the C function reads six, so that rate and period
  size are arbitrary there: the check may come to any result.
* The checks of Android's camera and audio classes, the two Android previews
  (`CameraPreview`, `AndroidAVTest`) and the Android loop-back (`AndroidAudio`): they are
  sequences of calls of platform classes, which are not in the repository, and
  `AndroidAudio.stop` kills the process right after it lowered the flag of its thread, so
  that nothing of the thread's end can be observed. `doAndroidAudioRecord` is commented out
  where it would be called.
* The contents of the recording (`record.pcm` is never closed, and played from another
  path than it is written to), and what the dialogs say (an answer of the server that
  refuses the report is shown as uploaded).
* Starting a stream inside a mapped transfer and the errors of `pcm_wait`; the queries of
  parameters and names in `pcm.c`, `mixer.c`, which change nothing.
* Which item an ENUMERATED element of the mixer is set to, and elements of other types.
* Memory visibility between Java threads beyond interleaving: the fields are not
  volatile, and the models read and write them in order.
* Texts, layouts, logging, navigation between activities.

## 6. Plan

1. *Done:* preview and camera library; scan, composed with the camera library for the
   native check; ring; stream; microphone test on top of the stream, with its abstract
   specification; mixer; result file; proofs of every safety
   property that is checked; when exactly each of the findings bites.
2. Extend `PcmRing` by the start threshold and the error path of `pcm_wait`, which resets
   `appl_ptr`, with `pcm_prepare` putting the kernel's pointer back.
3. The microphone check of the scan as steps of `Pcm`, beside the camera's.
   `TinyAlsaAudio` shows how a client implements `PcmStream`; the scan would do the same.
