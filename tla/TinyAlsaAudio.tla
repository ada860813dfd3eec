--------------------------- MODULE TinyAlsaAudio ---------------------------
(***************************************************************************)
(* The test of a USB microphone: TinyAlsaAudio.java and the native library *)
(* TinyAlsaAudio.c, on the streams of Pcm.                                 *)
(*                                                                         *)
(* The user plugs the microphone in or out and confirms; a thread that     *)
(* compares lists of /dev/snd has by then found its capture node, or has   *)
(* not.  The handler of the button parses the node's name, lets the        *)
(* library open and close it, and starts a thread that records from it     *)
(* until the user presses the button of a second dialog; what was recorded *)
(* is then to be played by a third thread.  All of them meet in plain      *)
(* fields and in the variable capturing of the library.                    *)
(***************************************************************************)
EXTENDS Pcm

CONSTANTS
    CaptureNodes,   \* nodes pcmC<card>D<device>c there may be: records [card, device]
    None            \* null

ASSUME CaptureNodesAssumption ==
    /\ CaptureNodes \subseteq [card : 0..99, device : 0..99]
    /\ None \notin CaptureNodes /\ None \notin 0..9

VARIABLES
    ui,             \* where the UI thread is
    scan,           \* where devicesScanThread is
    doDevicesScan,
    target,         \* the capture nodes in targetScanResult
    todo,           \* those the loop over them has not reached
    CaptureDevice,
    CardId, DeviceId,
    named,          \* the node the recording dialog names
    mDeviceMsg,     \* what checkDeviceAvailable returned
    recorder,       \* where alsaAudioThread is
    capturing,      \* the variable of the library
    buffer,         \* startAudioRecord holds its buffer
    fcapture,
    lost,           \* failed handles that nobody closed
    late,           \* buffers written since capturing was lowered: 0, 1, or 2 for more
    player,         \* where playThread is
    pcmInputStream

scanner == <<scan, target, todo, CaptureDevice>>
checked == <<CardId, DeviceId, named, mDeviceMsg>>
record  == <<buffer, fcapture, late>>
playing == <<player, pcmInputStream>>
vars    == <<stream, ui, doDevicesScan, capturing, recorder, lost,
             scanner, checked, record, playing>>

TypeOK ==
    /\ StreamTypeOK
    /\ ui \in {"dialog", "look", "card", "device", "check", "checkClose", "checkFailed",
               "checked", "name", "recording", "play", "done"}
    /\ scan \in {"test", "list", "pick", "exited"}
    /\ doDevicesScan \in BOOLEAN /\ capturing \in BOOLEAN
    /\ target \subseteq CaptureNodes /\ todo \subseteq target
    /\ CaptureDevice \in CaptureNodes \cup {None} /\ named \in CaptureNodes \cup {None}
    /\ CardId \in 0..9 \cup {None} /\ DeviceId \in 0..9 \cup {None}
    /\ mDeviceMsg \in {"none", "ok", "error"}
    /\ recorder \in {"none", "open", "failed", "malloc", "loop", "read", "free", "close",
                     "exited"}
    /\ buffer \in BOOLEAN
    /\ fcapture \in {"null", "open"} /\ pcmInputStream \in {"null", "open"}
    /\ lost \in 0..2 /\ late \in 0..2
    /\ player \in {"none", "reading", "exited"}

\* A new process, whose activity has called start.
Started ==
    /\ ui = "dialog" /\ scan = "test" /\ doDevicesScan = TRUE
    /\ target = {} /\ todo = {}
    /\ CaptureDevice = None /\ CardId = None /\ DeviceId = None /\ named = None
    /\ mDeviceMsg = "none"
    /\ recorder = "none" /\ capturing = TRUE /\ buffer = FALSE /\ fcapture = "null"
    /\ lost = 0 /\ late = 0
    /\ player = "none" /\ pcmInputStream = "null"

Init == StreamInit /\ Started

-----------------------------------------------------------------------------
(* devicesScanThread. *)

ScanGoto(here, there) == scan = here /\ scan' = there

\* while (doDevicesScan)
ScanTest ==
    /\ ScanGoto("test", IF doDevicesScan THEN "list" ELSE "exited")
    /\ UNCHANGED <<target, todo, CaptureDevice, doDevicesScan>>

\* Without /dev/snd the list of files is null and the thread ends in an exception.
ScanNoPath ==
    /\ ScanGoto("list", "exited")
    /\ UNCHANGED <<target, todo, CaptureDevice, doDevicesScan>>

\* The first list, or one of the same size.
ScanSame ==
    /\ ScanGoto("list", "test")
    /\ UNCHANGED <<target, todo, CaptureDevice, doDevicesScan>>

\* A list of another size, by the nodes in difference; those that play are passed over.
ScanDifferent(difference) ==
    /\ ScanGoto("list", "pick")
    /\ target' = target \cup difference
    /\ todo' = target'
    /\ UNCHANGED <<CaptureDevice, doDevicesScan>>

\* Variant: every node there is, not those in the target list.
ScanPickAny ==
    /\ scan = "pick"
    /\ \E n \in CaptureNodes : todo' = todo \ {n} /\ CaptureDevice' = n
    /\ UNCHANGED <<scan, target, doDevicesScan>>

ScanPick ==
    /\ scan = "pick"
    /\ \E n \in todo : todo' = todo \ {n} /\ CaptureDevice' = n
    /\ UNCHANGED <<scan, target, doDevicesScan>>

ScanPicked ==
    /\ todo = {}
    /\ ScanGoto("pick", "test")
    /\ doDevicesScan' = FALSE
    /\ UNCHANGED <<target, todo, CaptureDevice>>

ScanThread ==
    /\ \/ ScanTest \/ ScanNoPath \/ ScanSame \/ ScanPick \/ ScanPicked
       \/ \E difference \in SUBSET CaptureNodes : ScanDifferent(difference)
    /\ UNCHANGED <<stream, ui, capturing, recorder, lost, checked, record, playing>>

-----------------------------------------------------------------------------
(* The handlers of the two buttons. *)

UiGoto(here, there) == ui = here /\ ui' = there

Confirm ==
    /\ UiGoto("dialog", "look")
    /\ doDevicesScan' = FALSE
    /\ UNCHANGED <<stream, capturing, recorder, lost, scanner, checked, record, playing>>

\* startRecordAndPlay: no microphone was found, or its name is parsed.
Look ==
    /\ UiGoto("look", IF CaptureDevice = None THEN "done" ELSE "card")
    /\ UNCHANGED <<stream, doDevicesScan, capturing, recorder, lost, scanner, checked,
                   record, playing>>

\* The digits of a name are read one at a time: the first digit of a number.
FirstDigit(n) == IF n < 10 THEN n ELSE n \div 10

\* parsePCMID reads CaptureDevice again for each of the two numbers: charAt(4).
ParseCard ==
    /\ UiGoto("card", "device")
    /\ CardId' = FirstDigit(CaptureDevice.card)
    /\ UNCHANGED <<stream, doDevicesScan, capturing, recorder, lost, scanner, DeviceId,
                   named, mDeviceMsg, record, playing>>

\* charAt(6), which is no digit of the device when the card has two: parseInt throws, and
\* the process ends.
ParseDevice ==
    /\ UiGoto("device", "check")
    /\ CaptureDevice.card < 10
    /\ DeviceId' = FirstDigit(CaptureDevice.device)
    /\ UNCHANGED <<stream, doDevicesScan, capturing, recorder, lost, scanner, CardId,
                   named, mDeviceMsg, record, playing>>

\* devicesIsAvailable opens the device to capture.
CheckOpen ==
    /\ ui = "check"
    /\ pcm_open({"PCM_IN"})
    /\ ui' = IF fd' = "open" THEN "checkClose" ELSE "checkFailed"
    /\ UNCHANGED <<doDevicesScan, capturing, recorder, lost, scanner, checked, record,
                   playing>>

\* Variant: the device is not closed again.
CheckCloseNot ==
    /\ UiGoto("checkClose", "checked")
    /\ handle' = "none" /\ mDeviceMsg' = "ok"
    /\ UNCHANGED <<flags, fd, mmap_buffer, mmap_status, openFds, blocks, maps, state,
                   kernel, progress, doDevicesScan, capturing, recorder, lost, scanner,
                   CardId, DeviceId, named, record, playing>>

\* It closes it. checkDeviceAvailable then ends without a return statement: what the
\* caller gets is null or no reference at all, of which the process dies (ProcessDeath),
\* or happens to be an object.
CheckClose ==
    /\ UiGoto("checkClose", "checked")
    /\ pcm_close
    /\ mDeviceMsg' \in {"ok", "error"}
    /\ UNCHANGED <<doDevicesScan, capturing, recorder, lost, scanner, CardId, DeviceId,
                   named, record, playing>>

\* The handle of an open that failed is dropped, not closed.
Abandon ==
    /\ lost' = IF handle = "live" THEN lost + 1 ELSE lost
    /\ handle' = "none" /\ flags' = {} /\ mmap_buffer' = "null" /\ mmap_status' = "null"
    /\ UNCHANGED <<fd, openFds, blocks, maps, state, kernel, progress>>

CheckFailed ==
    /\ UiGoto("checkFailed", "checked")
    /\ Abandon
    /\ mDeviceMsg' = "error"
    /\ UNCHANGED <<doDevicesScan, capturing, recorder, scanner, CardId, DeviceId, named,
                   record, playing>>

\* The error is shown, or the recording thread started and its dialog built.
Checked ==
    /\ UiGoto("checked", IF mDeviceMsg = "error" THEN "done" ELSE "name")
    /\ recorder' = IF mDeviceMsg = "error" THEN recorder ELSE "open"
    /\ UNCHANGED <<stream, doDevicesScan, capturing, lost, scanner, checked, record,
                   playing>>

NameDevice ==
    /\ UiGoto("name", "recording")
    /\ named' = CaptureDevice
    /\ UNCHANGED <<stream, doDevicesScan, capturing, recorder, lost, scanner, CardId,
                   DeviceId, mDeviceMsg, record, playing>>

\* The button of the second dialog.
stopAudioRecord ==
    /\ UiGoto("recording", "play")
    /\ capturing' = FALSE
    /\ UNCHANGED <<stream, doDevicesScan, recorder, lost, scanner, checked, record, playing>>

\* startAudioPlay opens record.pcm, if there is one; playThread ends at once without it.
StartAudioPlay ==
    /\ UiGoto("play", "done")
    /\ pcmInputStream' \in {"null", "open"}
    /\ player' = IF pcmInputStream' = "null" THEN "exited" ELSE "reading"
    /\ UNCHANGED <<stream, doDevicesScan, capturing, recorder, lost, scanner, checked,
                   record>>

UiThread ==
    \/ Confirm \/ Look \/ ParseCard \/ ParseDevice
    \/ CheckOpen \/ CheckClose \/ CheckFailed \/ Checked \/ NameDevice
    \/ stopAudioRecord \/ StartAudioPlay

-----------------------------------------------------------------------------
(* alsaAudioThread: startAudioRecord. *)

RecordGoto(here, there) == recorder = here /\ recorder' = there

RecordOpen ==
    /\ recorder = "open"
    /\ pcm_open({"PCM_IN"})
    /\ recorder' = IF fd' = "open" THEN "malloc" ELSE "failed"
    /\ UNCHANGED <<ui, doDevicesScan, capturing, lost, scanner, checked, record, playing>>

RecordFailed ==
    /\ RecordGoto("failed", "exited")
    /\ Abandon
    /\ UNCHANGED <<ui, doDevicesScan, capturing, scanner, checked, record, playing>>

\* The buffer, of the size of the stream's, and the file, without which the thread
\* records all the same.
RecordMalloc ==
    /\ \/ /\ RecordGoto("malloc", "loop")
          /\ buffer' = TRUE /\ blocks' = blocks + 1
          /\ fcapture' \in {"null", "open"}
       \/ /\ RecordGoto("malloc", "close")
          /\ UNCHANGED <<buffer, blocks, fcapture>>
    /\ UNCHANGED <<flags, handle, fd, mmap_buffer, mmap_status, openFds, maps, state,
                   kernel, progress, ui, doDevicesScan, capturing, lost, scanner, checked,
                   late, playing>>

\* Variant: capturing is not looked at.
RecordAlways ==
    /\ RecordGoto("loop", "read") /\ pcm_read(Periods)
    /\ UNCHANGED <<ui, doDevicesScan, capturing, lost, scanner, checked, record, playing>>

\* while (capturing && !pcm_read(...)), for a whole buffer.
RecordTest ==
    /\ \/ capturing /\ RecordGoto("loop", "read") /\ pcm_read(Periods)
       \/ ~capturing /\ RecordGoto("loop", "free") /\ UNCHANGED stream
    /\ UNCHANGED <<ui, doDevicesScan, capturing, lost, scanner, checked, record, playing>>

RecordStep ==
    /\ recorder = "read" /\ CallStep
    /\ UNCHANGED <<ui, doDevicesScan, capturing, recorder, lost, scanner, checked, record,
                   playing>>

\* fwrite of the buffer, or the end of the loop.
RecordWrite ==
    /\ place = "idle"
    /\ \/ /\ result = "ok" /\ RecordGoto("read", "loop")
          /\ late' = IF capturing \/ late = 2 THEN late ELSE late + 1
       \/ result # "ok" /\ RecordGoto("read", "free") /\ UNCHANGED late
    /\ UNCHANGED <<stream, ui, doDevicesScan, capturing, lost, scanner, checked, buffer,
                   fcapture, playing>>

\* Variants: the buffer is not freed, or freed twice.
RecordKeep ==
    /\ RecordGoto("free", "close")
    /\ buffer' = FALSE
    /\ UNCHANGED <<stream, ui, doDevicesScan, capturing, lost, scanner, checked, fcapture,
                   late, playing>>

RecordFreeTwice ==
    /\ RecordGoto("free", "close")
    /\ buffer' = FALSE /\ blocks' = blocks - 2
    /\ UNCHANGED <<flags, handle, fd, mmap_buffer, mmap_status, openFds, maps, state,
                   kernel, progress, ui, doDevicesScan, capturing, lost, scanner, checked,
                   fcapture, late, playing>>

RecordFree ==
    /\ RecordGoto("free", "close")
    /\ buffer' = FALSE /\ blocks' = blocks - 1
    /\ UNCHANGED <<flags, handle, fd, mmap_buffer, mmap_status, openFds, maps, state,
                   kernel, progress, ui, doDevicesScan, capturing, lost, scanner, checked,
                   fcapture, late, playing>>

\* The file stays open.
RecordClose ==
    /\ RecordGoto("close", "exited")
    /\ pcm_close
    /\ UNCHANGED <<ui, doDevicesScan, capturing, lost, scanner, checked, record, playing>>

Recorder ==
    \/ RecordOpen \/ RecordFailed \/ RecordMalloc
    \/ RecordTest \/ RecordStep \/ RecordWrite
    \/ RecordFree \/ RecordClose

-----------------------------------------------------------------------------

\* playThread reads and plays, and ends at the end of the file or in an exception.
PlayThread ==
    /\ player = "reading"
    /\ player' \in {"reading", "exited"}
    /\ UNCHANGED <<stream, ui, doDevicesScan, capturing, recorder, lost, scanner, checked,
                   record, pcmInputStream>>

Card == Kernel /\ UNCHANGED <<ui, doDevicesScan, capturing, recorder, lost, scanner,
                              checked, record, playing>>

\* stop, onDestroy, the system, or an exception kills the process; the kernel takes back
\* all it held, and the next one starts over.
ProcessDeath ==
    /\ StreamLost
    /\ ui' = "dialog" /\ scan' = "test" /\ doDevicesScan' = TRUE
    /\ target' = {} /\ todo' = {}
    /\ CaptureDevice' = None /\ CardId' = None /\ DeviceId' = None /\ named' = None
    /\ mDeviceMsg' = "none"
    /\ recorder' = "none" /\ capturing' = TRUE /\ buffer' = FALSE /\ fcapture' = "null"
    /\ lost' = 0 /\ late' = 0
    /\ player' = "none" /\ pcmInputStream' = "null"

Next == ScanThread \/ UiThread \/ Recorder \/ PlayThread \/ Card \/ ProcessDeath

Spec == Init /\ [][Next]_vars

\* The recording thread is scheduled. The clock of a microphone that captures does not
\* stop, and a stream that runs again and again hands out a period now and then. Nobody
\* has to press a button, nothing has to fail.
Fairness ==
    /\ WF_vars(Recorder)
    /\ WF_vars(CapturePeriod /\ Card)
    /\ SF_vars(ReadPeriod /\ Recorder)

FairSpec == Spec /\ Fairness

-----------------------------------------------------------------------------
(* What makes the test of the microphone correct. *)

\* The check has given the device back before the thread opens it, and the two never use
\* a stream at the same time: the kernel hands a capture device out once.
DeviceIsFree ==
    /\ recorder \in {"none", "open"} /\ ui # "checkClose" => openFds = 0 /\ maps = {}
    /\ ui \in {"check", "checkClose", "checkFailed"} => recorder = "none"

\* A recording leaves nothing behind but the handles of opens that failed, which nobody
\* closes: no descriptor, page or buffer, whether the buffer could not be allocated, the
\* card was pulled out, or the user ended it.
NothingLeft ==
    recorder \in {"none", "exited"} /\ handle = "none" =>
        openFds = 0 /\ maps = {} /\ blocks = lost

\* The test implements MicrophoneSession: one part of it holds the device at a time, the
\* recording only after the check gave it back, and of a recording that is asked to stop,
\* maybe in the middle of a read, one more buffer is written, and no other one.
Session == INSTANCE MicrophoneSession WITH
    holder <- IF openFds = 0 THEN "nobody"
              ELSE IF ui = "checkClose" THEN "check" ELSE "recording",
    turn   <- IF ui \in {"dialog", "look", "card", "device", "check"} THEN "check"
              ELSE IF recorder \in {"none", "open"} THEN "recording" ELSE "over",
    asked  <- ~capturing,
    more   <- late

ImplementsSession == Session!Spec

\* The test implements PcmStream: check and recording together are one client of the
\* library, which never calls it on a handle that is not ready, or from two threads at a
\* time. Heap blocks of the test's own, the recording's buffer and the handles it dropped,
\* are not the library's: to it a handle that is dropped is one that is closed. Every open is
\* given a config.
Stream == INSTANCE PcmStream WITH
    blocks    <- blocks - lost - (IF buffer THEN 1 ELSE 0),
    leaked    <- 0,
    MaxLeaked <- 0

ImplementsStream == Stream!Spec

\* The dialog names the node that is recorded from, as far as its name is parsed, although
\* the name is read four times while the thread may still write it: unless several capture
\* nodes came at once, the device opened has the card of the node that is named, and the
\* first digit of its device. Where the device has a second digit that is another node.
NamedIsRecorded ==
    named # None =>
        \/ CardId = named.card /\ DeviceId = FirstDigit(named.device)
        \/ \E m, n \in target : m # n

\* Once the user ended the recording, every step of its thread brings the thread nearer to
\* its end, and no other step sends it back: not the card, the other threads or a signal in
\* the middle of a read. Only an overrun does, of which the read begins again.
RecorderLeft ==
    [none |-> 0, exited |-> 0, failed |-> 1, close |-> 1, free |-> 2, loop |-> 3,
     malloc |-> 4, read |-> 4 + StepsLeft, open |-> 5][recorder]

OnlyOverrunsDelay ==
    [][~capturing /\ recorder \notin {"none", "exited"} /\ ~Restarts =>
           /\ RecorderLeft' <= RecorderLeft
           /\ Recorder => RecorderLeft' < RecorderLeft]_vars

\* After the user ended the recording its thread ends, whatever happens to the card.
RecordingEnds == (~capturing) ~> (recorder \in {"none", "exited"})
=============================================================================
