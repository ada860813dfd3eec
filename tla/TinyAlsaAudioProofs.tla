------------------------ MODULE TinyAlsaAudioProofs ------------------------
(***************************************************************************)
(* Theorems about TinyAlsaAudio, for every set of capture nodes and every  *)
(* number of periods: the check and the recording hand the device on       *)
(* without overlap, nothing is left behind but failed handles, one more    *)
(* buffer is written at most, and the dialog names what is recorded.  It   *)
(* implements MicrophoneSession, and is a client as PcmStream allows.  A   *)
(* recording that was ended is kept from its end by overruns only.         *)
(*                                                                         *)
(* None of this is inductive alone.  What the process holds follows from   *)
(* where the two threads are (Holders), where they can be together from    *)
(* what the UI thread has done (Turns), and the names from the fact that a *)
(* name once found is only replaced by another target (Names).             *)
(***************************************************************************)
EXTENDS TinyAlsaAudio, PcmProofs, Integers

\* The type invariant of the variables that are not the stream's.
OwnTypes ==
    /\ ui \in {"dialog", "look", "card", "device", "check", "checkClose", "checkFailed",
               "checked", "name", "recording", "play", "done"}
    /\ scan \in {"test", "list", "pick", "exited"}
    /\ doDevicesScan \in BOOLEAN /\ capturing \in BOOLEAN
    /\ target \subseteq CaptureNodes /\ todo \subseteq target
    /\ CaptureDevice \in CaptureNodes \cup {None} /\ named \in CaptureNodes \cup {None}
    /\ CardId \in 0..9 \cup {None} /\ DeviceId \in 0..9 \cup {None}
    /\ mDeviceMsg \in {"none", "ok", "error"}
    /\ recorder \in {"none", "open", "failed", "malloc", "loop", "read", "free", "close",
                     "exited"}
    /\ buffer \in BOOLEAN
    /\ fcapture \in {"null", "open"} /\ pcmInputStream \in {"null", "open"}
    /\ lost \in 0..1 /\ late \in 0..1
    /\ player \in {"none", "reading", "exited"}

One(condition) == IF condition THEN 1 ELSE 0

\* What the process holds.
Accounts ==
    /\ openFds = One(fd = "open")
    /\ blocks = lost + One(handle = "live") + One(mmap_status = "sync_ptr") + One(buffer)
    /\ maps = IF mmap_status = "mapped" THEN {"status"} ELSE {}
    /\ fd = "none" => mmap_status = "null"
    /\ fd = "open" => handle = "live"
    /\ flags \subseteq {"PCM_IN"}

\* Who has the handle, and the descriptor in it.
Recording == {"malloc", "loop", "read", "free", "close"}

Holders ==
    /\ fd = "open" <=> ui = "checkClose" \/ recorder \in Recording
    /\ handle # "none" <=> \/ ui \in {"checkClose", "checkFailed"}
                           \/ recorder \in Recording \cup {"failed"}
    /\ place # "idle" => recorder = "read"

\* Where the threads can be together, and when a handle is lost or a buffer late.
Turns ==
    /\ recorder # "none" => ui \in {"name", "recording", "play", "done"}
    /\ ~capturing => ui \in {"play", "done"}
    /\ late = 1 => ~capturing /\ recorder \in {"loop", "free", "close", "exited"}
    /\ buffer <=> recorder \in {"loop", "read", "free"}
    /\ lost = 1 => \/ recorder = "exited"
                   \/ recorder = "none" /\ mDeviceMsg = "error" /\ ui \in {"checked", "done"}

\* Every name read is the name of a target.
Names ==
    /\ CaptureDevice # None => CaptureDevice \in target
    /\ CardId # None => \E n \in target : CardId = FirstDigit(n.card)
    /\ DeviceId # None => \E n \in target : n.card < 10 /\ DeviceId = FirstDigit(n.device)
    /\ named # None => named \in target /\ CardId # None /\ DeviceId # None
    /\ ui \notin {"dialog", "look", "done"} => CaptureDevice # None
    /\ ui \notin {"dialog", "look", "card", "done"} => CardId # None
    /\ ui \notin {"dialog", "look", "card", "device", "done"} => DeviceId # None

IInv == StreamTypeOK /\ OwnTypes /\ Accounts /\ Holders /\ Turns /\ Names

-----------------------------------------------------------------------------

\* The nodes, in the form the steps use.
LEMMA NodeParts ==
    /\ None \notin CaptureNodes /\ None \notin 0..9
    /\ \A n \in CaptureNodes :
           /\ FirstDigit(n.card) \in 0..9 /\ FirstDigit(n.device) \in 0..9
           /\ n.card < 10 => FirstDigit(n.card) = n.card
<1>1. \A i \in 0..99 : FirstDigit(i) \in 0..9 /\ (i < 10 => FirstDigit(i) = i)
  BY DEF FirstDigit
<1>2. \A n \in CaptureNodes : n.card \in 0..99 /\ n.device \in 0..99
  BY CaptureNodesAssumption
<1> QED
  BY <1>1, <1>2, CaptureNodesAssumption

LEMMA InitIInv == Init => IInv
<1> SUFFICES ASSUME Init PROVE IInv
  OBVIOUS
<1> USE DEF Init, StreamInit, Started
<1>1. StreamTypeOK
  BY InitTypes
<1>2. OwnTypes
  <2>1. doDevicesScan \in BOOLEAN /\ capturing \in BOOLEAN /\ buffer \in BOOLEAN
    OBVIOUS
  <2>2. target \subseteq CaptureNodes /\ todo \subseteq target
    OBVIOUS
  <2> QED
    BY <2>1, <2>2 DEF OwnTypes
<1>3. Accounts /\ Holders /\ Turns
  BY DEF Accounts, Holders, Turns, One, Recording
<1>4. Names
  BY DEF Names
<1> QED
  BY <1>1, <1>2, <1>3, <1>4 DEF IInv

\* The scanning thread only adds targets, and picks the name among them.
LEMMA ScanStep == IInv /\ ScanThread => IInv'
<1> SUFFICES ASSUME IInv, ScanThread PROVE IInv'
  OBVIOUS
<1> USE DEF IInv, ScanGoto
<1>1. UNCHANGED <<stream, ui, capturing, recorder, lost, checked, record, playing>>
  BY DEF ScanThread
<1>2. /\ scan' \in {"test", "list", "pick", "exited"} /\ doDevicesScan' \in BOOLEAN
      /\ target \subseteq target' /\ target' \subseteq CaptureNodes /\ todo' \subseteq target'
      /\ CaptureDevice' = CaptureDevice \/ CaptureDevice' \in target'
  <2> USE DEF OwnTypes
  <2>1. CASE ScanTest \/ ScanNoPath \/ ScanSame \/ ScanPicked
    BY <2>1 DEF ScanTest, ScanNoPath, ScanSame, ScanPicked
  <2>2. CASE ScanPick
    BY <2>2 DEF ScanPick
  <2>3. CASE \E difference \in SUBSET CaptureNodes : ScanDifferent(difference)
    BY <2>3 DEF ScanDifferent
  <2> QED
    BY <2>1, <2>2, <2>3 DEF ScanThread
<1>3. StreamTypeOK' /\ Accounts' /\ Holders' /\ Turns'
  BY <1>1 DEF stream, pointers, state, kernel, progress, checked, record, StreamTypeOK,
              Accounts, Holders, Turns, One
<1>4. OwnTypes'
  BY <1>1, <1>2 DEF checked, record, playing, OwnTypes
<1>5. Names'
  BY <1>1, <1>2, NodeParts DEF checked, Names, OwnTypes
<1> QED
  BY <1>3, <1>4, <1>5

\* The steps of the UI thread that do not touch the stream.
LEMMA UiStep ==
    IInv /\ (Confirm \/ Look \/ ParseCard \/ ParseDevice \/ Checked \/ NameDevice
             \/ stopAudioRecord \/ StartAudioPlay) => IInv'
<1> SUFFICES ASSUME IInv, \/ Confirm \/ Look \/ ParseCard \/ ParseDevice \/ Checked
                          \/ NameDevice \/ stopAudioRecord \/ StartAudioPlay
             PROVE  IInv'
  OBVIOUS
<1> USE DEF IInv, UiGoto
<1>1. UNCHANGED <<stream, lost, scan, target, todo, CaptureDevice, buffer, fcapture, late>>
  BY DEF Confirm, Look, ParseCard, ParseDevice, Checked, NameDevice, stopAudioRecord,
         StartAudioPlay, scanner, record
<1>2. StreamTypeOK' /\ Accounts'
  BY <1>1 DEF stream, pointers, state, kernel, progress, StreamTypeOK, Accounts, One
<1>3. OwnTypes'
  <2> USE <1>1, NodeParts DEF OwnTypes, checked, playing
  <2>1. CASE Confirm \/ Look \/ stopAudioRecord
    <3>1. doDevicesScan' \in BOOLEAN /\ capturing' \in BOOLEAN
      BY <2>1 DEF Confirm, Look, stopAudioRecord
    <3>2. ui' \in {"look", "done", "card", "play"} /\ UNCHANGED <<recorder, checked, playing>>
      BY <2>1 DEF Confirm, Look, stopAudioRecord
    <3> QED
      BY <3>1, <3>2
  <2>2. CASE ParseCard \/ ParseDevice
    BY <2>2 DEF ParseCard, ParseDevice, Names
  <2>3. CASE Checked
    BY <2>3 DEF Checked
  <2>4. CASE NameDevice \/ StartAudioPlay
    BY <2>4 DEF NameDevice, StartAudioPlay
  <2> QED
    BY <2>1, <2>2, <2>3, <2>4
<1>4. Holders' /\ Turns'
  <2> USE <1>1 DEF Holders, Turns, Recording, stream, pointers, progress, checked, OwnTypes
  <2>1. CASE Confirm \/ Look \/ ParseCard \/ ParseDevice
    BY <2>1 DEF Confirm, Look, ParseCard, ParseDevice
  <2>2. CASE Checked
    BY <2>2 DEF Checked
  <2>3. CASE NameDevice \/ stopAudioRecord \/ StartAudioPlay
    BY <2>3 DEF NameDevice, stopAudioRecord, StartAudioPlay
  <2> QED
    BY <2>1, <2>2, <2>3
<1>5. Names'
  <2> USE <1>1, NodeParts DEF Names, OwnTypes, checked
  <2>1. CASE Confirm \/ Look \/ Checked \/ stopAudioRecord \/ StartAudioPlay
    BY <2>1 DEF Confirm, Look, Checked, stopAudioRecord, StartAudioPlay
  <2>2. CASE ParseCard
    BY <2>2 DEF ParseCard
  <2>3. CASE ParseDevice
    BY <2>3 DEF ParseDevice
  <2>4. CASE NameDevice
    BY <2>4 DEF NameDevice
  <2> QED
    BY <2>1, <2>2, <2>3, <2>4
<1> QED
  BY <1>2, <1>3, <1>4, <1>5

-----------------------------------------------------------------------------
(* The steps that take the device and give it back. *)

\* Whoever opens the device has nothing yet: what fails leaves a handle without anything,
\* and what succeeds the descriptor and the status.
LEMMA OpenPart ==
    ASSUME IInv, pcm_open({"PCM_IN"}), UNCHANGED <<lost, buffer>>
    PROVE  StreamTypeOK' /\ Accounts' /\ handle' # "none" /\ place' = "idle"
<1> USE DEF IInv
<1>1. StreamTypeOK'
  <2>1. {"PCM_IN"} \in SUBSET Flags
    BY DEF Flags
  <2> QED
    BY <2>1, OpenTypes
<1>2. handle = "none" /\ handle' # "none" /\ place' = "idle"
  BY DEF pcm_open, OpenNoMemory, BadHandle, OpenFails, OpenFailsLate, OpenOk, NewHandle,
         progress
<1>3. fd = "none" /\ mmap_status = "null"
  BY <1>2 DEF StreamTypeOK, Accounts
<1>4. Accounts'
  <2> USE <1>2, <1>3 DEF Accounts, One, NewHandle, kernel
  <2>1. lost \in Nat /\ One(buffer) \in Nat
    BY DEF OwnTypes
  <2>2. openFds = 0 /\ maps = {} /\ blocks = lost + One(buffer)
    BY <2>1
  <2> HIDE DEF IInv
  <2>3. CASE OpenNoMemory
    BY <2>1, <2>2, <2>3 DEF OpenNoMemory, BadHandle
  <2>4. CASE OpenFails({"PCM_IN"})
    BY <2>1, <2>2, <2>4 DEF OpenFails
  <2>5. CASE OpenFailsLate({"PCM_IN"})
    BY <2>1, <2>2, <2>5 DEF OpenFailsLate
  <2>6. CASE OpenOk({"PCM_IN"})
    BY <2>1, <2>2, <2>6 DEF OpenOk, MapsStatus
  <2> QED
    BY <2>3, <2>4, <2>5, <2>6 DEF pcm_open
<1> QED
  BY <1>1, <1>2, <1>4

\* The device is only opened to check it before a recorder exists, and to record after the
\* check is over.
LEMMA OpenStep == IInv /\ (CheckOpen \/ RecordOpen) => IInv'
<1> SUFFICES ASSUME IInv, CheckOpen \/ RecordOpen PROVE IInv'
  OBVIOUS
<1> USE DEF IInv
<1>1. pcm_open({"PCM_IN"}) /\ UNCHANGED <<lost, buffer>>
  BY DEF CheckOpen, RecordOpen, record
<1>2. StreamTypeOK' /\ Accounts' /\ handle' # "none" /\ place' = "idle"
  BY <1>1, OpenPart
<1>3. handle = "none"
  BY <1>1 DEF pcm_open, OpenNoMemory, BadHandle, OpenFails, OpenFailsLate, OpenOk, NewHandle
<1>4. fd' \in {"none", "open"}
  BY <1>2 DEF StreamTypeOK
<1>5. UNCHANGED <<doDevicesScan, capturing, lost, scanner, checked, record, playing>>
  BY DEF CheckOpen, RecordOpen
<1>6. OwnTypes'
  BY <1>5 DEF OwnTypes, scanner, checked, record, playing, CheckOpen, RecordOpen
<1>7. Holders' /\ Turns'
  <2> USE <1>2, <1>3, <1>4, <1>5 DEF Holders, Turns, Recording, checked, record
  <2>1. CASE CheckOpen
    BY <2>1 DEF CheckOpen
  <2>2. CASE RecordOpen
    BY <2>2 DEF RecordOpen
  <2> QED
    BY <2>1, <2>2
<1>8. Names'
  BY <1>5 DEF Names, scanner, checked, CheckOpen, RecordOpen
<1> QED
  BY <1>2, <1>6, <1>7, <1>8

\* pcm_close gives back all there is.
LEMMA ClosePart ==
    ASSUME IInv, pcm_close, UNCHANGED <<lost, buffer>>, handle = "live"
    PROVE  StreamTypeOK' /\ Accounts' /\ handle' = "none" /\ fd' = "none" /\ place' = "idle"
<1> USE DEF IInv
<1>1. handle' = "none" /\ fd' = "none" /\ place' = "idle"
  BY DEF pcm_close, progress
<1>2. openFds' = 0 /\ maps' = {}
  BY DEF pcm_close, Accounts, One, StreamTypeOK, StatusPages
<1>3. blocks' = lost + One(buffer)
  <2>1. lost \in Nat /\ One(buffer) \in Nat
    BY DEF OwnTypes, One
  <2>2. blocks = lost + 1 + StatusBlocks + One(buffer) /\ StatusBlocks \in Nat
    BY DEF Accounts, StatusBlocks, One
  <2>3. blocks' = blocks - StatusBlocks - 1
    BY DEF pcm_close
  <2> HIDE DEF IInv
  <2> QED
    BY <2>1, <2>2, <2>3
<1>4. Accounts'
  BY <1>1, <1>2, <1>3 DEF Accounts, One, pcm_close, OwnTypes
<1>5. StreamTypeOK'
  <2>1. lost \in Nat /\ One(buffer) \in Nat
    BY DEF OwnTypes, One
  <2>2. Numbers'
    BY <1>2, <1>3, <2>1, StreamTypeParts DEF Numbers, pcm_close, progress
  <2>3. Beliefs' /\ Kinds'
    BY <1>2, StreamTypeParts DEF Beliefs, Kinds, pcm_close, progress
  <2> QED
    BY <2>2, <2>3, StreamTypeParts
<1> QED
  BY <1>1, <1>4, <1>5

LEMMA CloseStep == IInv /\ (CheckClose \/ RecordClose) => IInv'
<1> SUFFICES ASSUME IInv, CheckClose \/ RecordClose PROVE IInv'
  OBVIOUS
<1> USE DEF IInv, UiGoto, RecordGoto
<1>1. pcm_close /\ UNCHANGED <<lost, buffer>> /\ handle = "live"
  BY DEF CheckClose, RecordClose, record, Holders, Recording, Accounts
<1>2. StreamTypeOK' /\ Accounts' /\ handle' = "none" /\ fd' = "none" /\ place' = "idle"
  BY <1>1, ClosePart
<1>3. UNCHANGED <<doDevicesScan, capturing, lost, scanner, CardId, DeviceId, named, record,
                  playing>>
  BY DEF CheckClose, RecordClose, checked
<1>4. OwnTypes'
  BY <1>3 DEF OwnTypes, scanner, checked, record, playing, CheckClose, RecordClose
<1>5. Holders' /\ Turns'
  <2> USE <1>2, <1>3 DEF Holders, Turns, Recording, checked, record, OwnTypes
  <2>1. CASE CheckClose
    BY <2>1 DEF CheckClose
  <2>2. CASE RecordClose
    BY <2>2 DEF RecordClose
  <2> QED
    BY <2>1, <2>2
<1>6. Names'
  BY <1>3 DEF Names, scanner, checked, CheckClose, RecordClose
<1> QED
  BY <1>2, <1>4, <1>5, <1>6

\* A handle that is dropped had nothing but its own block.
LEMMA AbandonStep == IInv /\ (CheckFailed \/ RecordFailed) => IInv'
<1> SUFFICES ASSUME IInv, CheckFailed \/ RecordFailed PROVE IInv'
  OBVIOUS
<1> USE DEF IInv, UiGoto, RecordGoto
<1>1. Abandon /\ fd = "none" /\ place = "idle" /\ mmap_status = "null" /\ lost = 0
  BY DEF CheckFailed, RecordFailed, Holders, Turns, Recording, Accounts, StreamTypeOK,
         OwnTypes
<1>2. lost' = One(handle = "live") /\ handle' = "none"
  BY <1>1 DEF Abandon, One
<1>3. UNCHANGED <<doDevicesScan, capturing, scanner, CardId, DeviceId, named, record, playing,
                  fd, openFds, blocks, maps, state, kernel, progress>>
  BY <1>1 DEF CheckFailed, RecordFailed, checked, Abandon
<1>4. flags' = {} /\ mmap_buffer' = "null" /\ mmap_status' = "null"
  BY <1>1 DEF Abandon
<1>5. StreamTypeOK'
  <2>1. Numbers' /\ Beliefs'
    BY <1>3, StreamTypeParts DEF Numbers, Beliefs, state, kernel, progress
  <2>2. Kinds'
    BY <1>2, <1>3, <1>4, StreamTypeParts DEF Kinds, kernel, progress
  <2> QED
    BY <2>1, <2>2, StreamTypeParts
<1>6. Accounts'
  BY <1>1, <1>2, <1>3, <1>4 DEF Accounts, One, record, OwnTypes
<1>7. OwnTypes'
  <2>1. lost' \in 0..1
    BY <1>2 DEF One
  <2> QED
    BY <1>3, <2>1 DEF OwnTypes, scanner, checked, record, playing, CheckFailed, RecordFailed
<1>8. Holders' /\ Turns'
  <2> USE <1>1, <1>2, <1>3 DEF Holders, Turns, Recording, checked, record, progress, OwnTypes,
          One
  <2>1. CASE CheckFailed
    BY <2>1 DEF CheckFailed
  <2>2. CASE RecordFailed
    BY <2>2 DEF RecordFailed
  <2> QED
    BY <2>1, <2>2
<1>9. Names'
  BY <1>3 DEF Names, scanner, checked, CheckFailed, RecordFailed
<1> QED
  BY <1>5, <1>6, <1>7, <1>8, <1>9

\* The buffer is one block, held as long as the thread can record.
LEMMA BufferStep == IInv /\ (RecordMalloc \/ RecordFree) => IInv'
<1> SUFFICES ASSUME IInv, RecordMalloc \/ RecordFree PROVE IInv'
  OBVIOUS
<1> USE DEF IInv, RecordGoto
<1>1. UNCHANGED <<flags, handle, fd, mmap_buffer, mmap_status, openFds, maps, state, kernel,
                  progress, ui, doDevicesScan, capturing, lost, scanner, checked, late,
                  playing>>
  BY DEF RecordMalloc, RecordFree
<1>2. buffer' \in BOOLEAN /\ fcapture' \in {"null", "open"}
  BY DEF RecordMalloc, RecordFree, OwnTypes
<1>3. blocks - One(buffer) = blocks' - One(buffer') /\ blocks' \in Int
  BY DEF RecordMalloc, RecordFree, One, Turns, StreamTypeOK
<1>4. recorder' \in {"loop", "close"} /\ (buffer' <=> recorder' = "loop")
  BY DEF RecordMalloc, RecordFree, Turns
<1>5. Accounts' /\ blocks' \in Nat
  <2>1. blocks = lost + One(handle = "live") + One(mmap_status = "sync_ptr") + One(buffer)
    BY DEF Accounts
  <2>2. /\ lost \in Nat /\ One(handle = "live") \in Nat /\ One(mmap_status = "sync_ptr") \in Nat
        /\ One(buffer) \in Nat /\ One(buffer') \in Nat
    BY DEF One, OwnTypes
  <2>3. blocks' = lost + One(handle = "live") + One(mmap_status = "sync_ptr") + One(buffer')
    <3> HIDE DEF IInv
    <3> QED
      BY <1>3, <2>1, <2>2
  <2>4. blocks' \in Nat
    BY <2>2, <2>3
  <2> QED
    BY <1>1, <2>3, <2>4 DEF Accounts, One
<1>6. StreamTypeOK'
  <2>1. Numbers'
    BY <1>1, <1>5, StreamTypeParts DEF Numbers, kernel, progress
  <2>2. Beliefs' /\ Kinds'
    BY <1>1, StreamTypeParts DEF Beliefs, Kinds, state, kernel, progress
  <2> QED
    BY <2>1, <2>2, StreamTypeParts
<1>7. OwnTypes'
  BY <1>1, <1>2, <1>4 DEF OwnTypes, scanner, checked, playing
<1>8. Holders' /\ Turns'
  <2>1. recorder \in {"malloc", "free"}
    BY DEF RecordMalloc, RecordFree
  <2> QED
    BY <1>1, <1>4, <2>1 DEF Holders, Turns, Recording, checked, progress, OwnTypes
<1>9. Names'
  BY <1>1 DEF Names, scanner, checked
<1> QED
  BY <1>5, <1>6, <1>7, <1>8, <1>9

\* The steps of the read, and the card, leave everything but the stream's progress alone.
LEMMA ReadStep == IInv /\ (RecordTest \/ RecordStep \/ Card) => IInv'
<1> SUFFICES ASSUME IInv, RecordTest \/ RecordStep \/ Card PROVE IInv'
  OBVIOUS
<1> USE DEF IInv, RecordGoto
<1>1. UNCHANGED <<ui, doDevicesScan, capturing, lost, scanner, checked, record, playing>>
  BY DEF RecordTest, RecordStep, Card
<1>2. UNCHANGED pointers
  <2>1. CASE RecordTest
    BY <2>1 DEF RecordTest, pcm_read, Begin, stream
  <2>2. CASE RecordStep
    BY <2>2 DEF RecordStep, CallStep, Top, AlreadyPrepared, PrepareOk, PrepareFails, StartOk,
                StartFails, WritePeriod, ReadPeriod, InitialDone, InitialFails, TransferDone,
                TransferXrun, TransferFails, Return
  <2>3. CASE Card
    BY <2>3 DEF Card, Kernel, Play, CapturePeriod, Suspend, Disconnect, Interrupted, Return
  <2> QED
    BY <2>1, <2>2, <2>3
<1>3. StreamTypeOK'
  <2>1. CASE RecordTest
    <3>1. CASE UNCHANGED stream
      BY <3>1 DEF stream, pointers, state, kernel, progress, StreamTypeOK
    <3>2. CASE pcm_read(Periods)
      <4> USE <3>2 DEF pcm_read, Begin, state, kernel
      <4>1. Numbers'
        BY <1>2, Constants, StreamTypeParts DEF Numbers, pointers
      <4>2. Beliefs' /\ Kinds'
        BY <1>2, StreamTypeParts DEF Beliefs, Kinds, pointers
      <4> QED
        BY <4>1, <4>2, StreamTypeParts
    <3> QED
      BY <2>1, <3>1, <3>2 DEF RecordTest
  <2>2. CASE RecordStep
    BY <2>2, CallTypes DEF RecordStep
  <2>3. CASE Card
    BY <2>3, KernelTypes DEF Card
  <2> QED
    BY <2>1, <2>2, <2>3
<1>4. recorder' \in {"read", "free", recorder} /\ (recorder' # recorder => RecordTest)
  BY DEF RecordTest, RecordStep, Card
<1>5. Accounts'
  BY <1>1, <1>2 DEF Accounts, One, pointers, record
<1>6. OwnTypes'
  BY <1>1, <1>4 DEF OwnTypes, scanner, checked, record, playing
<1>7. Holders'
  <2>1. CASE RecordTest
    <3>1. CASE RecordGoto("loop", "read")
      BY <1>1, <1>2, <3>1 DEF Holders, Recording, pointers
    <3>2. CASE RecordGoto("loop", "free") /\ UNCHANGED stream
      BY <1>1, <1>2, <3>2 DEF Holders, Recording, pointers, stream, progress
    <3> QED
      BY <2>1, <3>1, <3>2 DEF RecordTest
  <2>2. CASE RecordStep
    BY <1>1, <1>2, <2>2 DEF RecordStep, Holders, Recording, pointers
  <2>3. CASE Card
    <3>1. place' \in {place, "idle"}
      BY <2>3 DEF Card, Kernel, Play, CapturePeriod, Suspend, Disconnect, Interrupted, Return,
                  Goto, progress
    <3> QED
      BY <1>1, <1>2, <2>3, <3>1 DEF Card, Holders, Recording, pointers
  <2> QED
    BY <2>1, <2>2, <2>3
<1>8. Turns'
  BY <1>1 DEF Turns, checked, record, RecordTest, RecordStep, Card
<1>9. Names'
  BY <1>1 DEF Names, scanner, checked
<1> QED
  BY <1>3, <1>5, <1>6, <1>7, <1>8, <1>9

\* A buffer written late is the one whose read had begun when the recording was ended.
LEMMA WriteStep == IInv /\ (RecordWrite \/ PlayThread) => IInv'
<1> SUFFICES ASSUME IInv, RecordWrite \/ PlayThread PROVE IInv'
  OBVIOUS
<1> USE DEF IInv, RecordGoto
<1>1. UNCHANGED <<stream, ui, doDevicesScan, capturing, lost, scanner, checked, buffer,
                  fcapture, pcmInputStream>>
  BY DEF RecordWrite, PlayThread, record, playing
<1>2. StreamTypeOK' /\ Accounts'
  BY <1>1 DEF stream, pointers, state, kernel, progress, StreamTypeOK, Accounts, One
<1>3. late' \in 0..1
  BY DEF RecordWrite, PlayThread, Turns, OwnTypes, record
<1>4. OwnTypes'
  BY <1>1, <1>3 DEF OwnTypes, scanner, checked, RecordWrite, PlayThread, playing
<1>5. Holders' /\ Turns'
  <2> USE <1>1 DEF Holders, Turns, Recording, stream, pointers, progress, checked, record,
          OwnTypes
  <2>1. CASE RecordWrite
    BY <2>1 DEF RecordWrite
  <2>2. CASE PlayThread
    BY <2>2 DEF PlayThread
  <2> QED
    BY <2>1, <2>2
<1>6. Names'
  BY <1>1 DEF Names, scanner, checked
<1> QED
  BY <1>2, <1>4, <1>5, <1>6

\* A new process has nothing and nobody.
LEMMA DeathStep == IInv /\ ProcessDeath => IInv'
<1> SUFFICES ASSUME ProcessDeath PROVE IInv'
  OBVIOUS
<1> USE DEF ProcessDeath
<1>1. StreamTypeOK'
  BY LostTypes
<1>2. OwnTypes'
  <2>1. doDevicesScan' \in BOOLEAN /\ capturing' \in BOOLEAN /\ buffer' \in BOOLEAN
    OBVIOUS
  <2>2. target' \subseteq CaptureNodes /\ todo' \subseteq target'
    OBVIOUS
  <2> QED
    BY <2>1, <2>2 DEF OwnTypes
<1>3. Accounts' /\ Holders' /\ Turns'
  BY DEF StreamLost, Accounts, Holders, Turns, One, Recording
<1>4. Names'
  BY DEF Names
<1> QED
  BY <1>1, <1>2, <1>3, <1>4 DEF IInv

\* The invariant is inductive.
LEMMA StepIInv == IInv /\ [Next]_vars => IInv'
<1> SUFFICES ASSUME IInv, [Next]_vars PROVE IInv'
  OBVIOUS
<1>1. CASE UiThread
  BY <1>1, UiStep, OpenStep, CloseStep, AbandonStep DEF UiThread
<1>2. CASE Recorder
  BY <1>2, OpenStep, AbandonStep, BufferStep, ReadStep, WriteStep, CloseStep DEF Recorder
<1>3. CASE ScanThread \/ PlayThread \/ Card \/ ProcessDeath
  BY <1>3, ScanStep, WriteStep, ReadStep, DeathStep
<1>4. CASE UNCHANGED vars
  <2> USE DEF vars, stream, pointers, state, kernel, progress, scanner, checked, record,
          playing
  <2>1. StreamTypeOK' /\ OwnTypes'
    BY <1>4 DEF IInv, StreamTypeOK, OwnTypes
  <2>2. Accounts' /\ Holders' /\ Turns'
    BY <1>4 DEF IInv, Accounts, Holders, Turns, One
  <2>3. Names'
    BY <1>4 DEF IInv, Names
  <2> QED
    BY <2>1, <2>2, <2>3 DEF IInv
<1> QED
  BY <1>1, <1>2, <1>3, <1>4 DEF Next

LEMMA Invariance == Spec => []IInv
<1>1. Init => IInv
  BY InitIInv
<1>2. IInv /\ [Next]_vars => IInv'
  BY StepIInv
<1> QED
  BY <1>1, <1>2, PTL DEF Spec

-----------------------------------------------------------------------------
(* The theorems. *)

\* Every variable keeps its type, and nothing is counted below zero.
THEOREM TypeCorrect == Spec => []TypeOK
<1>1. IInv => TypeOK
  BY DEF IInv, OwnTypes, TypeOK
<1> QED
  BY <1>1, Invariance, PTL

\* The check has given the device back when the thread opens it, and nobody holds it before.
THEOREM DeviceIsHandedOn == Spec => []DeviceIsFree
<1>1. IInv => DeviceIsFree
  BY DEF IInv, OwnTypes, StreamTypeOK, Accounts, Holders, Turns, One, Recording, DeviceIsFree
<1> QED
  BY <1>1, Invariance, PTL

\* A recording leaves nothing behind but failed handles, whichever of its three ways out
\* it took.
THEOREM RecordingLeavesNothing == Spec => []NothingLeft
<1>1. IInv => NothingLeft
  BY DEF IInv, OwnTypes, StreamTypeOK, Accounts, Holders, Turns, One, Recording, NothingLeft
<1> QED
  BY <1>1, Invariance, PTL

\* The dialog names the node that is recorded from, as far as its name is parsed, unless
\* there were several targets (parsePCMID, startRecordAndPlay).
THEOREM RecordedIsNamed == Spec => []NamedIsRecorded
<1>1. IInv => NamedIsRecorded
  BY NodeParts DEF IInv, Names, OwnTypes, NamedIsRecorded
<1> QED
  BY <1>1, Invariance, PTL

-----------------------------------------------------------------------------
(* The refinement. *)

LEMMA InitSession == Init => Session!Init
BY DEF Init, StreamInit, Started, Session!Init

\* What the session sees of a step: the descriptor, where the two threads are, whether the
\* recording is to end and how many buffers came after that.
LEMMA Seen ==
    ASSUME IInv, [Next]_vars
    PROVE  /\ openFds = One(fd = "open") /\ openFds' = One(fd' = "open")
           /\ Holders /\ Turns /\ Holders' /\ Turns'
           /\ OwnTypes /\ StreamTypeOK /\ StreamTypeOK'
BY StepIInv DEF IInv, Accounts

\* A step of the UI thread is the check taking the device or giving it back, or a request to
\* stop, or nothing to the session.
LEMMA UiSession == IInv /\ UiThread => [Session!Next]_(Session!vars)
<1> SUFFICES ASSUME IInv, UiThread PROVE [Session!Next]_(Session!vars)
  OBVIOUS
<1> USE DEF Session!Next, Session!vars, UiGoto, One
<1>1. /\ openFds = One(fd = "open") /\ openFds' = One(fd' = "open")
      /\ Holders /\ Turns /\ Holders' /\ Turns'
      /\ OwnTypes /\ StreamTypeOK /\ StreamTypeOK'
  BY Seen DEF Next
<1>2. CASE Confirm \/ ParseCard \/ ParseDevice \/ CheckFailed \/ Checked \/ NameDevice
           \/ StartAudioPlay
  <2>1. UNCHANGED <<openFds, capturing, late>>
    BY <1>2 DEF Confirm, ParseCard, ParseDevice, CheckFailed, Abandon, Checked, NameDevice,
                StartAudioPlay, stream, pointers, record
  <2>2. ui # "checkClose" /\ ui' # "checkClose"
    BY <1>2 DEF Confirm, ParseCard, ParseDevice, CheckFailed, Checked, NameDevice,
                StartAudioPlay
  <2>3. ui \in {"dialog", "look", "card", "device", "check"}
            <=> ui' \in {"dialog", "look", "card", "device", "check"}
    BY <1>2 DEF Confirm, ParseCard, ParseDevice, CheckFailed, Checked, NameDevice,
                StartAudioPlay
  <2>4. recorder \in {"none", "open"} <=> recorder' \in {"none", "open"}
    BY <1>1, <1>2 DEF Confirm, ParseCard, ParseDevice, CheckFailed, Checked, NameDevice,
                      StartAudioPlay, Turns
  <2> QED
    BY <2>1, <2>2, <2>3, <2>4
<1>3. CASE Look
  <2>1. UNCHANGED <<openFds, capturing, late, recorder>> /\ ui = "look" /\ ui' \in {"done", "card"}
    BY <1>3 DEF Look, stream, pointers, record
  <2>2. recorder = "none" /\ openFds = 0
    BY <1>1, <2>1 DEF Turns, Holders, Recording
  <2> QED
    BY <2>1, <2>2 DEF Session!CheckTakes, Session!Take
<1>4. CASE CheckOpen
  <2>1. UNCHANGED <<capturing, late, recorder>> /\ ui = "check"
    BY <1>4 DEF CheckOpen, record
  <2>2. recorder = "none" /\ openFds = 0
    BY <1>1, <2>1 DEF Turns, Holders, Recording
  <2>3. ui' = (IF fd' = "open" THEN "checkClose" ELSE "checkFailed") /\ openFds' \in 0..1
    BY <1>1, <1>4 DEF CheckOpen
  <2> QED
    BY <1>1, <2>1, <2>2, <2>3 DEF Session!CheckTakes, Session!Take
<1>5. CASE CheckClose
  <2>1. /\ UNCHANGED <<capturing, late, recorder>> /\ ui = "checkClose" /\ ui' = "checked"
        /\ fd' = "none"
    BY <1>5 DEF CheckClose, record, pcm_close
  <2>2. recorder = "none" /\ openFds = 1 /\ openFds' = 0
    BY <1>1, <2>1 DEF Turns, Holders
  <2> QED
    BY <2>1, <2>2 DEF Session!GiveBack
<1>6. CASE stopAudioRecord
  <2>1. /\ UNCHANGED <<openFds, late, recorder>> /\ ui = "recording" /\ ui' = "play"
        /\ capturing' = FALSE
    BY <1>6 DEF stopAudioRecord, stream, pointers, record
  <2>2. capturing = TRUE
    BY <1>1, <2>1 DEF Turns, OwnTypes
  <2> QED
    BY <2>1, <2>2 DEF Session!Ask
<1> QED
  BY <1>2, <1>3, <1>4, <1>5, <1>6 DEF UiThread

\* A step of the recorder is the recording taking the device or giving it back, the one more
\* buffer, or nothing to the session.
LEMMA RecorderSession == IInv /\ Recorder => [Session!Next]_(Session!vars)
<1> SUFFICES ASSUME IInv, Recorder PROVE [Session!Next]_(Session!vars)
  OBVIOUS
<1> USE DEF Session!Next, Session!vars, RecordGoto, One
<1>1. /\ openFds = One(fd = "open") /\ openFds' = One(fd' = "open")
      /\ Holders /\ Turns /\ Holders' /\ Turns'
      /\ OwnTypes /\ StreamTypeOK /\ StreamTypeOK'
  BY Seen DEF Next
<1>2. ui \in {"name", "recording", "play", "done"} /\ UNCHANGED <<ui, capturing>>
  <2>1. UNCHANGED <<ui, capturing>> /\ recorder # "none"
    BY DEF Recorder, RecordOpen, RecordFailed, RecordMalloc, RecordTest, RecordStep,
           RecordWrite, RecordFree, RecordClose
  <2> QED
    BY <1>1, <2>1 DEF Turns
<1>3. CASE RecordOpen
  <2>1. /\ recorder = "open" /\ recorder' \in {"malloc", "failed"} /\ UNCHANGED late
    BY <1>3 DEF RecordOpen, record
  <2>2. openFds = 0 /\ openFds' \in 0..1
    BY <1>1, <1>2, <2>1 DEF Holders, Recording
  <2> QED
    BY <1>2, <2>1, <2>2 DEF Session!RecordingTakes, Session!Take
<1>4. CASE RecordFailed \/ RecordMalloc \/ RecordTest \/ RecordStep \/ RecordFree
  <2>1. recorder \notin {"none", "open"} /\ recorder' \notin {"none", "open"} /\ UNCHANGED late
    BY <1>4 DEF RecordFailed, RecordMalloc, RecordTest, RecordStep, RecordFree, record
  <2>2. recorder \in Recording <=> recorder' \in Recording
    BY <1>4 DEF RecordFailed, RecordMalloc, RecordTest, RecordStep, RecordFree, Recording
  <2>3. openFds' = openFds
    BY <1>1, <1>2, <2>2 DEF Holders
  <2> QED
    BY <1>2, <2>1, <2>3
<1>5. CASE RecordWrite
  <2>1. /\ recorder = "read" /\ recorder' \in {"loop", "free"}
        /\ UNCHANGED openFds
        /\ late' # late => ~capturing /\ late' = late + 1
    BY <1>1, <1>5 DEF RecordWrite, stream, pointers, OwnTypes
  <2>2. openFds = 1 /\ late = 0
    BY <1>1, <2>1 DEF Holders, Recording, Turns, OwnTypes
  <2> QED
    BY <1>1, <1>2, <2>1, <2>2 DEF Session!OneMore, OwnTypes
<1>6. CASE RecordClose
  <2>1. recorder = "close" /\ recorder' = "exited" /\ UNCHANGED late /\ fd' = "none"
    BY <1>6 DEF RecordClose, record, pcm_close
  <2>2. openFds = 1 /\ openFds' = 0
    BY <1>1, <2>1 DEF Holders, Recording
  <2> QED
    BY <1>2, <2>1, <2>2 DEF Session!GiveBack
<1> QED
  BY <1>3, <1>4, <1>5, <1>6 DEF Recorder

LEMMA StepSession == IInv /\ [Next]_vars => [Session!Next]_(Session!vars)
<1> SUFFICES ASSUME IInv, [Next]_vars PROVE [Session!Next]_(Session!vars)
  OBVIOUS
<1>1. CASE ScanThread \/ PlayThread \/ UNCHANGED vars
  <2>1. UNCHANGED <<openFds, ui, recorder, capturing, late>>
    BY <1>1 DEF ScanThread, PlayThread, vars, stream, pointers, record
  <2> QED
    BY <2>1 DEF Session!vars
<1>2. CASE Card
  <2>1. UNCHANGED <<openFds, ui, recorder, capturing, late>>
    BY <1>2 DEF Card, Kernel, Play, CapturePeriod, Suspend, Disconnect, Interrupted, Return,
                pointers, record
  <2> QED
    BY <2>1 DEF Session!vars
<1>3. CASE ProcessDeath
  BY <1>3 DEF ProcessDeath, StreamLost, Session!Next, Session!Crash
<1> QED
  BY <1>1, <1>2, <1>3, UiSession, RecorderSession DEF Next

\* The microphone test implements MicrophoneSession.
THEOREM Implementation == Spec => ImplementsSession
<1> QED
  BY InitSession, StepSession, Invariance, PTL DEF Spec, ImplementsSession, Session!Spec
-----------------------------------------------------------------------------
(* The other refinement. *)

\* A handle without a descriptor has no substream, and believes nothing of one.
Closed == fd = "none" => ~prepared /\ ~running /\ substream = "closed" /\ delay = 0

\* The blocks the library has.
Blocks == blocks - lost - (IF buffer THEN 1 ELSE 0)

LEMMA InitClosed == Init => Closed
BY DEF Init, StreamInit, Closed

LEMMA StepClosed == IInv /\ Closed /\ [Next]_vars => Closed'
<1> SUFFICES ASSUME IInv, Closed, [Next]_vars PROVE Closed'
  OBVIOUS
<1> USE DEF Closed
<1>1. CASE CheckOpen \/ RecordOpen
  <2>1. pcm_open({"PCM_IN"})
    BY <1>1 DEF CheckOpen, RecordOpen
  <2>2. fd = "none"
    BY <2>1 DEF pcm_open, OpenNoMemory, BadHandle, OpenFails, OpenFailsLate, OpenOk,
                NewHandle, IInv, Accounts, StreamTypeOK
  <2> QED
    BY <2>1, <2>2 DEF pcm_open, OpenNoMemory, BadHandle, OpenFails, OpenFailsLate,
                      OpenOk, NewHandle, kernel
<1>2. CASE CheckClose \/ RecordClose
  BY <1>2 DEF CheckClose, RecordClose, pcm_close
<1>3. CASE ProcessDeath
  BY <1>3 DEF ProcessDeath, StreamLost
<1>4. CASE UNCHANGED <<fd, prepared, running, substream, delay>>
  BY <1>4
<1>5. CASE CallStep \/ Kernel \/ pcm_read(Periods)
  <2>1. UNCHANGED fd
    BY <1>5 DEF CallStep, Top, AlreadyPrepared, PrepareOk, PrepareFails, StartOk, StartFails,
                WritePeriod, ReadPeriod, InitialDone, InitialFails, TransferDone,
                TransferXrun, TransferFails, Return, pointers, Kernel, Play, CapturePeriod,
                Suspend, Disconnect, Interrupted, pcm_read, Begin
  <2>2. ASSUME fd = "none" PROVE UNCHANGED <<prepared, running, substream, delay>>
    <3>1. place = "idle" /\ substream = "closed"
      BY <2>2 DEF IInv, Holders, Recording
    <3> QED
      BY <1>5, <2>2, <3>1 DEF CallStep, Top, AlreadyPrepared, AfterPrepare, PrepareOk,
                PrepareFails, StartOk, StartFails,
                WritePeriod, ReadPeriod, InitialDone, InitialFails, TransferDone,
                TransferXrun, TransferFails, Return, Goto, Kernel, Play, CapturePeriod,
                Suspend, Disconnect, Interrupted, pcm_read, Begin
  <2> QED
    BY <2>1, <2>2
<1> QED
  BY <1>1, <1>2, <1>3, <1>4, <1>5 DEF Next, vars, stream, pointers, state, kernel, ScanThread,
     UiThread, Recorder, PlayThread, Card, Confirm, Look, ParseCard, ParseDevice, CheckFailed,
     Checked, NameDevice, stopAudioRecord, StartAudioPlay, RecordFailed, RecordMalloc,
     RecordTest, RecordStep, RecordWrite, RecordFree, Abandon

\* What the test does not do to its blocks, it does not do to the library's.
LEMMA InitStream == Init => Stream!Init
<1> SUFFICES ASSUME Init PROVE Stream!StreamInit
  BY DEF Stream!Init
<1>1. Blocks = 0
  <2>1. blocks = 0 /\ lost = 0 /\ ~buffer
    BY Zenon DEF Init, StreamInit, Started
  <2>2. \A a, b \in Nat : a = 0 /\ b = 0 => a - b - 0 = 0
    OBVIOUS
  <2> QED
    BY <2>1, <2>2, Zenon DEF Blocks
<1> QED
  BY <1>1 DEF Init, StreamInit, Stream!StreamInit, Blocks

LEMMA SameCall ==
    ASSUME UNCHANGED <<lost, buffer>>
    PROVE  /\ CallStep => Stream!CallStep
           /\ Kernel => Stream!Kernel
           /\ \A n : pcm_read(n) => Stream!pcm_read(n)
<1> USE DEF pointers, state, kernel, progress, Stream!pointers, Stream!state, Stream!kernel,
            Stream!progress, Goto, Return, Begin, Stream!Goto, Stream!Return, Stream!Begin,
            Captures, Stream!Captures
<1>1. CallStep => Stream!CallStep
  BY DEF CallStep, Top, AlreadyPrepared, AfterPrepare, PrepareOk, PrepareFails, StartOk,
         StartFails, WritePeriod, ReadPeriod, InitialDone, InitialFails, TransferDone,
         TransferXrun, TransferFails, StartsAt,
         Stream!CallStep, Stream!Top, Stream!AlreadyPrepared, Stream!AfterPrepare,
         Stream!PrepareOk, Stream!PrepareFails, Stream!StartOk, Stream!StartFails,
         Stream!WritePeriod, Stream!ReadPeriod, Stream!InitialDone, Stream!InitialFails,
         Stream!TransferDone, Stream!TransferXrun, Stream!TransferFails, Stream!StartsAt
<1>2. Kernel => Stream!Kernel
  BY DEF Kernel, Play, CapturePeriod, Suspend, Disconnect, Interrupted, StopThreshold,
         Stream!Kernel, Stream!Play, Stream!CapturePeriod, Stream!Suspend,
         Stream!Disconnect, Stream!Interrupted, Stream!StopThreshold
<1>3. \A n : pcm_read(n) => Stream!pcm_read(n)
  BY DEF pcm_read, Stream!pcm_read
<1> QED
  BY <1>1, <1>2, <1>3

\* The check and the recording open a stream that captures; its blocks are the library's.
LEMMA OpenStream ==
    ASSUME IInv, pcm_open({"PCM_IN"}), UNCHANGED <<lost, buffer>>
    PROVE  Stream!Client
<1>1. blocks \in Nat /\ lost \in Nat
  BY DEF IInv, StreamTypeOK, OwnTypes
<1>2. Stream!pcm_open({"PCM_IN"})
  <2> USE <1>1
      DEF pcm_open, OpenNoMemory, BadHandle, OpenFails, OpenFailsLate, OpenOk, NewHandle,
      kernel, progress, MapsStatus, Stream!pcm_open, Stream!OpenNoMemory, Stream!BadHandle,
      Stream!OpenFails, Stream!OpenFailsLate, Stream!OpenOk, Stream!NewHandle,
      Stream!kernel, Stream!progress, Stream!MapsStatus
  <2>1. CASE OpenNoMemory
    BY <2>1
  <2>2. CASE OpenFails({"PCM_IN"})
    BY <2>2
  <2>3. CASE OpenFailsLate({"PCM_IN"})
    BY <2>3
  <2>4. CASE OpenOk({"PCM_IN"})
    BY <2>4
  <2> QED
    BY <2>1, <2>2, <2>3, <2>4
<1> QED
  BY <1>2 DEF Stream!Client, Stream!Flags

LEMMA CloseStream ==
    ASSUME IInv, pcm_close, UNCHANGED <<lost, buffer>>
    PROVE  Stream!Client
<1>1. blocks \in Nat /\ lost \in Nat
  BY DEF IInv, StreamTypeOK, OwnTypes
<1>2. Stream!pcm_close
  BY <1>1 DEF pcm_close, StatusPages, StatusBlocks, progress, Stream!pcm_close,
              Stream!StatusPages, Stream!StatusBlocks, Stream!progress
<1> QED
  BY <1>2 DEF Stream!Client

\* A handle that is dropped had nothing that pcm_close would have given back.
LEMMA AbandonStream == IInv /\ Closed /\ (CheckFailed \/ RecordFailed) => Stream!Client
<1> SUFFICES ASSUME IInv, Closed, CheckFailed \/ RecordFailed PROVE Stream!pcm_close
  BY DEF Stream!Client
<1>1. Abandon /\ UNCHANGED buffer
  BY DEF CheckFailed, RecordFailed, record
<1>2. fd = "none" /\ place = "idle" /\ handle # "none"
  BY DEF IInv, CheckFailed, RecordFailed, UiGoto, RecordGoto, Holders, Turns, Recording,
         StreamTypeOK
<1>3. /\ mmap_status = "null" /\ maps = {} /\ openFds = 0
      /\ ~prepared /\ ~running /\ substream = "closed" /\ delay = 0
  BY <1>2 DEF IInv, Accounts, One, Closed
<1>4. blocks \in Nat /\ lost \in Nat /\ prepared \in BOOLEAN /\ running \in BOOLEAN
      /\ handle \in {"bad", "live"}
  BY <1>2 DEF IInv, StreamTypeOK, OwnTypes
<1>5. Blocks' = IF handle = "bad" THEN Blocks ELSE Blocks - 1
  BY <1>1, <1>4 DEF Abandon, Blocks
<1>6. maps' = maps \ (Stream!StatusPages \cup IF "PCM_MMAP" \in flags THEN {"buffer"} ELSE {})
  BY <1>1, <1>3 DEF Abandon, Stream!StatusPages
<1>7. prepared' = FALSE /\ running' = FALSE /\ UNCHANGED <<kernel, progress, openFds, fd>>
  BY <1>1, <1>3, <1>4 DEF Abandon, state
<1>8. Stream!StatusBlocks = 0
  BY <1>3 DEF Stream!StatusBlocks
<1> QED
  BY <1>1, <1>2, <1>3, <1>4, <1>5, <1>6, <1>7, <1>8
  DEF Abandon, kernel, progress, Blocks, Stream!pcm_close, Stream!progress

\* Every step is a call, a step of a call, the card's, a death, or none of the library's.
LEMMA StepStream == IInv /\ Closed /\ [Next]_vars => [Stream!Next]_(Stream!vars)
<1> SUFFICES ASSUME IInv, Closed, [Next]_vars PROVE [Stream!Next]_(Stream!vars)
  OBVIOUS
<1> USE DEF Stream!Next
<1>1. CASE CheckOpen \/ RecordOpen
  BY <1>1, OpenStream DEF CheckOpen, RecordOpen, record
<1>2. CASE CheckClose \/ RecordClose
  BY <1>2, CloseStream DEF CheckClose, RecordClose, record
<1>3. CASE CheckFailed \/ RecordFailed
  BY <1>3, AbandonStream
<1>4. CASE RecordTest \/ RecordStep \/ Card
  <2>1. UNCHANGED <<lost, buffer>>
    BY <1>4 DEF RecordTest, RecordStep, Card, record
  <2>2. CASE CallStep \/ Kernel
    BY <2>1, <2>2, SameCall
  <2>3. CASE pcm_read(Periods)
    <3>1. Periods \in 1..(Periods + 1)
      BY Constants
    <3> QED
      BY <2>1, <2>3, <3>1, SameCall DEF Stream!Client
  <2>4. CASE UNCHANGED stream
    BY <2>1, <2>4 DEF stream, pointers, state, kernel, progress, Stream!vars, Stream!stream,
                      Stream!pointers, Stream!state, Stream!kernel, Stream!progress
  <2> QED
    BY <1>4, <2>2, <2>3, <2>4 DEF RecordTest, RecordStep, Card
<1>5. CASE RecordMalloc \/ RecordFree
  <2>1. UNCHANGED <<flags, handle, fd, mmap_buffer, mmap_status, openFds, maps, state, kernel,
                    progress>>
    BY <1>5 DEF RecordMalloc, RecordFree
  <2>2. blocks \in Nat /\ lost \in Nat /\ UNCHANGED lost
    BY <1>5 DEF IInv, StreamTypeOK, OwnTypes, RecordMalloc, RecordFree
  <2>3. Blocks' = Blocks
    BY <1>5, <2>2 DEF Blocks, RecordMalloc, RecordFree, RecordGoto, IInv, Turns
  <2> QED
    BY <2>1, <2>3 DEF Blocks, state, kernel, progress, Stream!vars, Stream!stream,
                      Stream!pointers, Stream!state, Stream!kernel, Stream!progress
<1>6. CASE ProcessDeath
  <2>1. Blocks' = 0
    <3>1. blocks' = 0 /\ lost' = 0 /\ ~buffer'
      BY <1>6, Zenon DEF ProcessDeath, StreamLost
    <3>2. \A a, b \in Nat : a = 0 /\ b = 0 => a - b - 0 = 0
      OBVIOUS
    <3> QED
      BY <3>1, <3>2 DEF Blocks
  <2> QED
    BY <1>6, <2>1 DEF ProcessDeath, StreamLost, Blocks, Stream!ProcessDeath, Stream!StreamLost
<1>7. CASE UNCHANGED <<stream, lost, buffer>>
  BY <1>7 DEF stream, pointers, state, kernel, progress, Stream!vars, Stream!stream,
              Stream!pointers, Stream!state, Stream!kernel, Stream!progress
<1> QED
  BY <1>1, <1>2, <1>3, <1>4, <1>5, <1>6, <1>7
  DEF Next, ScanThread, UiThread, Recorder, PlayThread, Confirm, Look, ParseCard, ParseDevice,
      Checked, NameDevice, stopAudioRecord, StartAudioPlay, RecordWrite, record, vars

\* The microphone test implements PcmStream: whatever its threads do, the library meets one
\* client that keeps to the order of calls it is made for.
THEOREM StreamImplementation == Spec => ImplementsStream
<1>1. Init => IInv /\ Closed
  BY InitIInv, InitClosed
<1>2. IInv /\ Closed /\ [Next]_vars => (IInv /\ Closed)'
  BY StepIInv, StepClosed
<1> QED
  BY <1>1, <1>2, InitStream, StepStream, PTL DEF Spec, ImplementsStream, Stream!Spec

-----------------------------------------------------------------------------
(* The end of a recording. *)

\* What is left of the thread's way to its end.
LEMMA RecorderLeftNumber ==
    /\ IInv => RecorderLeft \in Nat
    /\ IInv' => RecorderLeft' \in Nat
<1>1. ASSUME IInv PROVE RecorderLeft \in Nat
  <2>1. StepsLeft \in Nat
    BY <1>1, StepsLeftTypes DEF IInv
  <2> QED
    BY <1>1, <2>1 DEF IInv, OwnTypes, RecorderLeft
<1>2. ASSUME IInv' PROVE RecorderLeft' \in Nat
  <2>1. StepsLeft' \in Nat
    BY <1>2, StepsLeftTypes DEF IInv
  <2> QED
    BY <1>2, <2>1 DEF IInv, OwnTypes, RecorderLeft
<1> QED
  BY <1>1, <1>2

\* The steps of the thread. The loop is not entered again, and of a read the steps that are
\* left get less.
LEMMA RecorderGetsLess ==
    ASSUME IInv, Recorder, ~capturing, ~Restarts
    PROVE  RecorderLeft' < RecorderLeft
<1>1. /\ StreamTypeOK /\ StepsLeft \in Nat
      /\ RecorderLeft \in Nat /\ RecorderLeft' \in Nat
  <2>1. IInv'
    BY StepIInv DEF Next
  <2> QED
    BY <2>1, StepsLeftTypes, RecorderLeftNumber DEF IInv
<1>2. CASE RecordOpen \/ RecordFailed \/ RecordMalloc \/ RecordFree \/ RecordClose
  BY <1>2 DEF RecordOpen, RecordFailed, RecordMalloc, RecordFree, RecordClose, RecordGoto,
              RecorderLeft
<1>3. CASE RecordTest
  BY <1>3 DEF RecordTest, RecordGoto, RecorderLeft
<1>4. CASE RecordStep
  <2>1. recorder = "read" /\ recorder' = "read" /\ CallStep
    BY <1>4 DEF RecordStep
  <2>2. StepsLeft' < StepsLeft /\ StepsLeft' \in Nat
    BY <1>1, <2>1, StepsGetLess, CallTypes, StepsLeftTypes
  <2>3. RecorderLeft = 4 + StepsLeft /\ RecorderLeft' = 4 + StepsLeft'
    BY <2>1 DEF RecorderLeft
  <2>4. \A m, n \in Nat : m < n => 4 + m < 4 + n
    OBVIOUS
  <2>5. 4 + StepsLeft' < 4 + StepsLeft
    BY <1>1, <2>2, <2>4, Zenon
  <2> QED
    BY <2>3, <2>5, Zenon
<1>5. CASE RecordWrite
  BY <1>1, <1>5 DEF RecordWrite, RecordGoto, RecorderLeft
<1> QED
  BY <1>2, <1>3, <1>4, <1>5 DEF Recorder

\* The steps of the others.
LEMMA OthersDoNotDelay ==
    ASSUME IInv, Next, ~Recorder, ~capturing, recorder # "none"
    PROVE  RecorderLeft' <= RecorderLeft
<1>1. IInv' /\ RecorderLeft \in Nat
  BY StepIInv, RecorderLeftNumber
<1>2. CASE ScanThread \/ UiThread \/ PlayThread
  <2>1. ui \in {"play", "done"}
    BY DEF IInv, Turns
  <2>2. UNCHANGED <<stream, recorder>>
    BY <1>2, <2>1
    DEF ScanThread, UiThread, PlayThread, Confirm, Look, ParseCard, ParseDevice, CheckOpen,
        CheckClose, CheckFailed, Checked, NameDevice, stopAudioRecord, StartAudioPlay, UiGoto
  <2>3. RecorderLeft' = RecorderLeft
    BY <2>2 DEF stream, progress, StepsLeft, RecorderLeft
  <2> QED
    BY <1>1, <2>3
<1>3. CASE Card
  <2>1. UNCHANGED recorder /\ Kernel
    BY <1>3 DEF Card
  <2>2. StepsLeft \in Nat /\ StepsLeft' \in Nat
    BY <1>1, StepsLeftTypes DEF IInv
  <2>3. StepsLeft' <= StepsLeft
    <3>1. CASE Interrupted
      <4>1. ~Restarts
        BY <3>1 DEF Interrupted, Return, Goto, Restarts
      <4>2. StepsLeft' < StepsLeft
        BY <3>1, <4>1, StepsGetLess DEF IInv
      <4> QED
        BY <2>2, <4>2
    <3>2. CASE Play \/ CapturePeriod \/ Suspend \/ Disconnect
      BY <2>2, <3>2, StepsStay
    <3> QED
      BY <2>1, <3>1, <3>2 DEF Kernel
  <2> QED
    BY <1>1, <2>1, <2>2, <2>3 DEF IInv, OwnTypes, RecorderLeft
<1>4. CASE ProcessDeath
  <2>1. RecorderLeft' = 0
    BY <1>4 DEF ProcessDeath, RecorderLeft
  <2> QED
    BY <1>1, <2>1
<1> QED
  BY <1>2, <1>3, <1>4 DEF Next

\* Once the recording was ended only an overrun keeps the thread from its end
\* (startAudioRecord, stopAudioRecord, pcm_read).
THEOREM RecordingComesToAnEnd == Spec => OnlyOverrunsDelay
<1>1. IInv /\ IInv' /\ [Next]_vars =>
          [~capturing /\ recorder \notin {"none", "exited"} /\ ~Restarts =>
               /\ RecorderLeft' <= RecorderLeft
               /\ Recorder => RecorderLeft' < RecorderLeft]_vars
  <2> SUFFICES ASSUME IInv, IInv', Next, ~capturing, recorder \notin {"none", "exited"},
                      ~Restarts
               PROVE  /\ RecorderLeft' <= RecorderLeft
                      /\ Recorder => RecorderLeft' < RecorderLeft
    OBVIOUS
  <2>1. RecorderLeft \in Nat /\ RecorderLeft' \in Nat
    BY RecorderLeftNumber
  <2>2. CASE Recorder
    BY <2>1, <2>2, RecorderGetsLess
  <2>3. CASE ~Recorder
    BY <2>3, OthersDoNotDelay
  <2> QED
    BY <2>2, <2>3
<1> QED
  BY <1>1, Invariance, PTL DEF Spec, OnlyOverrunsDelay
=============================================================================
