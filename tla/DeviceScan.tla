----------------------------- MODULE DeviceScan -----------------------------
(***************************************************************************)
(* Finding the USB camera, and checking it: DeviceScan.java as             *)
(* DevicePermissionActivity.java uses it.                                  *)
(*                                                                         *)
(* The user is asked to plug the camera in, or out and in, and to press a  *)
(* button.  Two threads list the device nodes of one kind each, over and   *)
(* over, and take the nodes by which two lists differ for the camera's.    *)
(* The button's handler lowers the flags the threads loop on, reads the    *)
(* names they left and has the native libraries try those devices, the     *)
(* camera with the functions of V4l2Device.  The flags and the names are   *)
(* plain static fields; no thread waits for another.                       *)
(***************************************************************************)
EXTENDS Integers, FiniteSets

CONSTANTS
    PcmNodes,       \* names in /dev/snd: records [card, device, capture]
    VideoNodes,     \* names in /dev: records [number]
    MaxChanges,     \* bound: how often a node appears or disappears
    MaxBuffers,     \* see V4l2Device
    None            \* null

ASSUME NodesAssumption ==
    /\ PcmNodes \subseteq [card : 0..31, device : 0..31, capture : BOOLEAN]
    /\ VideoNodes \subseteq [number : 0..63]
    /\ MaxChanges \in Nat
    /\ None \notin PcmNodes \cup VideoNodes \cup [number : Nat]

ASSUME BuffersAssumption == MaxBuffers \in Nat /\ MaxBuffers >= 2

Kinds == {"pcm", "video"}

Nodes(k) == IF k = "pcm" THEN PcmNodes ELSE VideoNodes

VARIABLES
    present,    \* the device nodes there are
    changes,    \* how many came and went
    last,       \* lastPcmScanResult, lastVideoScanResult
    cur,        \* curPcmScanResult, curVideoScanResult
    target,     \* targetPcmScanResult, targetVideoScanResult
    todo,       \* the targets the loop over them has not reached
    name,       \* pcmDeviceName, videoDeviceName
    doScan,     \* doPcmDevicesScan, doVideoDevicesScan
    scan,       \* where the thread of each kind is
    ui,         \* where the button's handler is
    tried,      \* the node each check was asked about
    opened,     \* the node the native library opened for that
    shown,      \* the node whose name is shown with the result
    result,     \* mPcmDevicesResult, mVideoDevicesResult
    fd, buffers, n_buffers, planes, openFds, mapped, blocks, queued, fault  \* see V4l2Device

\* The library, at work on the camera whose node it was given.
CameraPresent == opened["video"] \in present["video"]

Camera == INSTANCE V4l2Device WITH present <- CameraPresent

environment == <<present, changes>>
lists   == <<last, cur, target, todo>>
scanner == <<lists, name, scan>>
camera  == <<fd, buffers, n_buffers, planes, openFds, mapped, blocks, queued, fault>>
answers == <<tried, opened, shown, result>>
checks  == <<answers, camera>>
vars    == <<environment, scanner, doScan, ui, checks>>

TypeOK ==
    /\ changes \in 0..MaxChanges
    /\ ui \in {"shown", "findPcm", "checkPcm", "findVideo", "checkVideo", "openVideo",
               "initVideo", "uninitVideo", "closeVideo", "nameVideo", "done"}
    /\ Camera!DeviceTypeOK
    /\ \A k \in Kinds :
          /\ present[k] \subseteq Nodes(k) /\ last[k] \subseteq Nodes(k)
          /\ cur[k] \subseteq Nodes(k) /\ target[k] \subseteq Nodes(k)
          /\ todo[k] \subseteq target[k]
          /\ name[k] \in Nodes(k) \cup {None}
          /\ doScan[k] \in BOOLEAN
          /\ scan[k] \in {"path", "test", "list", "compare", "pick", "exited"}
          /\ tried[k] \in Nodes(k) \cup {None}
          /\ shown[k] \in Nodes(k) \cup {None}
          /\ result[k] \in {"none", "notFound", "checked"}

\* Everything but the nodes, in a new process whose activity has called beginScan.
Created ==
    /\ last = [k \in Kinds |-> {}] /\ cur = [k \in Kinds |-> {}]
    /\ target = [k \in Kinds |-> {}] /\ todo = [k \in Kinds |-> {}]
    /\ name = [k \in Kinds |-> None]
    /\ doScan = [k \in Kinds |-> TRUE]
    /\ scan = [k \in Kinds |-> "path"]
    /\ ui = "shown"
    /\ tried = [k \in Kinds |-> None] /\ opened = [k \in Kinds |-> None]
    /\ shown = [k \in Kinds |-> None]
    /\ result = [k \in Kinds |-> "none"]

Init ==
    /\ present \in {p \in [Kinds -> SUBSET PcmNodes \cup SUBSET VideoNodes] :
                       \A k \in Kinds : p[k] \subseteq Nodes(k)}
    /\ changes = 0
    /\ Created
    /\ Camera!Loaded

-----------------------------------------------------------------------------
(* The device nodes. *)

Change(k, n) ==
    /\ changes < MaxChanges
    /\ changes' = changes + 1
    /\ present' = [present EXCEPT ![k] = IF n \in @ THEN @ \ {n} ELSE @ \cup {n}]
    /\ UNCHANGED <<scanner, doScan, ui, answers>>
    /\ IF k = "video" /\ n = opened["video"]
       THEN Camera!Unplug \/ Camera!Plug
       ELSE UNCHANGED camera

-----------------------------------------------------------------------------
(* The scanning thread of kind k. *)

ScanGoto(k, here, there) == scan[k] = here /\ scan' = [scan EXCEPT ![k] = there]

\* checkDevicePath: without the directory there is nothing to scan.
CheckDevicePath(k) ==
    /\ ScanGoto(k, "path", "test")
    /\ doScan' \in {doScan, [doScan EXCEPT ![k] = FALSE]}
    /\ UNCHANGED <<environment, lists, name, ui, checks>>

\* Variant: a thread that ends takes its name along.
TestScanForgets(k) ==
    /\ ScanGoto(k, "test", IF doScan[k] THEN "list" ELSE "exited")
    /\ name' = [name EXCEPT ![k] = IF doScan[k] THEN @ ELSE None]
    /\ UNCHANGED <<environment, lists, doScan, ui, checks>>

\* while (doPcmDevicesScan)
TestScan(k) ==
    /\ ScanGoto(k, "test", IF doScan[k] THEN "list" ELSE "exited")
    /\ UNCHANGED <<environment, lists, name, doScan, ui, checks>>

\* listFiles, into a current list that is emptied first.
ListNodes(k) ==
    /\ ScanGoto(k, "list", "compare")
    /\ cur' = [cur EXCEPT ![k] = present[k]]
    /\ UNCHANGED <<environment, last, target, todo, name, doScan, ui, checks>>

\* An empty last list counts as one that was never filled.
TakeBaseline(k) ==
    /\ last[k] = {}
    /\ ScanGoto(k, "compare", "test")
    /\ last' = [last EXCEPT ![k] = cur[k]]
    /\ UNCHANGED <<environment, cur, target, todo, name, doScan, ui, checks>>

\* Lists of one size are taken for the same list.
SameSize(k) ==
    /\ last[k] # {}
    /\ Cardinality(last[k]) = Cardinality(cur[k])
    /\ ScanGoto(k, "compare", "test")
    /\ UNCHANGED <<environment, lists, name, doScan, ui, checks>>

\* Variant: only a list that has grown is compared.
OtherSizeGrown(k) ==
    /\ last[k] # {}
    /\ Cardinality(last[k]) < Cardinality(cur[k])
    /\ ScanGoto(k, "compare", "pick")
    /\ cur' = [cur EXCEPT ![k] = @ \ last[k]]
    /\ target' = [target EXCEPT ![k] = cur'[k]]
    /\ todo' = target'
    /\ UNCHANGED <<environment, last, name, doScan, ui, checks>>

\* removeAll takes the shorter list out of the longer one.
OtherSize(k) ==
    /\ last[k] # {}
    /\ Cardinality(last[k]) # Cardinality(cur[k])
    /\ ScanGoto(k, "compare", "pick")
    /\ LET longer  == IF Cardinality(last[k]) > Cardinality(cur[k]) THEN last[k] ELSE cur[k]
           shorter == IF longer = last[k] THEN cur[k] ELSE last[k]
       IN  /\ target' = [target EXCEPT ![k] = @ \cup (longer \ shorter)]
           /\ todo' = [todo EXCEPT ![k] = target'[k]]
    /\ last' = [last EXCEPT ![k] = IF Cardinality(@) > Cardinality(cur[k])
                                   THEN @ \ cur[k] ELSE @]
    /\ cur' = [cur EXCEPT ![k] = IF Cardinality(@) > Cardinality(last[k])
                                 THEN @ \ last[k] ELSE @]
    /\ UNCHANGED <<environment, name, doScan, ui, checks>>

\* Variants: both threads fill in pcmDeviceName; the names are taken from both
\* lists; only the nodes that play count.
PickTargetPcm(k) ==
    /\ scan[k] = "pick"
    /\ \E n \in todo[k] :
          /\ todo' = [todo EXCEPT ![k] = @ \ {n}]
          /\ name' = [name EXCEPT !["pcm"] = n]
    /\ UNCHANGED <<environment, last, cur, target, scan, doScan, ui, checks>>

PickTargetBoth(k) ==
    /\ scan[k] = "pick"
    /\ \E n \in last[k] \cup cur[k] :
          /\ todo' = [todo EXCEPT ![k] = @ \ {n}]
          /\ name' = [name EXCEPT ![k] = n]
    /\ UNCHANGED <<environment, last, cur, target, scan, doScan, ui, checks>>

PickTargetPlays(k) ==
    /\ scan[k] = "pick"
    /\ \E n \in todo[k] :
          /\ todo' = [todo EXCEPT ![k] = @ \ {n}]
          /\ name' = IF k = "video" \/ ~n.capture THEN [name EXCEPT ![k] = n] ELSE name
    /\ UNCHANGED <<environment, last, cur, target, scan, doScan, ui, checks>>

\* One target after the other, in the order listFiles happened to give; a pcm node counts
\* when it captures. The last one that counts stays.
PickTarget(k) ==
    /\ scan[k] = "pick"
    /\ \E n \in todo[k] :
          /\ todo' = [todo EXCEPT ![k] = @ \ {n}]
          /\ name' = IF k = "video" \/ n.capture THEN [name EXCEPT ![k] = n] ELSE name
    /\ UNCHANGED <<environment, last, cur, target, scan, doScan, ui, checks>>

PickedAll(k) ==
    /\ todo[k] = {}
    /\ ScanGoto(k, "pick", "test")
    /\ doScan' = [doScan EXCEPT ![k] = FALSE]
    /\ UNCHANGED <<environment, lists, name, ui, checks>>

Scanner(k) ==
    \/ CheckDevicePath(k) \/ TestScan(k) \/ ListNodes(k)
    \/ TakeBaseline(k) \/ SameSize(k) \/ OtherSize(k)
    \/ PickTarget(k) \/ PickedAll(k)

-----------------------------------------------------------------------------
(* The handler of the button. *)

Goto(here, there) == ui = here /\ ui' = there

\* The flags are lowered; a thread sees that when it next tests its flag.
Confirm ==
    /\ Goto("shown", "findPcm")
    /\ doScan' = [k \in Kinds |-> FALSE]
    /\ UNCHANGED <<environment, scanner, checks>>

\* getPcmDevices, getVideoDevices: a first look at the name, which another one follows.
Find(k, here, check, next) ==
    /\ IF name[k] # None
       THEN Goto(here, check) /\ UNCHANGED result
       ELSE Goto(here, next) /\ result' = [result EXCEPT ![k] = "notFound"]
    /\ UNCHANGED <<environment, scanner, doScan, tried, opened, shown, camera>>

FindPcm == Find("pcm", "findPcm", "checkPcm", "findVideo")

FindVideo == Find("video", "findVideo", "checkVideo", "done")

\* The digits of a name are read one at a time: the first digit of a number.
FirstDigit(n) == IF n < 10 THEN n ELSE n \div 10

\* pcmC<card>D<device>c: charAt(4) and charAt(6), which is no digit of the device when the
\* card has two: parseInt throws, and the process ends.
CheckPcm ==
    /\ Goto("checkPcm", "findVideo")
    /\ name["pcm"].card < 10
    /\ tried' = [tried EXCEPT !["pcm"] = name["pcm"]]
    /\ opened' = [opened EXCEPT !["pcm"] =
                     [card |-> name["pcm"].card, device |-> FirstDigit(name["pcm"].device),
                      capture |-> TRUE]]
    /\ result' = [result EXCEPT !["pcm"] = "checked"]
    /\ UNCHANGED <<environment, scanner, doScan, shown, camera>>

\* checkCamerabase: 4 when video0 to video3 are all there.
Camerabase == IF {[number |-> i] : i \in 0..3} \subseteq present["video"] THEN 4 ELSE 0

\* video<n>: charAt(5). The library adds its base to that; the base passed is not used.
CheckVideo ==
    /\ Goto("checkVideo", "openVideo")
    /\ tried' = [tried EXCEPT !["video"] = name["video"]]
    /\ opened' = [opened EXCEPT !["video"] = 
                     [number |-> Camerabase + FirstDigit(name["video"].number)]]
    /\ UNCHANGED <<environment, scanner, doScan, shown, result, camera>>

\* checkCameraWithBase opens the camera, and if it could, initialises it and gives it back,
\* whatever came of that. A fault ends the process.
Library(action) == UNCHANGED <<environment, scanner, doScan, answers>> /\ action

OpenVideo ==
    Library(\/ Goto("openVideo", "initVideo") /\ Camera!OpenDeviceOk
            \/ Goto("openVideo", "nameVideo") /\ Camera!OpenDeviceFails)

\* Variant: only a camera that could be initialised is given back.
InitVideoReturns ==
    Library(\/ Goto("initVideo", "uninitVideo") /\ Camera!InitDeviceOk
            \/ Goto("initVideo", "nameVideo") /\ Camera!InitDeviceFails)

InitVideo ==
    Library(/\ Goto("initVideo", "uninitVideo")
            /\ Camera!InitDeviceOk \/ Camera!InitDeviceFails \/ Camera!InitDeviceNotACamera)

UninitVideo == Library(Goto("uninitVideo", "closeVideo") /\ Camera!UninitDevice)

CloseVideo == Library(Goto("closeVideo", "nameVideo") /\ Camera!CloseDevice)

\* The result is shown beside the name, read for the third time.
NameVideo ==
    /\ Goto("nameVideo", "done")
    /\ shown' = [shown EXCEPT !["video"] = name["video"]]
    /\ result' = [result EXCEPT !["video"] = "checked"]
    /\ UNCHANGED <<environment, scanner, doScan, tried, opened, camera>>

Handler ==
    /\ fault = "none"
    /\ \/ Confirm \/ FindPcm \/ CheckPcm \/ FindVideo \/ CheckVideo
       \/ OpenVideo \/ InitVideo \/ UninitVideo \/ CloseVideo \/ NameVideo

\* onPause kills the process; the next one starts over.
ProcessDeath ==
    /\ last' = [k \in Kinds |-> {}] /\ cur' = [k \in Kinds |-> {}]
    /\ target' = [k \in Kinds |-> {}] /\ todo' = [k \in Kinds |-> {}]
    /\ name' = [k \in Kinds |-> None]
    /\ doScan' = [k \in Kinds |-> TRUE]
    /\ scan' = [k \in Kinds |-> "path"]
    /\ ui' = "shown"
    /\ tried' = [k \in Kinds |-> None] /\ opened' = [k \in Kinds |-> None]
    /\ shown' = [k \in Kinds |-> None]
    /\ result' = [k \in Kinds |-> "none"]
    /\ Camera!Reload
    /\ UNCHANGED environment

Next ==
    \/ \E k \in Kinds : Scanner(k) \/ \E n \in Nodes(k) : Change(k, n)
    \/ Handler
    \/ ProcessDeath

Spec == Init /\ [][Next]_vars

\* Both threads and the handler are scheduled. No node has to come or go, nobody has to
\* press the button, and the process does not have to die.
Fairness ==
    /\ \A k \in Kinds : WF_vars(Scanner(k))
    /\ WF_vars(Handler /\ ui # "shown")

FairSpec == Spec /\ Fairness

-----------------------------------------------------------------------------
(* What makes the scan and the checks correct. *)

\* The handler reads a name up to three times while the thread may still write it. The
\* name shown with the result of the camera is the one that was checked, unless several
\* nodes came or went at once: only then is there more than one target to go through.
ReportMatchesCheck ==
    shown["video"] # None /\ shown["video"] # tried["video"]
        => Cardinality(target["video"]) > 1

Checking == {"checkVideo", "openVideo", "initVideo", "uninitVideo", "closeVideo"}

\* A name that was not null at the first look is not null at the later ones, which use it
\* unchecked, whatever the thread does in between.
ReadsAgain ==
    /\ ui = "checkPcm" => name["pcm"] # None
    /\ ui \in Checking \cup {"nameVideo"} => name["video"] # None

\* "No device found" is never said of a kind whose thread had finished with a node the
\* check can use: the scan leaves every target it found to the handler.
Usable(k) == {n \in target[k] : k = "video" \/ n.capture}

NotFoundIsFinal ==
    [][\A k \in Kinds :
          (result[k] # "notFound" /\ result'[k] = "notFound" /\ scan[k] = "exited")
              => Usable(k) = {}]_vars

\* A change in the number of nodes that lasts ends the scan with targets, unless the
\* button ends it before.
ChangeIsFound ==
    \A k \in Kinds :
        (doScan[k] /\ last[k] # {} /\ Cardinality(present[k]) # Cardinality(last[k]))
            ~> (\/ ~doScan[k] \/ target[k] # {} \/ last[k] = {}
                \/ Cardinality(present[k]) = Cardinality(last[k]))

\* The check leaves nothing behind: no descriptor, mapping or heap block, whichever step
\* failed, and although the camera may go and come back at any moment.
CheckLeavesNothing ==
    (ui \notin Checking /\ fault = "none") =>
        fd = "none" /\ openFds = 0 /\ mapped = 0 /\ blocks = 0

-----------------------------------------------------------------------------
(* What a comment says, and the code does not do. *)

\* checkCameraWithBase(videoId, 0): the camera checked is the one that was found.
CheckedNodeIsFound == opened["video"] # None => opened["video"] = tried["video"]

\* When it is not: the check is asked for a camera while video0 to video3 are all there, or
\* for one whose number has two digits.
AsksForAnother == CheckVideo /\ (Camerabase # 0 \/ name["video"].number >= 10)
=============================================================================
