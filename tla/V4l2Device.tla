----------------------------- MODULE V4l2Device -----------------------------
(***************************************************************************)
(* The native camera library of the application, jni/v4l2/ImageProc.c: its *)
(* globals, what the kernel and the heap hold on its behalf, and one       *)
(* action per C function.  The JNI entry points are sequences of these     *)
(* functions; the modules that model their callers (V4l2Preview,           *)
(* DeviceScan) say in which order they are called.                         *)
(*                                                                         *)
(* A C function that may fail has one action for success and one for       *)
(* failure, since the callers branch on the returned value.                *)
(***************************************************************************)
EXTENDS Naturals

CONSTANT MaxBuffers     \* the most buffers the driver grants (4 are asked for)

ASSUME MaxBuffersAssumption == MaxBuffers \in Nat /\ MaxBuffers >= 2

VARIABLES
    present,    \* the camera is plugged in: its /dev/video node can be opened
    fd,         \* "none" is -1; "stale" is an open descriptor of a camera pulled out
    buffers,    \* the table of mapped buffers
    n_buffers,  \* its length, as the code remembers it
    planes,     \* rgb and ybuf, the converted image
    openFds,    \* descriptors of a camera the process holds open
    mapped,     \* kernel buffers mapped into the process
    blocks,     \* heap blocks allocated and not freed
    queued,     \* buffers the driver may fill
    fault       \* the undefined behaviour met, if any

globals == <<fd, buffers, n_buffers, planes>>
held    == <<openFds, mapped, blocks, queued>>
device  == <<present, globals, held, fault>>

\* What a C pointer designates.
Pointer == {"null", "live", "freed"}

\* "dangling": a freed table is read or freed, or a null one read; "literal": a write
\* into a string constant; "unlocked": a write through the pointer lockPixels never set.
Fault == {"none", "dangling", "literal", "unlocked"}

DeviceTypeOK ==
    /\ present \in BOOLEAN
    /\ fd \in {"none", "open", "stale"}
    /\ buffers \in Pointer
    /\ n_buffers \in 0..MaxBuffers
    /\ planes \in [{"rgb", "ybuf"} -> Pointer]
    /\ openFds \in Nat /\ mapped \in Nat /\ blocks \in Nat
    /\ queued \in 0..MaxBuffers
    /\ fault \in Fault

\* The globals of a process that has just loaded the library.
Loaded ==
    /\ fd = "none"
    /\ buffers = "null"
    /\ n_buffers = 0
    /\ planes = [p \in {"rgb", "ybuf"} |-> "null"]
    /\ openFds = 0 /\ mapped = 0 /\ blocks = 0 /\ queued = 0
    /\ fault = "none"

DeviceInit == present \in BOOLEAN /\ Loaded

-----------------------------------------------------------------------------
(* The camera and the process. *)

\* The camera is pulled out: the node goes, an open descriptor only fails from now on.
Unplug ==
    /\ present
    /\ present' = FALSE
    /\ fd' = IF fd = "open" THEN "stale" ELSE fd
    /\ UNCHANGED <<buffers, n_buffers, planes, held, fault>>

\* A camera is plugged in. A descriptor of the former one stays stale.
Plug ==
    /\ ~present
    /\ present' = TRUE
    /\ UNCHANGED <<globals, held, fault>>

\* The process ends: the kernel takes back all it held.
Reload ==
    /\ fd' = "none" /\ buffers' = "null" /\ n_buffers' = 0
    /\ planes' = [p \in {"rgb", "ybuf"} |-> "null"]
    /\ openFds' = 0 /\ mapped' = 0 /\ blocks' = 0 /\ queued' = 0
    /\ fault' = "none"

Unload == Reload /\ UNCHANGED present

-----------------------------------------------------------------------------
(* Opening. *)

OpenDeviceOk ==
    /\ present
    /\ fd' = "open"
    /\ openFds' = openFds + 1
    /\ UNCHANGED <<present, buffers, n_buffers, planes, mapped, blocks, queued, fault>>

\* stat() refuses before fd is assigned; open() assigns -1 to it.
OpenDeviceFails ==
    /\ fd' \in {fd, "none"}
    /\ UNCHANGED <<present, buffers, n_buffers, planes, held, fault>>

\* req.count kernel buffers, a table of as many entries, every one mapped.
InitMmapOk ==
    /\ fd = "open"
    /\ \E count \in 2..MaxBuffers :
          /\ n_buffers' = count
          /\ mapped' = mapped + count
    /\ buffers' = "live"
    /\ blocks' = blocks + 1
    /\ UNCHANGED <<present, fd, planes, openFds, queued, fault>>

\* Variant: the mappings made before the failure are not counted in n_buffers.
InitMmapUncounted ==
    /\ buffers' = "live" /\ blocks' = blocks + 1
    /\ \E done \in 0..(MaxBuffers - 1) : mapped' = mapped + done
    /\ UNCHANGED <<present, fd, n_buffers, planes, openFds, queued, fault>>

\* VIDIOC_REQBUFS fails or grants too little, or calloc fails, or the loop over the
\* buffers stops at n_buffers, which then counts the ones already mapped.
InitMmapFails ==
    /\ \/ UNCHANGED <<buffers, n_buffers, mapped, blocks>>
       \/ buffers' = "null" /\ UNCHANGED <<n_buffers, mapped, blocks>>
       \/ /\ buffers' = "live"
          /\ blocks' = blocks + 1
          /\ \E done \in 0..(MaxBuffers - 1) :
                n_buffers' = done /\ mapped' = mapped + done
    /\ UNCHANGED <<present, fd, planes, openFds, queued, fault>>

InitDeviceOk == InitMmapOk

\* VIDIOC_QUERYCAP or VIDIOC_S_FMT fails, with nothing done yet, or initmmap does.
InitDeviceFails == UNCHANGED device \/ InitMmapFails

\* The device cannot capture, or cannot stream: the message that says so is printed
\* into the format string itself.
InitDeviceNotACamera ==
    /\ fd = "open"
    /\ fault' = "literal"
    /\ UNCHANGED <<present, globals, held>>

\* Variant: the loop that queues the buffers runs once too often.
StartCapturingOneMore ==
    /\ fd = "open"
    /\ queued' = n_buffers + 1
    /\ UNCHANGED <<present, globals, openFds, mapped, blocks, fault>>

StartCapturingOk ==
    /\ fd = "open"
    /\ queued' = n_buffers
    /\ UNCHANGED <<present, globals, openFds, mapped, blocks, fault>>

\* A VIDIOC_QBUF fails after some, or VIDIOC_STREAMON after all.
StartCapturingFails ==
    /\ queued' \in 0..n_buffers
    /\ UNCHANGED <<present, globals, openFds, mapped, blocks, fault>>

\* Variant: planes allocated once, for a pointer that is still null.
AllocatePlanesOnce ==
    /\ planes' = [p \in DOMAIN planes |-> IF planes[p] = "null" THEN "live" ELSE planes[p]]
    /\ blocks' = blocks + (IF planes["rgb"] = "null" THEN 1 ELSE 0)
                        + (IF planes["ybuf"] = "null" THEN 1 ELSE 0)
    /\ UNCHANGED <<present, fd, buffers, n_buffers, openFds, mapped, queued, fault>>

\* The image planes of a camera that streams: each malloc may fail on its own.
AllocatePlanes ==
    /\ planes' \in [{"rgb", "ybuf"} -> {"null", "live"}]
    /\ blocks' = blocks + (IF planes'["rgb"] = "live" THEN 1 ELSE 0)
                        + (IF planes'["ybuf"] = "live" THEN 1 ELSE 0)
    /\ UNCHANGED <<present, fd, buffers, n_buffers, openFds, mapped, queued, fault>>

-----------------------------------------------------------------------------
(* Closing. *)

\* VIDIOC_STREAMOFF hands every queued buffer back; on a descriptor that is not open
\* it fails, and no caller looks at that.
StopCapturing ==
    /\ queued' = IF fd = "open" THEN 0 ELSE queued
    /\ UNCHANGED <<present, globals, openFds, mapped, blocks, fault>>

\* munmap of the first n_buffers entries, then free. Neither buffers nor n_buffers is
\* reset; free(NULL) is allowed.
UninitDevice ==
    /\ \/ /\ buffers = "live"
          /\ buffers' = "freed"
          /\ mapped' = mapped - n_buffers
          /\ blocks' = blocks - 1
          /\ UNCHANGED fault
       \/ /\ buffers = "null" /\ n_buffers = 0
          /\ UNCHANGED <<buffers, mapped, blocks, fault>>
       \/ /\ buffers = "freed" \/ (buffers = "null" /\ n_buffers > 0)
          /\ fault' = "dangling"
          /\ UNCHANGED <<buffers, mapped, blocks>>
    /\ UNCHANGED <<present, fd, n_buffers, planes, openFds, queued>>

\* Variant: the descriptor is forgotten, not closed.
CloseDeviceForgets ==
    /\ fd' = "none"
    /\ queued' = 0
    /\ UNCHANGED <<present, buffers, n_buffers, planes, openFds, mapped, blocks, fault>>

CloseDevice ==
    /\ fd' = "none"
    /\ openFds' = IF fd = "none" THEN openFds ELSE openFds - 1
    /\ queued' = 0
    /\ UNCHANGED <<present, buffers, n_buffers, planes, mapped, blocks, fault>>

\* free of each plane that is not null; the pointers keep their values.
FreePlanes ==
    /\ IF "freed" \in {planes["rgb"], planes["ybuf"]}
       THEN fault' = "dangling" /\ UNCHANGED <<planes, blocks>>
       ELSE /\ planes' = [p \in DOMAIN planes |->
                             IF planes[p] = "live" THEN "freed" ELSE planes[p]]
            /\ blocks' = blocks - (IF planes["rgb"] = "live" THEN 1 ELSE 0)
                                - (IF planes["ybuf"] = "live" THEN 1 ELSE 0)
            /\ UNCHANGED fault
    /\ UNCHANGED <<present, fd, buffers, n_buffers, openFds, mapped, queued>>

-----------------------------------------------------------------------------
(* Capturing a frame. *)

\* VIDIOC_DQBUF takes a filled buffer.
Dequeue ==
    /\ fd = "open" /\ queued > 0
    /\ queued' = queued - 1
    /\ UNCHANGED <<present, globals, openFds, mapped, blocks, fault>>

\* The frame has been converted into the planes and VIDIOC_QBUF hands it back.
Requeue ==
    /\ fd = "open"
    /\ queued' = queued + 1
    /\ UNCHANGED <<present, globals, openFds, mapped, blocks, fault>>

\* yuyv422toABGRY writes the converted frame through rgb and ybuf: it returns at once when
\* one of them is null, and does not know of one that was freed.
PlanesUsable == "freed" \notin {planes["rgb"], planes["ybuf"]}

\* The table has the entries the code counts on, all of them mapped.
BuffersUsable == buffers = "live" /\ mapped = n_buffers

\* pixeltobmp copies rgb into the bitmap; when lockPixels fails it does so all the same,
\* through a pointer nothing has set.
CopyToBitmap == UNCHANGED device

CopyToUnlockedBitmap ==
    /\ planes["rgb"] # "null" /\ planes["ybuf"] # "null"
    /\ fault' = "unlocked"
    /\ UNCHANGED <<present, globals, held>>
=============================================================================
