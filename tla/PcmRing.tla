------------------------------ MODULE PcmRing ------------------------------
(***************************************************************************)
(* The memory mapped transfer of jni/tinyalsa/pcm.c on a stream that runs. *)
(* Application and kernel share a ring of BufferSize frames and two        *)
(* pointers into it, which count frames modulo Boundary: the kernel moves  *)
(* hw_ptr, the application appl_ptr.  Every call of the application works  *)
(* on what the kernel's pointer was a moment before.                       *)
(*                                                                         *)
(* Frames are told apart by their number in the stream.  The numbers, and  *)
(* how many frames have gone in and out, are not in the code: the pointers *)
(* are all it has.                                                         *)
(***************************************************************************)
EXTENDS Integers

CONSTANTS
    BufferSize,     \* pcm->buffer_size, in frames
    Boundary,       \* pcm->boundary
    StopThreshold,  \* frames captured and not read at which the kernel stops
    MaxFrames       \* bound: frames that go through the ring

ASSUME PcmRingAssumption ==
    /\ BufferSize \in Nat \ {0} /\ Boundary \in Nat /\ StopThreshold \in Nat
    /\ MaxFrames \in Nat
    /\ \E n \in 2..Boundary : Boundary = n * BufferSize
    /\ StopThreshold < Boundary

VARIABLES
    PCM_IN,     \* pcm->flags: the stream captures (TRUE) or plays (FALSE)
    hw_ptr,     \* mmap_status->hw_ptr
    appl_ptr,   \* mmap_control->appl_ptr
    ring,       \* the frame in each place of mmap_buffer
    in, out,    \* frames that have gone into the ring and out of it
    place,      \* where the application is: pcm_mmap_transfer and what it calls
    count,      \* frames pcm_mmap_transfer has left
    size,       \* frames pcm_mmap_transfer_areas has left
    offset,     \* what pcm_mmap_begin granted: a place,
    frames      \* and how many frames from there on

call   == <<place, count, size, offset, frames>>
vars   == <<PCM_IN, hw_ptr, appl_ptr, ring, in, out, call>>

Slots == 0..(BufferSize - 1)

TypeOK ==
    /\ PCM_IN \in BOOLEAN
    /\ hw_ptr \in 0..(Boundary - 1)
    /\ appl_ptr \in 0..Boundary
    /\ ring \in [Slots -> Nat]
    /\ in \in Nat /\ out \in Nat
    /\ place \in {"idle", "avail", "begin", "copy", "commit"}
    /\ count \in Nat /\ size \in 0..count
    /\ offset \in Slots
    /\ frames \in 0..BufferSize

Init ==
    /\ PCM_IN \in BOOLEAN
    /\ hw_ptr = 0 /\ appl_ptr = 0
    /\ ring \in [Slots -> {0}]
    /\ in = 0 /\ out = 0
    /\ place = "idle"
    /\ count = 0 /\ size = 0 /\ offset = 0 /\ frames = 0

Least(a, b) == IF a < b THEN a ELSE b

-----------------------------------------------------------------------------
(* The kernel. *)

\* A frame is captured; it goes over frames nobody has read when the ring is full.
Capture ==
    /\ PCM_IN
    /\ in < MaxFrames /\ in - out < StopThreshold
    /\ ring' = [ring EXCEPT ![hw_ptr % BufferSize] = in]
    /\ in' = in + 1
    /\ hw_ptr' = (hw_ptr + 1) % Boundary
    /\ UNCHANGED <<PCM_IN, appl_ptr, out, call>>

\* A frame is played.
Play ==
    /\ ~PCM_IN
    /\ out < in
    /\ out' = out + 1
    /\ hw_ptr' = (hw_ptr + 1) % Boundary
    /\ UNCHANGED <<PCM_IN, appl_ptr, ring, in, call>>

-----------------------------------------------------------------------------
(* The pointer arithmetic. *)

\* Variants: one frame too many; no correction when only the kernel's pointer has wrapped.
PlaybackAvailOneMore == hw_ptr + BufferSize + 1 - appl_ptr

PlaybackAvailNoWrap == hw_ptr + BufferSize - appl_ptr

pcm_mmap_playback_avail ==
    LET avail == hw_ptr + BufferSize - appl_ptr
    IN  IF avail < 0 THEN avail + Boundary
        ELSE IF avail > Boundary THEN avail - Boundary ELSE avail

pcm_mmap_capture_avail ==
    LET avail == hw_ptr - appl_ptr
    IN  IF avail < 0 THEN avail + Boundary ELSE avail

pcm_mmap_avail == IF PCM_IN THEN pcm_mmap_capture_avail ELSE pcm_mmap_playback_avail

\* Variant: a negative difference is handed out.
HtimestampUnchecked == hw_ptr + (IF PCM_IN THEN 0 ELSE BufferSize) - appl_ptr

\* The frames that go with the time stamp; -1 where the difference is negative.
pcm_get_htimestamp ==
    LET avail == hw_ptr + (IF PCM_IN THEN 0 ELSE BufferSize) - appl_ptr
    IN  IF avail < 0 THEN -1 ELSE avail

\* Variant: the pointer is not wrapped.
ApplForwardNoWrap(n) == appl_ptr + n

\* The pointer may come to be Boundary itself.
pcm_mmap_appl_forward(n) ==
    IF appl_ptr + n > Boundary THEN appl_ptr + n - Boundary ELSE appl_ptr + n

\* The frames pcm_mmap_begin grants of those wanted: available, and continuous.
Grant(wanted) ==
    Least(Least(wanted, Least(pcm_mmap_avail, BufferSize)),
          BufferSize - (appl_ptr % BufferSize))

-----------------------------------------------------------------------------
(* The application. *)

\* pcm_mmap_write or pcm_mmap_read, for n frames.
Transfer(n) ==
    /\ place = "idle"
    /\ place' = "avail"
    /\ count' = n
    /\ UNCHANGED <<PCM_IN, hw_ptr, appl_ptr, ring, in, out, size, offset, frames>>

Done ==
    /\ place = "avail" /\ count = 0
    /\ place' = "idle"
    /\ UNCHANGED <<PCM_IN, hw_ptr, appl_ptr, ring, in, out, count, size, offset, frames>>

\* pcm_avail_update, and pcm_wait until it finds avail_min, which is one frame.
AvailUpdate ==
    /\ place = "avail" /\ count > 0
    /\ pcm_mmap_avail >= 1
    /\ size' = Least(count, pcm_mmap_avail)
    /\ place' = "begin"
    /\ UNCHANGED <<PCM_IN, hw_ptr, appl_ptr, ring, in, out, count, offset, frames>>

pcm_mmap_begin ==
    /\ place = "begin" /\ size > 0
    /\ offset' = appl_ptr % BufferSize
    /\ frames' = Grant(size)
    /\ place' = "copy"
    /\ UNCHANGED <<PCM_IN, hw_ptr, appl_ptr, ring, in, out, count, size>>

Granted == offset..(offset + frames - 1)

pcm_areas_copy ==
    /\ place = "copy"
    /\ ring' = IF PCM_IN THEN ring
               ELSE [s \in Slots |-> IF s \in Granted THEN in + (s - offset) ELSE ring[s]]
    /\ place' = "commit"
    /\ UNCHANGED <<PCM_IN, hw_ptr, appl_ptr, in, out, count, size, offset, frames>>

\* Variant: everything that was asked for is committed.
CommitAll ==
    /\ place = "commit"
    /\ appl_ptr' = pcm_mmap_appl_forward(size)
    /\ IF PCM_IN THEN out' = out + size /\ UNCHANGED in
                 ELSE in' = in + size /\ UNCHANGED out
    /\ size' = 0
    /\ count' = count - size
    /\ place' = "avail"
    /\ UNCHANGED <<PCM_IN, hw_ptr, ring, offset, frames>>

pcm_mmap_commit ==
    /\ place = "commit"
    /\ appl_ptr' = pcm_mmap_appl_forward(frames)
    /\ IF PCM_IN THEN out' = out + frames /\ UNCHANGED in
                 ELSE in' = in + frames /\ UNCHANGED out
    /\ size' = size - frames
    /\ count' = count - frames
    /\ place' = IF size' = 0 THEN "avail" ELSE "begin"
    /\ UNCHANGED <<PCM_IN, hw_ptr, ring, offset, frames>>

Application ==
    \/ \E n \in 1..(2 * BufferSize) :
          (PCM_IN \/ in + n <= MaxFrames) /\ Transfer(n)
    \/ Done \/ AvailUpdate
    \/ pcm_mmap_begin \/ pcm_areas_copy \/ pcm_mmap_commit

Next == Capture \/ Play \/ Application

Spec == Init /\ [][Next]_vars

\* The application's thread is scheduled, and the clock of a sound card that plays does
\* not stop.
FairSpec == Spec /\ WF_vars(Application) /\ WF_vars(Play)

-----------------------------------------------------------------------------
(* What makes the transfer correct. *)

\* What the application may read or overwrite at this moment.
Available == IF PCM_IN THEN in - out ELSE BufferSize - (in - out)

\* What pcm_areas_copy copies lies inside mmap_buffer, wherever the pointer stands, and no
\* frame is read before it was captured, or overwritten before it was played, although the
\* kernel's pointer moves in between and both wrap. A stream that plays has the latter only
\* until its pointer wraps: see OnlyAvailable.
Wrapped == ~PCM_IN /\ in > Boundary

GrantAvailable ==
    place \in {"copy", "commit"} =>
        /\ offset + frames <= BufferSize
        /\ ~Wrapped => frames <= Available

\* The ring is a queue: the one who takes frames out finds, from its own pointer on, the
\* frames that follow those already taken, in the order in which they went in.
FramesInOrder ==
    (in - out <= BufferSize /\ ~Wrapped) =>
        \A i \in 0..(in - out - 1) :
            ring[((IF PCM_IN THEN appl_ptr ELSE hw_ptr) + i) % BufferSize] = out + i

\* pcm_get_htimestamp answers while kernel and application move the pointers, and does
\* not correct for their wrap. Between the two wraps it answers nothing on a stream that
\* captures and a whole Boundary too many on one that plays; any other answer is what is
\* available, for ever. Frames that were overwritten are not available in any number.
Surplus == IF ~PCM_IN /\ appl_ptr < hw_ptr THEN Boundary ELSE 0

TimestampAvailable ==
    (PCM_IN \/ in - out <= BufferSize)
        => pcm_get_htimestamp \in {Available + Surplus, -1}

\* A transfer to a card that plays comes to an end, however much is written at a time.
TransferEnds == (~PCM_IN /\ place # "idle") ~> place = "idle"

-----------------------------------------------------------------------------
(* What a comment says, and the code does not do. *)

\* "we can only copy frames if the are availabale and continuos".
OnlyAvailable == place = "copy" => frames <= Available

\* When it does not: a transfer that plays looks at a full ring while only its own pointer
\* has wrapped, and pcm_mmap_playback_avail answers Boundary where it should answer 0.
LooksAtFullRing == ~PCM_IN /\ in - out = BufferSize /\ appl_ptr < hw_ptr /\ AvailUpdate

\* What a round of pcm_mmap_transfer asks for is available.
AsksForAvailable == place = "begin" => size <= Available

\* "while (size > 0)": every grant lets a round go on by at least a frame.
GrantsSome == place = "copy" => frames >= 1

\* The steps a transfer has at most before it: four for every frame, and its return.
StepsLeft ==
    [idle |-> 0, avail |-> 4 * count + 1, begin |-> 4 * count, copy |-> 4 * count - 1,
     commit |-> 4 * count - 2][place]

\* A transfer comes nearer to its end with every step the application takes, and nothing
\* the kernel does sends it back.
NeverSpins ==
    [][place # "idle" => /\ StepsLeft' <= StepsLeft
                         /\ Application => StepsLeft' < StepsLeft]_vars

\* What waits to be played follows, from the kernel's pointer on, what was played already.
PlaysInOrder ==
    ~PCM_IN => /\ in - out <= BufferSize
               /\ \A i \in 0..(in - out - 1) : ring[(hw_ptr + i) % BufferSize] = out + i
=============================================================================
