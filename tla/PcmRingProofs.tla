--------------------------- MODULE PcmRingProofs ---------------------------
(***************************************************************************)
(* Theorems about PcmRing, for every size of the buffer and every boundary *)
(* that is a multiple of it.                                               *)
(*                                                                         *)
(* The two pointers do not say how many frames are in the ring: their      *)
(* difference does so only up to Boundary, and appl_ptr may be Boundary    *)
(* where hw_ptr is 0.  The invariant says which of the two cases holds.    *)
(* The order of the frames needs a second one on top of it: where in the   *)
(* ring each frame is, by its number, and that both pointers stand where   *)
(* the numbers say.                                                        *)
(*                                                                         *)
(* The last part is about playback after its pointer has wrapped.  There   *)
(* the distance of the pointers is known again (Distance) as long as no    *)
(* transfer looks at a full ring while they are on different sides of the  *)
(* wrap, and such a look is always one too many.                           *)
(***************************************************************************)
EXTENDS PcmRing, TLAPS

\* A capture stream: the pointers are as far apart as frames wait to be read.
CapturePointers ==
    PCM_IN => /\ in - out \in 0..StopThreshold
              /\ \/ hw_ptr = appl_ptr + (in - out)
                 \/ hw_ptr + Boundary = appl_ptr + (in - out)

\* A playback stream whose pointer has not wrapped: the pointers are the counts.
PlaybackPointers ==
    (~PCM_IN /\ in <= Boundary) => /\ in - out \in 0..BufferSize
                                   /\ appl_ptr = in
                                   /\ hw_ptr = IF out = Boundary THEN 0 ELSE out

\* A grant fits into what was asked for, into the buffer, and into what is available.
Grants == place \in {"copy", "commit"} => frames <= size /\ GrantAvailable

\* Between two rounds of pcm_mmap_transfer nothing is left to copy.
Rounds == place \in {"idle", "avail"} => size = 0

IInv == TypeOK /\ Rounds /\ CapturePointers /\ PlaybackPointers /\ Grants

\* Frame j is in place j % BufferSize: of a capture stream, the last BufferSize frames.
Captured ==
    PCM_IN => /\ hw_ptr % BufferSize = in % BufferSize
              /\ appl_ptr % BufferSize = out % BufferSize
              /\ \A j \in Nat : in - BufferSize <= j /\ j < in => ring[j % BufferSize] = j

\* Of a playback stream, the frames not yet played, with those that are copied and not
\* committed.
Copied == IF place = "commit" THEN frames ELSE 0

Queued ==
    (~PCM_IN /\ in <= Boundary) =>
        /\ place \in {"copy", "commit"} => offset = in % BufferSize
        /\ \A j \in Nat : out <= j /\ j < in + Copied => ring[j % BufferSize] = j

OrderInv == IInv /\ Captured /\ Queued

-----------------------------------------------------------------------------

\* The constants, in the form the steps use.
LEMMA Constants ==
    /\ BufferSize \in Nat /\ BufferSize >= 1
    /\ Boundary \in Nat /\ 2 * BufferSize <= Boundary
    /\ StopThreshold \in Nat /\ StopThreshold < Boundary
<1>1. PICK n \in 2..Boundary : Boundary = n * BufferSize
  BY PcmRingAssumption
<1>2. n * BufferSize >= 2 * BufferSize
  BY PcmRingAssumption
<1> QED
  BY <1>1, <1>2, PcmRingAssumption

\* A pointer's place in the ring.
LEMMA Places == \A p \in Nat : p % BufferSize \in Slots
BY Constants DEF Slots

\* No pointer arithmetic leaves its range, whatever the pointers are.
LEMMA AvailIsNat ==
    ASSUME hw_ptr \in 0..(Boundary - 1), appl_ptr \in 0..Boundary
    PROVE  pcm_mmap_avail \in Nat
BY Constants DEF pcm_mmap_avail, pcm_mmap_capture_avail, pcm_mmap_playback_avail

\* On a stream that captures, and on one that plays and has not wrapped, pcm_mmap_avail
\* is what is available.
LEMMA AvailIsAvailable ==
    ASSUME TypeOK, CapturePointers, PlaybackPointers, ~Wrapped
    PROVE  pcm_mmap_avail = Available
<1>1. CASE PCM_IN
  BY <1>1, Constants
  DEF TypeOK, CapturePointers, Available, pcm_mmap_avail, pcm_mmap_capture_avail
<1>2. CASE ~PCM_IN
  BY <1>2, Constants
  DEF TypeOK, PlaybackPointers, Wrapped, Available, pcm_mmap_avail, pcm_mmap_playback_avail
<1> QED
  BY <1>1, <1>2

\* What pcm_mmap_begin grants.
LEMMA GrantBounds ==
    ASSUME TypeOK
    PROVE  /\ Grant(size) \in 0..BufferSize
           /\ Grant(size) <= size
           /\ Grant(size) <= pcm_mmap_avail
           /\ appl_ptr % BufferSize \in Slots
           /\ (appl_ptr % BufferSize) + Grant(size) <= BufferSize
<1>1. appl_ptr % BufferSize \in Slots
  <2>1. appl_ptr \in Nat
    BY Constants DEF TypeOK
  <2> QED
    BY <2>1, Places
<1>2. pcm_mmap_avail \in Nat
  BY AvailIsNat DEF TypeOK
<1>3. size \in Nat
  BY DEF TypeOK
<1> QED
  BY <1>1, <1>2, <1>3, Constants DEF Grant, Least, Slots

-----------------------------------------------------------------------------
(* The steps. *)

\* A stream that was just opened: nothing is in the ring, both pointers are 0.
LEMMA InitIInv == Init => IInv
<1> SUFFICES ASSUME Init PROVE IInv
  OBVIOUS
<1>1. TypeOK
  BY Constants DEF Init, TypeOK, Slots
<1>2. Rounds /\ CapturePointers /\ PlaybackPointers /\ Grants
  BY Constants DEF Init, Rounds, CapturePointers, PlaybackPointers, Grants
<1> QED
  BY <1>1, <1>2 DEF IInv

\* The kernel captures a frame: the distance of the pointers grows by one, wrapped or not.
LEMMA CaptureStep == IInv /\ Capture => IInv'
<1> SUFFICES ASSUME IInv, Capture PROVE IInv'
  OBVIOUS
<1> USE Constants DEF IInv, Capture, call
<1>1. hw_ptr' = IF hw_ptr + 1 = Boundary THEN 0 ELSE hw_ptr + 1
  BY DEF TypeOK
<1>2. TypeOK'
  <2>1. ring' \in [Slots -> Nat]
    BY DEF TypeOK
  <2>2. hw_ptr' \in 0..(Boundary - 1) /\ in' \in Nat
    BY <1>1 DEF TypeOK
  <2> QED
    BY <2>1, <2>2 DEF TypeOK
<1>3. CapturePointers'
  BY <1>1 DEF TypeOK, CapturePointers
<1>4. PlaybackPointers'
  BY DEF PlaybackPointers
<1>5. Grants'
  BY DEF TypeOK, Grants, GrantAvailable, Available, Wrapped
<1>6. Rounds'
  BY DEF Rounds
<1> QED
  BY <1>2, <1>3, <1>4, <1>5, <1>6

\* The kernel plays a frame: only what waits to be played gets less.
LEMMA PlayStep == IInv /\ Play => IInv'
<1> SUFFICES ASSUME IInv, Play PROVE IInv'
  OBVIOUS
<1> USE Constants DEF IInv, Play, call
<1>1. hw_ptr' = IF hw_ptr + 1 = Boundary THEN 0 ELSE hw_ptr + 1
  BY DEF TypeOK
<1>2. TypeOK'
  BY <1>1 DEF TypeOK
<1>3. CapturePointers'
  BY DEF CapturePointers
<1>4. PlaybackPointers'
  BY <1>1 DEF TypeOK, PlaybackPointers
<1>5. Grants'
  BY DEF TypeOK, Grants, GrantAvailable, Available, Wrapped
<1>6. Rounds'
  BY DEF Rounds
<1> QED
  BY <1>2, <1>3, <1>4, <1>5, <1>6

\* A call, its end, and the wait for frames move no pointer and grant nothing.
LEMMA WaitStep ==
    IInv /\ ((\E n \in 1..(2 * BufferSize) : Transfer(n)) \/ Done \/ AvailUpdate) => IInv'
<1> SUFFICES ASSUME IInv,
                    (\E n \in 1..(2 * BufferSize) : Transfer(n)) \/ Done \/ AvailUpdate
             PROVE  IInv'
  OBVIOUS
<1> USE Constants DEF IInv, Transfer, Done, AvailUpdate
<1>1. UNCHANGED <<PCM_IN, hw_ptr, appl_ptr, ring, in, out, offset, frames>>
  OBVIOUS
<1>2. place' \in {"avail", "idle", "begin"}
  OBVIOUS
<1>3. count' \in Nat /\ size' \in 0..count'
  <2>1. pcm_mmap_avail \in Nat
    BY AvailIsNat DEF TypeOK
  <2>2. CASE \E n \in 1..(2 * BufferSize) : Transfer(n)
    <3>1. PICK n \in 1..(2 * BufferSize) : Transfer(n)
      BY <2>2
    <3>2. count' = n /\ size' = size
      BY <3>1
    <3>3. size = 0
      BY <3>1 DEF Rounds
    <3> QED
      BY <3>1, <3>2, <3>3 DEF TypeOK
  <2>3. CASE Done
    BY <2>3 DEF TypeOK
  <2>4. CASE AvailUpdate
    BY <2>1, <2>4 DEF TypeOK, Least
  <2> QED
    BY <2>2, <2>3, <2>4
<1>4. TypeOK'
  BY <1>1, <1>2, <1>3 DEF TypeOK
<1>5. CapturePointers' /\ PlaybackPointers' /\ Grants'
  BY <1>1, <1>2 DEF CapturePointers, PlaybackPointers, Grants
<1>6. Rounds'
  BY DEF Rounds
<1> QED
  BY <1>4, <1>5, <1>6

\* pcm_mmap_begin grants what is available at this moment; the kernel only makes it more.
LEMMA BeginStep == IInv /\ pcm_mmap_begin => IInv'
<1> SUFFICES ASSUME IInv, pcm_mmap_begin PROVE IInv'
  OBVIOUS
<1> USE Constants DEF IInv, pcm_mmap_begin
<1>1. UNCHANGED <<PCM_IN, hw_ptr, appl_ptr, ring, in, out, count, size>>
  OBVIOUS
<1>2. /\ frames' \in 0..BufferSize /\ frames' <= size
      /\ frames' <= pcm_mmap_avail
      /\ offset' \in Slots
      /\ offset' + frames' <= BufferSize
  BY GrantBounds
<1>3. TypeOK'
  BY <1>1, <1>2 DEF TypeOK
<1>4. CapturePointers' /\ PlaybackPointers'
  BY <1>1 DEF CapturePointers, PlaybackPointers
<1>5. Available' = Available /\ Wrapped' = Wrapped
  BY <1>1 DEF Available, Wrapped
<1>6. ~Wrapped => frames' <= Available
  BY <1>2, AvailIsAvailable
<1>7. Grants'
  BY <1>1, <1>2, <1>5, <1>6 DEF Grants, GrantAvailable
<1>8. Rounds'
  BY DEF Rounds
<1> QED
  BY <1>3, <1>4, <1>7, <1>8

\* pcm_areas_copy moves no pointer.
LEMMA CopyStep == IInv /\ pcm_areas_copy => IInv'
<1> SUFFICES ASSUME IInv, pcm_areas_copy PROVE IInv'
  OBVIOUS
<1> USE DEF IInv, pcm_areas_copy
<1>1. UNCHANGED <<PCM_IN, hw_ptr, appl_ptr, in, out, count, size, offset, frames>>
  OBVIOUS
<1>2. ring' \in [Slots -> Nat]
  <2>1. \A s \in Slots : s \in Granted => in + (s - offset) \in Nat
    BY Constants DEF TypeOK, Slots, Granted
  <2> QED
    BY <2>1 DEF TypeOK
<1>3. TypeOK'
  BY <1>1, <1>2 DEF TypeOK
<1>4. CapturePointers' /\ PlaybackPointers'
  BY <1>1 DEF CapturePointers, PlaybackPointers
<1>5. Grants'
  BY <1>1 DEF Grants, GrantAvailable, Available, Wrapped
<1>6. Rounds'
  BY DEF Rounds
<1> QED
  BY <1>3, <1>4, <1>5, <1>6

\* pcm_mmap_commit moves the pointer by what was granted, and wraps it.
LEMMA CommitStep == IInv /\ pcm_mmap_commit => IInv'
<1> SUFFICES ASSUME IInv, pcm_mmap_commit PROVE IInv'
  OBVIOUS
<1> USE Constants DEF IInv, pcm_mmap_commit
<1>1. frames \in 0..BufferSize /\ frames <= size
  BY DEF TypeOK, Grants
<1>2. appl_ptr' = IF appl_ptr + frames > Boundary
                  THEN appl_ptr + frames - Boundary ELSE appl_ptr + frames
  BY DEF pcm_mmap_appl_forward
<1>3. place' \in {"avail", "begin"}
  OBVIOUS
<1>4. in' \in Nat /\ out' \in Nat
  BY <1>1 DEF TypeOK
<1>5. TypeOK'
  BY <1>1, <1>2, <1>3, <1>4 DEF TypeOK
<1>6. CapturePointers'
  <2> SUFFICES ASSUME PCM_IN PROVE CapturePointers'
    BY DEF CapturePointers
  <2>1. frames <= in - out
    BY DEF Grants, GrantAvailable, Available, Wrapped
  <2> QED
    BY <1>1, <1>2, <2>1 DEF TypeOK, CapturePointers
<1>7. PlaybackPointers'
  <2> SUFFICES ASSUME ~PCM_IN, in + frames <= Boundary
               PROVE  PlaybackPointers'
    BY DEF PlaybackPointers
  <2>1. in <= Boundary
    BY <1>1 DEF TypeOK
  <2>2. frames <= BufferSize - (in - out)
    BY <2>1 DEF TypeOK, Grants, GrantAvailable, Available, Wrapped
  <2> QED
    BY <1>1, <1>2, <2>1, <2>2 DEF TypeOK, PlaybackPointers
<1>8. Grants'
  BY <1>3 DEF Grants
<1>9. Rounds'
  BY DEF Rounds
<1> QED
  BY <1>5, <1>6, <1>7, <1>8, <1>9

\* The invariant is inductive.
LEMMA StepIInv == IInv /\ [Next]_vars => IInv'
<1> SUFFICES ASSUME IInv, [Next]_vars PROVE IInv'
  OBVIOUS
<1>1. CASE Capture
  BY <1>1, CaptureStep
<1>2. CASE Play
  BY <1>2, PlayStep
<1>3. CASE Application
  BY <1>3, WaitStep, BeginStep, CopyStep, CommitStep DEF Application
<1>4. CASE UNCHANGED vars
  BY <1>4 DEF vars, call, IInv, TypeOK, Rounds, CapturePointers, PlaybackPointers, Grants,
              GrantAvailable, Available, Wrapped
<1> QED
  BY <1>1, <1>2, <1>3, <1>4 DEF Next

\* The inductive invariant holds in every behaviour.
THEOREM Invariance == Spec => []IInv
<1>1. Init => IInv
  BY InitIInv
<1>2. IInv /\ [Next]_vars => IInv'
  BY StepIInv
<1> QED
  BY <1>1, <1>2, PTL DEF Spec

\* The pointers keep their ranges, for every buffer and boundary.
THEOREM TypeCorrect == Spec => []TypeOK
<1>1. IInv => TypeOK
  BY DEF IInv
<1> QED
  BY <1>1, Invariance, PTL

\* No copy of pcm_areas_copy leaves the buffer. A stream that captures only hands out what
\* was captured; one that plays only overwrites what was played, until its pointer wraps.
THEOREM GrantsAreAvailable == Spec => []GrantAvailable
<1>1. IInv => GrantAvailable
  BY DEF IInv, Grants, GrantAvailable
<1> QED
  BY <1>1, Invariance, PTL

\* However a stream that plays was fooled, its pointers are as far apart as frames wait in
\* the ring, but for a multiple of Boundary.
Congruent ==
    ~PCM_IN => /\ in - out \in Nat
               /\ \E k \in Int : appl_ptr = hw_ptr + (in - out) + k * Boundary

LEMMA StepCongruent == IInv /\ Congruent /\ [Next]_vars => Congruent'
<1> SUFFICES ASSUME IInv, Congruent, [Next]_vars, ~PCM_IN PROVE Congruent'
  BY DEF Congruent, Next, Application, Capture, Play, Transfer, Done, AvailUpdate,
         pcm_mmap_begin, pcm_areas_copy, pcm_mmap_commit, vars
<1>1. /\ hw_ptr \in 0..(Boundary - 1) /\ appl_ptr \in 0..Boundary /\ in - out \in Nat
      /\ in \in Nat /\ out \in Nat /\ Boundary \in Nat /\ frames \in Nat
  BY Constants DEF IInv, TypeOK, Congruent
<1>2. PICK k \in Int : appl_ptr = hw_ptr + (in - out) + k * Boundary
  BY DEF Congruent
<1>3. /\ (k + 1) * Boundary = k * Boundary + Boundary
      /\ (k - 1) * Boundary = k * Boundary - Boundary
      /\ k * Boundary \in Int /\ k + 1 \in Int /\ k - 1 \in Int
  BY <1>1
<1> HIDE DEF IInv, Congruent
<1>4. CASE Play
  <2>1. /\ in' = in /\ out' = out + 1 /\ out < in /\ UNCHANGED <<PCM_IN, appl_ptr>>
        /\ hw_ptr' = (hw_ptr + 1) % Boundary
    BY <1>4 DEF Play
  <2>2. in' - out' \in Nat
    BY <1>1, <2>1
  <2>3. hw_ptr' = hw_ptr + 1 \/ hw_ptr' = hw_ptr + 1 - Boundary
    <3>1. hw_ptr + 1 < Boundary \/ hw_ptr + 1 = Boundary
      BY <1>1
    <3> QED
      BY <1>1, <2>1, <3>1
  <2>4. CASE hw_ptr' = hw_ptr + 1
    <3>1. appl_ptr' = hw_ptr' + (in' - out') + k * Boundary
      BY <1>1, <1>2, <1>3, <2>1, <2>4
    <3> QED
      BY <2>2, <3>1 DEF Congruent
  <2>5. CASE hw_ptr' = hw_ptr + 1 - Boundary
    <3>1. appl_ptr' = hw_ptr' + (in' - out') + (k + 1) * Boundary
      BY <1>1, <1>2, <1>3, <2>1, <2>5
    <3> QED
      BY <1>3, <2>2, <3>1 DEF Congruent
  <2> QED
    BY <2>3, <2>4, <2>5
<1>5. CASE pcm_mmap_commit
  <2>1. /\ in' = in + frames /\ UNCHANGED <<PCM_IN, hw_ptr, out>>
        /\ appl_ptr' = appl_ptr + frames \/ appl_ptr' = appl_ptr + frames - Boundary
    BY <1>5 DEF pcm_mmap_commit, pcm_mmap_appl_forward
  <2>2. in' - out' \in Nat
    BY <1>1, <2>1
  <2>3. CASE appl_ptr' = appl_ptr + frames
    <3>1. appl_ptr' = hw_ptr' + (in' - out') + k * Boundary
      BY <1>1, <1>2, <1>3, <2>1, <2>3
    <3> QED
      BY <2>2, <3>1 DEF Congruent
  <2>4. CASE appl_ptr' = appl_ptr + frames - Boundary
    <3>1. appl_ptr' = hw_ptr' + (in' - out') + (k - 1) * Boundary
      BY <1>1, <1>2, <1>3, <2>1, <2>4
    <3> QED
      BY <1>3, <2>2, <3>1 DEF Congruent
  <2> QED
    BY <2>1, <2>3, <2>4
<1>6. CASE UNCHANGED <<PCM_IN, hw_ptr, appl_ptr, in, out>>
  BY <1>1, <1>2, <1>6 DEF Congruent
<1> QED
  BY <1>4, <1>5, <1>6
  DEF Next, Application, Capture, Transfer, Done, AvailUpdate, pcm_mmap_begin,
      pcm_areas_copy, vars

\* Of the multiples only those between the two wraps are left when no frame was overwritten.
LEMMA TimestampIsRight == IInv /\ Congruent => TimestampAvailable
<1> SUFFICES ASSUME IInv, Congruent, PCM_IN \/ in - out <= BufferSize
             PROVE  pcm_get_htimestamp \in {Available + Surplus, -1}
  BY DEF TimestampAvailable
<1>1. /\ hw_ptr \in 0..(Boundary - 1) /\ appl_ptr \in 0..Boundary
      /\ in \in Nat /\ out \in Nat
  BY DEF IInv, TypeOK
<1>2. CASE PCM_IN
  BY <1>1, <1>2, Constants DEF IInv, CapturePointers, pcm_get_htimestamp, Available, Surplus
<1>3. CASE ~PCM_IN
  <2>1. in - out \in 0..BufferSize
    BY <1>1, <1>3, Constants DEF Congruent
  <2>2. PICK k \in Int : appl_ptr = hw_ptr + (in - out) + k * Boundary
    BY <1>3 DEF Congruent
  <2>3. k \in {-1, 0, 1}
    <3>1. k * Boundary <= Boundary
      BY <1>1, <2>1, <2>2, Constants
    <3>2. k * Boundary > -(2 * Boundary)
      BY <1>1, <2>1, <2>2, Constants
    <3>3. k >= 2 => k * Boundary >= 2 * Boundary
      BY Constants
    <3>4. k <= -2 => k * Boundary <= -(2 * Boundary)
      BY Constants
    <3> QED
      BY <3>1, <3>2, <3>3, <3>4, Constants
  <2>4. \/ appl_ptr = hw_ptr + (in - out)
        \/ appl_ptr + Boundary = hw_ptr + (in - out)
        \/ appl_ptr = hw_ptr + (in - out) + Boundary
    BY <1>1, <2>1, <2>2, <2>3, Constants
  <2> QED
    BY <1>1, <1>3, <2>1, <2>4, Constants DEF pcm_get_htimestamp, Available, Surplus
<1> QED
  BY <1>2, <1>3

\* A time stamp that is given comes with what is available, for ever, and on a stream that
\* plays with a whole Boundary more as long as only its own pointer has wrapped
\* (pcm_get_htimestamp).
THEOREM TimestampsAreAvailable == Spec => []TimestampAvailable
<1>1. Init => Congruent
  <2> SUFFICES ASSUME Init PROVE Congruent
    OBVIOUS
  <2>1. appl_ptr = hw_ptr + (in - out) + 0 * Boundary /\ in - out \in Nat
    BY Constants DEF Init
  <2> QED
    BY <2>1 DEF Congruent
<1>2. Init => IInv
  BY InitIInv
<1>3. IInv /\ Congruent /\ [Next]_vars => (IInv /\ Congruent)'
  BY StepIInv, StepCongruent
<1>4. IInv /\ Congruent => TimestampAvailable
  BY TimestampIsRight
<1> QED
  BY <1>1, <1>2, <1>3, <1>4, PTL DEF Spec

-----------------------------------------------------------------------------
(* Remainders. *)

LEMMA Times == \A k \in Int : k >= 1 => BufferSize * k >= BufferSize
BY Constants

LEMMA Divided ==
    \A a \in Nat : /\ a \div BufferSize \in Nat /\ a % BufferSize \in 0..(BufferSize - 1)
                   /\ a = BufferSize * (a \div BufferSize) + (a % BufferSize)
BY Constants

\* The remainder is the only number below BufferSize that differs by a multiple of it.
LEMMA Remainder ==
    ASSUME NEW a \in Nat, NEW q \in Int, NEW r \in 0..(BufferSize - 1),
           a = BufferSize * q + r
    PROVE  a % BufferSize = r
<1> DEFINE p == a \div BufferSize
           s == a % BufferSize
<1>1. p \in Nat /\ s \in 0..(BufferSize - 1) /\ a = BufferSize * p + s
  BY Divided
<1> HIDE DEF p, s
<1>2. BufferSize * (q - p) = s - r /\ BufferSize * (p - q) = r - s
  BY <1>1, Constants
<1>3. ~(q - p >= 1) /\ ~(p - q >= 1)
  BY <1>1, <1>2, Times, Constants
<1>4. q = p
  BY <1>1, <1>3
<1>5. s = r
  BY <1>1, <1>4, Constants
<1> QED
  BY <1>5 DEF s

LEMMA SumRemainder ==
    ASSUME NEW a \in Nat, NEW b \in Nat, a % BufferSize = b % BufferSize, NEW i \in Nat
    PROVE  (a + i) % BufferSize = (b + i) % BufferSize
<1> DEFINE q == a \div BufferSize
           p == b \div BufferSize
           t == (b + i) \div BufferSize
<1>1. /\ a = BufferSize * q + (b % BufferSize) /\ q \in Nat
      /\ b = BufferSize * p + (b % BufferSize) /\ p \in Nat
  BY Divided
<1>2. /\ b + i = BufferSize * t + ((b + i) % BufferSize) /\ t \in Nat
      /\ (b + i) % BufferSize \in 0..(BufferSize - 1)
  BY Divided
<1>3. a + i = BufferSize * (t + q - p) + ((b + i) % BufferSize)
  BY <1>1, <1>2, Constants
<1> QED
  BY <1>1, <1>2, <1>3, Remainder

\* Wrapping a pointer does not change its place in the ring.
LEMMA WrapRemainder ==
    ASSUME NEW a \in Nat
    PROVE  (a + Boundary) % BufferSize = a % BufferSize
<1>1. PICK n \in 2..Boundary : Boundary = n * BufferSize
  BY PcmRingAssumption
<1>2. Boundary % BufferSize = 0 /\ 0 % BufferSize = 0
  BY <1>1, Constants, Remainder
<1>3. ASSUME NEW b \in Nat, NEW c \in Nat, b % BufferSize = c % BufferSize
      PROVE  (b + a) % BufferSize = (c + a) % BufferSize
  BY <1>3, SumRemainder
<1>4. (Boundary + a) % BufferSize = (0 + a) % BufferSize
  <2>1. Boundary \in Nat /\ 0 \in Nat /\ Boundary % BufferSize = 0 % BufferSize
    BY <1>2, Constants
  <2> QED
    BY <1>3, <2>1
<1>5. Boundary + a = a + Boundary /\ 0 + a = a
  BY Constants
<1> QED
  BY <1>4, <1>5

\* Frames less than BufferSize apart are in different places.
LEMMA Apart ==
    ASSUME NEW a \in Nat, NEW b \in Nat, a < b, b < a + BufferSize
    PROVE  a % BufferSize # b % BufferSize
<1> SUFFICES ASSUME a % BufferSize = b % BufferSize PROVE FALSE
  OBVIOUS
<1> DEFINE q == a \div BufferSize
           p == b \div BufferSize
<1>1. /\ a = BufferSize * q + (a % BufferSize) /\ q \in Nat
      /\ b = BufferSize * p + (a % BufferSize) /\ p \in Nat
  BY Divided
<1> HIDE DEF q, p
<1>2. BufferSize * (p - q) = b - a /\ BufferSize * (q - p) = a - b
  BY <1>1, Constants
<1>3. ~(p - q >= 1)
  BY <1>1, <1>2, Times, Constants
<1>4. ~(q - p >= 1)
  BY <1>1, <1>2, Times, Constants
<1>5. p = q
  BY <1>1, <1>3, <1>4
<1> QED
  BY <1>1, <1>5

\* One step of the kernel's pointer, wrapped or not, is one place in the ring.
LEMMA NextPlace ==
    ASSUME hw_ptr \in 0..(Boundary - 1), NEW a \in Nat,
           hw_ptr % BufferSize = a % BufferSize
    PROVE  ((hw_ptr + 1) % Boundary) % BufferSize = (a + 1) % BufferSize
<1>1. hw_ptr \in Nat
  BY Constants
<1>2. \A i \in Nat : (hw_ptr + i) % BufferSize = (a + i) % BufferSize
  BY <1>1, SumRemainder
<1>3. (hw_ptr + 1) % BufferSize = (a + 1) % BufferSize
  BY <1>2
<1>4. CASE hw_ptr + 1 = Boundary
  <2>1. (hw_ptr + 1) % Boundary = 0
    BY <1>4, Constants
  <2>2. (0 + Boundary) % BufferSize = 0 % BufferSize
    BY WrapRemainder
  <2> QED
    BY <1>3, <1>4, <2>1, <2>2
<1>5. CASE hw_ptr + 1 # Boundary
  <2>1. (hw_ptr + 1) % Boundary = hw_ptr + 1
    BY <1>5, Constants
  <2> QED
    BY <1>3, <2>1
<1> QED
  BY <1>4, <1>5

\* So is a step of the application's pointer, by as many places as frames.
LEMMA ForwardPlace ==
    ASSUME appl_ptr \in Nat, NEW n \in Nat, NEW a \in Nat,
           appl_ptr % BufferSize = a % BufferSize
    PROVE  pcm_mmap_appl_forward(n) % BufferSize = (a + n) % BufferSize
<1>1. (appl_ptr + n) % BufferSize = (a + n) % BufferSize
  BY SumRemainder
<1>2. CASE appl_ptr + n > Boundary
  <2>1. pcm_mmap_appl_forward(n) = appl_ptr + n - Boundary
    BY <1>2 DEF pcm_mmap_appl_forward
  <2>2. appl_ptr + n - Boundary \in Nat /\ (appl_ptr + n - Boundary) + Boundary = appl_ptr + n
    BY <1>2, Constants
  <2> QED
    BY <1>1, <2>1, <2>2, WrapRemainder
<1>3. CASE ~(appl_ptr + n > Boundary)
  BY <1>1, <1>3 DEF pcm_mmap_appl_forward
<1> QED
  BY <1>2, <1>3

-----------------------------------------------------------------------------
(* The order of the frames. *)

LEMMA InitOrder == Init => OrderInv
<1> SUFFICES ASSUME Init PROVE Captured /\ Queued
  BY InitIInv DEF OrderInv
<1> QED
  BY Constants DEF Init, Captured, Queued, Copied

\* A captured frame goes where hw_ptr stands, over the one that is BufferSize older.
LEMMA CaptureOrder == OrderInv /\ Capture => Captured' /\ Queued'
<1> SUFFICES ASSUME OrderInv, Capture PROVE Captured' /\ Queued'
  OBVIOUS
<1> USE Constants DEF OrderInv, IInv, Capture, call
<1>1. /\ in \in Nat /\ in' = in + 1 /\ out \in Nat
      /\ hw_ptr \in Nat /\ hw_ptr < Boundary /\ appl_ptr \in Nat
  BY DEF TypeOK
<1>2. hw_ptr % BufferSize = in % BufferSize /\ appl_ptr % BufferSize = out % BufferSize
  BY DEF Captured
<1>3. hw_ptr' % BufferSize = in' % BufferSize
  BY <1>1, <1>2, NextPlace DEF TypeOK
<1>4. ASSUME NEW j \in Nat, in' - BufferSize <= j, j < in'
      PROVE  ring'[j % BufferSize] = j
  <2>1. in % BufferSize \in Slots /\ ring' = [ring EXCEPT ![in % BufferSize] = in]
    BY <1>1, <1>2, Places
  <2>2. ring \in [Slots -> Nat] /\ j % BufferSize \in Slots
    BY Places DEF TypeOK
  <2>3. CASE j = in
    BY <2>1, <2>2, <2>3
  <2>4. CASE j < in
    <3>1. j % BufferSize # in % BufferSize
      <4>1. in < j + BufferSize
        BY <1>1, <1>4
      <4> HIDE DEF OrderInv, IInv, Capture, call
      <4> QED
        BY <1>1, <2>4, <4>1, Apart
    <3>2. ring[j % BufferSize] = j
      BY <1>1, <1>4, <2>4 DEF Captured
    <3> QED
      BY <2>1, <2>2, <3>1, <3>2
  <2> QED
    BY <1>1, <1>4, <2>3, <2>4
<1> QED
  BY <1>2, <1>3, <1>4 DEF Captured, Queued

\* What plays, and the steps that only look, keep every frame in its place.
LEMMA QuietOrder ==
    OrderInv /\ (Play \/ (\E n \in 1..(2 * BufferSize) : Transfer(n)) \/ Done \/ AvailUpdate)
        => Captured' /\ Queued'
<1> SUFFICES ASSUME OrderInv,
                    \/ Play \/ (\E n \in 1..(2 * BufferSize) : Transfer(n))
                    \/ Done \/ AvailUpdate
             PROVE  Captured' /\ Queued'
  OBVIOUS
<1> USE DEF OrderInv, IInv
<1>1. CASE Play
  <2>1. in \in Nat /\ out \in Nat /\ frames \in Nat
    BY Constants DEF TypeOK
  <2> QED
    BY <1>1, <2>1 DEF Play, call, Captured, Queued, Copied
<1>2. CASE (\E n \in 1..(2 * BufferSize) : Transfer(n)) \/ Done \/ AvailUpdate
  <2>1. UNCHANGED <<PCM_IN, hw_ptr, appl_ptr, ring, in, out, offset, frames>>
    BY <1>2 DEF Transfer, Done, AvailUpdate
  <2>2. place # "commit" /\ place' \notin {"copy", "commit"}
    BY <1>2 DEF Transfer, Done, AvailUpdate
  <2> QED
    BY <2>1, <2>2 DEF Captured, Queued, Copied
<1> QED
  BY <1>1, <1>2

\* A grant starts where the next frame belongs.
LEMMA BeginOrder == OrderInv /\ pcm_mmap_begin => Captured' /\ Queued'
<1> SUFFICES ASSUME OrderInv, pcm_mmap_begin PROVE Captured' /\ Queued'
  OBVIOUS
<1> USE DEF OrderInv, IInv
<1>1. UNCHANGED <<PCM_IN, hw_ptr, appl_ptr, ring, in, out>>
  BY DEF pcm_mmap_begin
<1>2. place = "begin" /\ place' = "copy" /\ offset' = appl_ptr % BufferSize
  BY DEF pcm_mmap_begin
<1>3. Queued'
  BY <1>1, <1>2 DEF Queued, Copied, PlaybackPointers
<1> QED
  BY <1>1, <1>3 DEF Captured

\* Frames copied into a grant that starts where the next one belongs, and is no larger than
\* what is free, go behind those that wait, and over none of them.
LEMMA CopiedBehind ==
    ASSUME TypeOK, place = "copy", pcm_areas_copy, ~PCM_IN,
           in - out \in 0..BufferSize, frames <= BufferSize - (in - out),
           offset = in % BufferSize, offset + frames <= BufferSize,
           \A j \in Nat : out <= j /\ j < in => ring[j % BufferSize] = j,
           NEW j \in Nat, out <= j, j < in + frames
    PROVE  ring'[j % BufferSize] = j
<1>1. in \in Nat /\ out \in Nat /\ frames \in Nat /\ offset \in Slots
  BY Constants DEF TypeOK
<1>2. ring' = [s \in Slots |-> IF s \in Granted THEN in + (s - offset) ELSE ring[s]]
  BY DEF pcm_areas_copy
<1>3. j % BufferSize \in Slots
  BY Places
<1>4. ASSUME NEW d \in 0..(frames - 1)
      PROVE  (in + d) % BufferSize = offset + d
  <2>1. in = BufferSize * (in \div BufferSize) + offset /\ in \div BufferSize \in Nat
    BY <1>1, Divided
  <2>2. in + d = BufferSize * (in \div BufferSize) + (offset + d)
    BY <1>1, <2>1, Constants
  <2>3. offset + d \in 0..(BufferSize - 1) /\ in + d \in Nat
    BY <1>1, Constants DEF Slots
  <2> QED
    BY <2>1, <2>2, <2>3, Remainder
<1>5. CASE j < in
  <2>1. j % BufferSize \notin Granted
    <3> SUFFICES ASSUME j % BufferSize \in Granted PROVE FALSE
      OBVIOUS
    <3> DEFINE d == (j % BufferSize) - offset
    <3>1. d \in 0..(frames - 1) /\ j % BufferSize = offset + d
      BY <1>1, <1>3, Constants DEF Granted, Slots
    <3> HIDE DEF d
    <3>2. in + d \in Nat /\ j < in + d /\ in + d < j + BufferSize
      BY <1>1, <1>5, <3>1, Constants
    <3>3. j % BufferSize # (in + d) % BufferSize
      BY <3>2, Apart
    <3> QED
      BY <1>4, <3>1, <3>3
  <2> QED
    BY <1>2, <1>3, <1>5, <2>1
<1>6. CASE ~(j < in)
  <2>1. j - in \in 0..(frames - 1) /\ j = in + (j - in)
    BY <1>1, <1>6
  <2>2. PICK d \in 0..(frames - 1) : j = in + d
    BY <2>1
  <2>3. j % BufferSize = offset + d /\ offset + d \in Granted
    BY <1>1, <1>4, <2>2, Constants DEF Granted, Slots
  <2>4. ring'[j % BufferSize] = in + ((offset + d) - offset)
    BY <1>2, <1>3, <2>3
  <2> QED
    BY <1>1, <2>2, <2>4 DEF Slots
<1> QED
  BY <1>5, <1>6

\* A copy puts each frame where its number says, or takes it from there.
LEMMA CopyOrder == OrderInv /\ pcm_areas_copy => Captured' /\ Queued'
<1> SUFFICES ASSUME OrderInv, pcm_areas_copy PROVE Captured' /\ Queued'
  OBVIOUS
<1> USE DEF OrderInv, IInv
<1>1. UNCHANGED <<PCM_IN, hw_ptr, appl_ptr, in, out, offset, frames>>
  BY DEF pcm_areas_copy
<1>2. place = "copy" /\ place' = "commit"
  BY DEF pcm_areas_copy
<1>3. Captured'
  BY <1>1 DEF pcm_areas_copy, Captured
<1>4. Queued'
  <2> SUFFICES ASSUME ~PCM_IN, in <= Boundary,
                      NEW j \in Nat, out <= j, j < in + frames
               PROVE  ring'[j % BufferSize] = j
    BY <1>1, <1>2 DEF Queued, Copied
  <2>1. /\ in - out \in 0..BufferSize
        /\ frames <= BufferSize - (in - out)
        /\ offset = in % BufferSize
        /\ offset + frames <= BufferSize
    BY <1>2, Constants
    DEF TypeOK, Queued, PlaybackPointers, Grants, GrantAvailable, Available, Wrapped
  <2>2. in + Copied = in
    BY <1>2 DEF TypeOK, Copied
  <2>3. \A k \in Nat : out <= k /\ k < in => ring[k % BufferSize] = k
    BY <2>2 DEF Queued
  <2> HIDE DEF OrderInv
  <2> QED
    BY <1>2, <2>1, <2>3, CopiedBehind DEF OrderInv, IInv
<1> QED
  BY <1>3, <1>4

\* The pointer moves as the numbers do.
LEMMA CommitOrder == OrderInv /\ pcm_mmap_commit => Captured' /\ Queued'
<1> SUFFICES ASSUME OrderInv, pcm_mmap_commit PROVE Captured' /\ Queued'
  OBVIOUS
<1> USE DEF OrderInv, IInv, pcm_mmap_commit
<1>1. frames \in Nat /\ in \in Nat /\ out \in Nat /\ appl_ptr \in Nat
  BY Constants DEF TypeOK
<1>2. Captured'
  <2> SUFFICES ASSUME PCM_IN PROVE Captured'
    BY DEF Captured
  <2>1. appl_ptr' % BufferSize = (out + frames) % BufferSize
    BY <1>1, ForwardPlace DEF Captured
  <2> QED
    BY <2>1 DEF Captured
<1>3. Queued'
  <2> SUFFICES ASSUME ~PCM_IN, in + frames <= Boundary PROVE Queued'
    BY DEF Queued
  <2>1. place' \in {"avail", "begin"} /\ in' = in + frames
    OBVIOUS
  <2>2. in <= Boundary
    BY <1>1, Constants
  <2>3. \A j \in Nat : out <= j /\ j < in + frames => ring[j % BufferSize] = j
    BY <2>2 DEF Queued, Copied
  <2> QED
    BY <1>1, <2>1, <2>3 DEF Queued, Copied
<1> QED
  BY <1>2, <1>3

\* The second invariant holds in every behaviour too.
LEMMA OrderInvariance == Spec => []OrderInv
<1>1. Init => OrderInv
  BY InitOrder
<1>2. OrderInv /\ [Next]_vars => OrderInv'
  <2> SUFFICES ASSUME OrderInv, [Next]_vars PROVE Captured' /\ Queued'
    BY StepIInv DEF OrderInv
  <2>1. CASE Capture
    BY <2>1, CaptureOrder
  <2>2. CASE Play
    BY <2>2, QuietOrder
  <2>3. CASE Application
    BY <2>3, QuietOrder, BeginOrder, CopyOrder, CommitOrder DEF Application
  <2>4. CASE UNCHANGED vars
    BY <2>4 DEF vars, call, OrderInv, Captured, Queued, Copied
  <2> QED
    BY <2>1, <2>2, <2>3, <2>4 DEF Next
<1> QED
  BY <1>1, <1>2, PTL DEF Spec

\* Frames come out of the ring in the order in which they went in, for every size of the
\* buffer, every boundary, and every way the kernel and pcm_mmap_transfer take turns.
THEOREM FramesStayInOrder == Spec => []FramesInOrder
<1>1. OrderInv => FramesInOrder
  <2> SUFFICES ASSUME OrderInv, in - out <= BufferSize, ~Wrapped,
                      NEW i \in 0..(in - out - 1)
               PROVE  ring[((IF PCM_IN THEN appl_ptr ELSE hw_ptr) + i) % BufferSize] = out + i
    BY DEF FramesInOrder
  <2>1. (/\ appl_ptr \in Nat /\ out \in Nat /\ i \in Nat
         /\ appl_ptr % BufferSize = out % BufferSize)
            => (appl_ptr + i) % BufferSize = (out + i) % BufferSize
    BY SumRemainder
  <2> USE Constants DEF OrderInv, IInv
  <2>2. in \in Nat /\ out \in Nat /\ appl_ptr \in Nat /\ i \in Nat
    BY DEF TypeOK
  <2>3. CASE PCM_IN
    <3>1. appl_ptr % BufferSize = out % BufferSize
      BY <2>3 DEF Captured
    <3>2. (appl_ptr + i) % BufferSize = (out + i) % BufferSize
      BY <2>2, <3>1, <2>1
    <3>3. out + i \in Nat /\ in - BufferSize <= out + i /\ out + i < in
      BY <2>2
    <3>4. ring[(out + i) % BufferSize] = out + i
      BY <2>3, <3>3 DEF Captured
    <3> QED
      BY <2>3, <3>2, <3>4
  <2>4. CASE ~PCM_IN
    <3>1. in <= Boundary
      BY <2>2, <2>4 DEF Wrapped
    <3>2. hw_ptr = out
      BY <2>2, <2>4, <3>1 DEF PlaybackPointers
    <3>3. out + i \in Nat /\ out <= out + i /\ out + i < in + Copied
      BY <2>2 DEF Copied, TypeOK
    <3>4. ring[(out + i) % BufferSize] = out + i
      BY <2>4, <3>1, <3>3 DEF Queued
    <3> QED
      BY <2>4, <3>2, <3>4
  <2> QED
    BY <2>3, <2>4
<1> QED
  BY <1>1, OrderInvariance, PTL

-----------------------------------------------------------------------------
(* A stream that plays, however often its pointers wrap, as long as no transfer takes a *)
(* full ring for an empty one: what LooksAtFullRing alone is to blame for.              *)

\* The pointers are as far apart as frames wait to be played. When all are played appl_ptr
\* may be Boundary where hw_ptr has wrapped to 0.
Distance ==
    ~PCM_IN => /\ in - out \in 0..BufferSize
               /\ \/ appl_ptr = hw_ptr + (in - out)
                  \/ appl_ptr + Boundary = hw_ptr + (in - out)
                  \/ in = out /\ hw_ptr = 0 /\ appl_ptr = Boundary

\* A round of pcm_mmap_transfer asks for something, and only for what is available.
Sizes ==
    /\ place \in {"begin", "copy", "commit"} => size >= 1 /\ size <= Available
    /\ place \in {"copy", "commit"} => frames >= 1

\* Both pointers stand where the numbers say, and frame j is in place j % BufferSize.
Playing ==
    ~PCM_IN =>
        /\ hw_ptr % BufferSize = out % BufferSize
        /\ appl_ptr % BufferSize = in % BufferSize
        /\ place \in {"copy", "commit"} => offset = in % BufferSize
        /\ \A j \in Nat : out <= j /\ j < in + Copied => ring[j % BufferSize] = j

Sound == IInv /\ Distance /\ Sizes /\ Playing

\* Unless it is full and only appl_ptr has wrapped, the ring is as full as it looks.
LEMMA AvailIsRoom ==
    ASSUME TypeOK, CapturePointers, Distance,
           ~(~PCM_IN /\ in - out = BufferSize /\ appl_ptr < hw_ptr)
    PROVE  pcm_mmap_avail = Available
<1>1. CASE PCM_IN
  BY <1>1, Constants
  DEF TypeOK, CapturePointers, Available, pcm_mmap_avail, pcm_mmap_capture_avail
<1>2. CASE ~PCM_IN
  BY <1>2, Constants
  DEF TypeOK, Distance, Available, pcm_mmap_avail, pcm_mmap_playback_avail
<1> QED
  BY <1>1, <1>2

\* Where it is full and only appl_ptr has wrapped, it looks empty.
LEMMA FullLooksEmpty ==
    ASSUME TypeOK, Distance, LooksAtFullRing
    PROVE  Available = 0 /\ pcm_mmap_avail = Boundary
BY Constants
DEF TypeOK, Distance, LooksAtFullRing, Available, pcm_mmap_avail, pcm_mmap_playback_avail

\* A stream that was just opened is empty, and nobody looks at it.
LEMMA InitSound == Init => Sound
<1> SUFFICES ASSUME Init PROVE Distance /\ Sizes /\ Playing
  BY InitIInv DEF Sound
<1> QED
  BY Constants DEF Init, Distance, Sizes, Playing, Copied

\* A captured frame makes more available to who reads; nothing else here is about capture.
LEMMA CaptureSound == Sound /\ Capture => Distance' /\ Sizes' /\ Playing'
<1> SUFFICES ASSUME Sound, Capture PROVE Distance' /\ Sizes' /\ Playing'
  OBVIOUS
<1>1. PCM_IN' /\ Available' = Available + 1 /\ UNCHANGED call
  BY DEF Sound, IInv, TypeOK, Capture, Available
<1>2. Sizes'
  BY <1>1 DEF Sound, IInv, TypeOK, Sizes, Available, Capture, call
<1> QED
  BY <1>1, <1>2 DEF Distance, Playing

\* A played frame makes room, and hw_ptr goes to the place of the next one.
LEMMA PlaySound == Sound /\ Play => Distance' /\ Sizes' /\ Playing'
<1> SUFFICES ASSUME Sound, Play PROVE Distance' /\ Sizes' /\ Playing'
  OBVIOUS
<1>1. /\ ~PCM_IN /\ PCM_IN' = PCM_IN /\ out < in /\ out' = out + 1
      /\ hw_ptr' = (hw_ptr + 1) % Boundary
      /\ UNCHANGED <<appl_ptr, ring, in, place, count, size, offset, frames>>
  BY DEF Play, call
<1>2. /\ hw_ptr \in 0..(Boundary - 1) /\ appl_ptr \in 0..Boundary
      /\ in \in Nat /\ out \in Nat /\ size \in Nat /\ frames \in Nat
  BY Constants DEF Sound, IInv, TypeOK
<1>3. hw_ptr' = IF hw_ptr + 1 = Boundary THEN 0 ELSE hw_ptr + 1
  BY <1>1, <1>2, Constants
<1>4. Distance'
  BY <1>1, <1>2, <1>3, Constants DEF Sound, Distance
<1>5. Sizes'
  BY <1>1, <1>2, Constants DEF Sound, Sizes, Available
<1>6. Playing'
  <2>1. hw_ptr' % BufferSize = out' % BufferSize
    BY <1>1, <1>2, NextPlace DEF Sound, Playing
  <2>2. Copied' = Copied
    BY <1>1 DEF Copied
  <2> QED
    BY <1>1, <1>2, <2>1, <2>2 DEF Sound, Playing
<1> QED
  BY <1>4, <1>5, <1>6

\* A call and its end leave everything as it is; a look at a ring that does not fool asks
\* for what is available.
LEMMA WaitSound ==
    /\ Sound
    /\ (\E n \in 1..(2 * BufferSize) : Transfer(n)) \/ Done \/ AvailUpdate
    /\ ~LooksAtFullRing
    => Distance' /\ Sizes' /\ Playing'
<1> SUFFICES ASSUME Sound, ~LooksAtFullRing,
                    (\E n \in 1..(2 * BufferSize) : Transfer(n)) \/ Done \/ AvailUpdate
             PROVE  Distance' /\ Sizes' /\ Playing'
  OBVIOUS
<1>1. UNCHANGED <<PCM_IN, hw_ptr, appl_ptr, ring, in, out, offset, frames>>
  BY DEF Transfer, Done, AvailUpdate
<1>2. place \in {"idle", "avail"} /\ place' \in {"avail", "idle", "begin"}
  BY DEF Transfer, Done, AvailUpdate
<1>3. ASSUME place' = "begin"
      PROVE  size' >= 1 /\ size' <= Available
  <2>1. AvailUpdate
    BY <1>3 DEF Transfer, Done
  <2>2. pcm_mmap_avail = Available
    BY <2>1, AvailIsRoom DEF LooksAtFullRing, Sound, IInv
  <2>3. pcm_mmap_avail \in Nat /\ count \in Nat
    BY AvailIsNat DEF Sound, IInv, TypeOK
  <2> QED
    BY <2>1, <2>2, <2>3 DEF AvailUpdate, Least
<1>4. Available' = Available
  BY <1>1 DEF Available
<1>5. Sizes'
  BY <1>2, <1>3, <1>4 DEF Sizes
<1>6. Copied' = 0 /\ Copied = 0
  BY <1>2 DEF Copied
<1> QED
  BY <1>1, <1>2, <1>5, <1>6 DEF Sound, Distance, Playing

\* What is asked for was available before, and still is: something is granted.
LEMMA BeginSound == Sound /\ pcm_mmap_begin => Distance' /\ Sizes' /\ Playing'
<1> SUFFICES ASSUME Sound, pcm_mmap_begin PROVE Distance' /\ Sizes' /\ Playing'
  OBVIOUS
<1>1. UNCHANGED <<PCM_IN, hw_ptr, appl_ptr, ring, in, out, count, size>>
  BY DEF pcm_mmap_begin
<1>2. /\ place = "begin" /\ place' = "copy"
      /\ offset' = appl_ptr % BufferSize /\ frames' = Grant(size)
  BY DEF pcm_mmap_begin
<1>3. size >= 1 /\ size <= Available /\ size \in Nat
  BY <1>2 DEF Sound, Sizes, IInv, TypeOK
<1>4. pcm_mmap_avail = Available
  <2>1. ~(~PCM_IN /\ in - out = BufferSize)
    BY <1>3, Constants DEF Available
  <2> QED
    BY <2>1, AvailIsRoom DEF Sound, IInv
<1>5. Grant(size) >= 1
  <2>1. appl_ptr % BufferSize \in Slots
    BY GrantBounds DEF Sound, IInv
  <2>2. pcm_mmap_avail \in Nat
    BY AvailIsNat DEF Sound, IInv, TypeOK
  <2> QED
    BY <1>3, <1>4, <2>1, <2>2, Constants DEF Grant, Least, Slots
<1>6. Sizes'
  BY <1>1, <1>2, <1>3, <1>5 DEF Sizes, Available
<1>7. Playing'
  BY <1>1, <1>2 DEF Sound, Playing, Copied
<1> QED
  BY <1>1, <1>6, <1>7 DEF Sound, Distance

\* The frames that are copied go behind those that wait to be played.
LEMMA CopySound == Sound /\ pcm_areas_copy => Distance' /\ Sizes' /\ Playing'
<1> SUFFICES ASSUME Sound, pcm_areas_copy PROVE Distance' /\ Sizes' /\ Playing'
  OBVIOUS
<1>1. UNCHANGED <<PCM_IN, hw_ptr, appl_ptr, in, out, count, size, offset, frames>>
  BY DEF pcm_areas_copy
<1>2. place = "copy" /\ place' = "commit"
  BY DEF pcm_areas_copy
<1>3. Distance' /\ Sizes'
  BY <1>1, <1>2 DEF Sound, Distance, Sizes, Available
<1>4. ASSUME ~PCM_IN, NEW j \in Nat, out <= j, j < in + frames
      PROVE  ring'[j % BufferSize] = j
  <2>1. /\ in - out \in 0..BufferSize
        /\ offset = in % BufferSize
        /\ offset + frames <= BufferSize
    BY <1>2, <1>4 DEF Sound, Distance, Playing, IInv, Grants, GrantAvailable
  <2>2. frames <= BufferSize - (in - out)
    BY <1>2, <1>4, <2>1, Constants DEF Sound, Sizes, Available, IInv, TypeOK, Grants
  <2>3. Copied = 0 /\ in + 0 = in
    BY <1>2 DEF Copied, Sound, IInv, TypeOK
  <2>4. \A k \in Nat : out <= k /\ k < in => ring[k % BufferSize] = k
    BY <1>4, <2>3 DEF Sound, Playing
  <2>5. TypeOK
    BY DEF Sound, IInv
  <2> QED
    BY <1>2, <1>4, <2>1, <2>2, <2>4, <2>5, CopiedBehind
<1>5. Playing'
  <2>1. Copied' = frames
    BY <1>1, <1>2 DEF Copied
  <2> QED
    BY <1>1, <1>2, <1>4, <2>1 DEF Sound, Playing
<1> QED
  BY <1>3, <1>5

\* The pointer moves by what was granted, and by no more than there is room for.
LEMMA CommitSound == Sound /\ pcm_mmap_commit => Distance' /\ Sizes' /\ Playing'
<1> SUFFICES ASSUME Sound, pcm_mmap_commit PROVE Distance' /\ Sizes' /\ Playing'
  OBVIOUS
<1>1. /\ place = "commit" /\ UNCHANGED <<PCM_IN, hw_ptr, ring>>
      /\ appl_ptr' = pcm_mmap_appl_forward(frames)
      /\ size' = size - frames /\ place' = IF size' = 0 THEN "avail" ELSE "begin"
      /\ IF PCM_IN THEN out' = out + frames /\ in' = in
                   ELSE in' = in + frames /\ out' = out
  BY DEF pcm_mmap_commit
<1>2. /\ hw_ptr \in 0..(Boundary - 1) /\ appl_ptr \in 0..Boundary
      /\ in \in Nat /\ out \in Nat /\ size \in Nat /\ frames \in Nat
  BY Constants DEF Sound, IInv, TypeOK
<1>3. frames >= 1 /\ frames <= size /\ size <= Available
  BY <1>1 DEF Sound, Sizes, IInv, Grants
<1>4. Distance'
  <2> SUFFICES ASSUME ~PCM_IN PROVE Distance'
    BY <1>1 DEF Distance
  <2>1. in' = in + frames /\ out' = out /\ frames <= BufferSize - (in - out)
    BY <1>1, <1>2, <1>3, Constants DEF Available
  <2> QED
    BY <1>1, <1>2, <1>3, <2>1, Constants DEF Sound, Distance, pcm_mmap_appl_forward
<1>5. Sizes'
  <2>1. Available' = Available - frames
    BY <1>1, <1>2, Constants DEF Available
  <2>2. Available \in Int
    BY <1>2, Constants DEF Available
  <2> QED
    BY <1>1, <1>2, <1>3, <2>1, <2>2 DEF Sizes
<1>6. Playing'
  <2> SUFFICES ASSUME ~PCM_IN PROVE Playing'
    BY <1>1 DEF Playing
  <2>1. appl_ptr' % BufferSize = in' % BufferSize
    <3>1. appl_ptr \in Nat /\ appl_ptr % BufferSize = in % BufferSize
      BY <1>2, Constants DEF Sound, Playing
    <3>2. pcm_mmap_appl_forward(frames) % BufferSize = (in + frames) % BufferSize
      BY <1>2, <3>1, ForwardPlace
    <3>3. in' = in + frames
      BY <1>1
    <3> QED
      BY <1>1, <3>2, <3>3
  <2>2. Copied = frames /\ Copied' = 0 /\ in' + 0 = in'
    BY <1>1, <1>2 DEF Copied
  <2>3. place' \notin {"copy", "commit"}
    BY <1>1
  <2> QED
    BY <1>1, <2>1, <2>2, <2>3 DEF Sound, Playing
<1> QED
  BY <1>4, <1>5, <1>6

\* Sound is kept by every step but the one that is fooled.
LEMMA StepSound == Sound /\ [Next]_vars /\ ~LooksAtFullRing => Sound'
<1> SUFFICES ASSUME Sound, [Next]_vars, ~LooksAtFullRing
             PROVE  Distance' /\ Sizes' /\ Playing'
  BY StepIInv DEF Sound
<1>1. CASE Capture
  BY <1>1, CaptureSound
<1>2. CASE Play
  BY <1>2, PlaySound
<1>3. CASE Application
  BY <1>3, WaitSound, BeginSound, CopySound, CommitSound DEF Application
<1>4. CASE UNCHANGED vars
  BY <1>4 DEF vars, call, Sound, Distance, Sizes, Playing, Available, Copied
<1> QED
  BY <1>1, <1>2, <1>3, <1>4 DEF Next

\* As long as no transfer looks at a full ring with one pointer wrapped, a stream that
\* plays does what the comment says and keeps the frames in order, however often its
\* pointers wrap; every round of the transfer goes on.
THEOREM OnlyFullRingsFool ==
    Spec /\ [][~LooksAtFullRing]_vars => [](OnlyAvailable /\ GrantsSome /\ PlaysInOrder)
<1>1. Sound /\ [Next]_vars /\ [~LooksAtFullRing]_vars => Sound'
  <2> SUFFICES ASSUME Sound, UNCHANGED vars PROVE ~LooksAtFullRing
    BY StepSound
  <2> QED
    BY DEF vars, call, LooksAtFullRing, AvailUpdate
<1>2. Sound => OnlyAvailable /\ GrantsSome /\ PlaysInOrder
  <2> SUFFICES ASSUME Sound PROVE OnlyAvailable /\ GrantsSome /\ PlaysInOrder
    OBVIOUS
  <2>1. OnlyAvailable /\ GrantsSome
    <3>1. in \in Nat /\ out \in Nat /\ size \in Nat /\ frames \in Nat
      BY Constants DEF Sound, IInv, TypeOK
    <3> QED
      BY <3>1, Constants
      DEF Sound, Sizes, IInv, Grants, Available, OnlyAvailable, GrantsSome
  <2>2. ASSUME ~PCM_IN, NEW i \in 0..(in - out - 1)
        PROVE  ring[(hw_ptr + i) % BufferSize] = out + i
    <3>1. in \in Nat /\ out \in Nat /\ hw_ptr \in Nat /\ i \in Nat
      BY Constants DEF Sound, IInv, TypeOK
    <3>2. (hw_ptr + i) % BufferSize = (out + i) % BufferSize
      BY <2>2, <3>1, SumRemainder DEF Sound, Playing
    <3>3. out + i \in Nat /\ out <= out + i /\ out + i < in + Copied
      BY <3>1, Constants DEF Copied, Sound, IInv, TypeOK
    <3>4. ring[(out + i) % BufferSize] = out + i
      BY <2>2, <3>3 DEF Sound, Playing
    <3> QED
      BY <3>2, <3>4
  <2>3. ~PCM_IN => in - out <= BufferSize
    BY Constants DEF Sound, Distance
  <2> QED
    BY <2>1, <2>2, <2>3 DEF PlaysInOrder
<1> QED
  BY <1>1, <1>2, InitSound, PTL DEF Spec

\* It is that look and nothing else: what a round asks for is available at every moment
\* exactly in the behaviours in which no transfer looks at a full ring so.
THEOREM FullRingsFool == Spec => ([]AsksForAvailable <=> [][~LooksAtFullRing]_vars)
<1>1. Sound /\ LooksAtFullRing => ~AsksForAvailable'
  <2> SUFFICES ASSUME Sound, LooksAtFullRing PROVE ~AsksForAvailable'
    OBVIOUS
  <2>1. Available = 0 /\ pcm_mmap_avail = Boundary
    BY FullLooksEmpty DEF Sound, IInv
  <2>2. Available' = Available /\ place' = "begin" /\ size' = Least(count, Boundary)
    BY <2>1 DEF LooksAtFullRing, AvailUpdate, Available
  <2>3. count \in Nat /\ count > 0
    BY DEF LooksAtFullRing, AvailUpdate, Sound, IInv, TypeOK
  <2> QED
    BY <2>1, <2>2, <2>3, Constants DEF AsksForAvailable, Least
<1>2. Sound /\ [Next]_vars /\ ~LooksAtFullRing => Sound'
  BY StepSound
<1>3. UNCHANGED vars => ~LooksAtFullRing
  BY DEF vars, call, LooksAtFullRing, AvailUpdate
<1>4. Sound => AsksForAvailable
  BY DEF Sound, Sizes, AsksForAvailable
<1> QED
  BY <1>1, <1>2, <1>3, <1>4, InitSound, PTL DEF Spec

\* Every step of pcm_mmap_transfer is a step towards its end, as long as no transfer looks
\* at a full ring so: afterwards one may be granted nothing, over and over, in the loop of
\* pcm_mmap_transfer_areas.
THEOREM TransfersComeToAnEnd == Spec /\ [][~LooksAtFullRing]_vars => NeverSpins
<1>1. ASSUME Sound, Next, place # "idle"
      PROVE  StepsLeft' <= StepsLeft /\ (Application => StepsLeft' < StepsLeft)
  <2>1. /\ count \in Nat /\ size \in 0..count /\ frames \in Nat
        /\ place \in {"avail", "begin", "copy", "commit"}
    BY <1>1, Constants DEF Sound, IInv, TypeOK
  <2>2. CASE Capture \/ Play
    <3>1. UNCHANGED call /\ ~Application
      BY <2>2 DEF Capture, Play, Application, Transfer, Done, AvailUpdate, pcm_mmap_begin,
                  pcm_areas_copy, pcm_mmap_commit, call
    <3> QED
      BY <2>1, <3>1 DEF call, StepsLeft
  <2>3. CASE Application
    <3>1. ~(\E n \in 1..(2 * BufferSize) : Transfer(n))
      BY <1>1 DEF Transfer
    <3>2. CASE Done
      BY <2>1, <3>2 DEF Done, StepsLeft
    <3>3. CASE AvailUpdate
      BY <2>1, <3>3 DEF AvailUpdate, StepsLeft
    <3>4. CASE pcm_mmap_begin
      BY <2>1, <3>4 DEF pcm_mmap_begin, StepsLeft
    <3>5. CASE pcm_areas_copy
      BY <2>1, <3>5 DEF pcm_areas_copy, StepsLeft
    <3>6. CASE pcm_mmap_commit
      <4>1. place = "commit" /\ count' = count - frames /\ place' \in {"avail", "begin"}
        BY <3>6 DEF pcm_mmap_commit
      <4>2. frames >= 1
        BY <1>1, <4>1 DEF Sound, Sizes
      <4> QED
        BY <2>1, <4>1, <4>2 DEF StepsLeft
    <3> QED
      BY <2>3, <3>1, <3>2, <3>3, <3>4, <3>5, <3>6 DEF Application
  <2> QED
    BY <1>1, <2>2, <2>3 DEF Next
<1>2. Sound /\ [Next]_vars =>
          [place # "idle" => /\ StepsLeft' <= StepsLeft
                             /\ Application => StepsLeft' < StepsLeft]_vars
  BY <1>1
<1>3. Sound /\ [Next]_vars /\ [~LooksAtFullRing]_vars => Sound'
  <2> SUFFICES ASSUME Sound, UNCHANGED vars PROVE ~LooksAtFullRing
    BY StepSound
  <2> QED
    BY DEF vars, call, LooksAtFullRing, AvailUpdate
<1> QED
  BY <1>2, <1>3, InitSound, PTL DEF Spec, NeverSpins
=============================================================================
