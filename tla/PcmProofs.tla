------------------------------ MODULE PcmProofs ------------------------------
(***************************************************************************)
(* What the theorems about both clients of Pcm rest on: no step of a call, *)
(* of the kernel, or of pcm_open takes a variable of the stream out of its *)
(* range, and a call that is not started over has less to do with each of  *)
(* its steps.                                                              *)
(***************************************************************************)
EXTENDS Pcm, TLAPS

\* The parts of the type invariant: the provers do numbers, booleans and names apart.
Numbers ==
    delay \in Nat /\ openFds \in Nat /\ blocks \in Nat /\ asked \in Nat /\ left \in 0..asked

Beliefs == prepared \in BOOLEAN /\ running \in BOOLEAN

Kinds ==
    /\ flags \subseteq Flags
    /\ handle \in {"none", "bad", "live"}
    /\ fd \in {"none", "open"}
    /\ mmap_buffer \in {"null", "failed", "mapped", "unmapped"}
    /\ mmap_status \in {"null", "mapped", "sync_ptr"}
    /\ substream \in {"closed", "setup", "prepared", "running", "xrun", "suspended",
                      "disconnected"}
    /\ maps \subseteq {"buffer", "status"}
    /\ place \in {"idle", "top", "prepare", "initial", "start", "transfer"}
    /\ call \in {"none", "write", "read", "prepare", "start", "stop"}
    /\ result \in {"none", "ok", "EPIPE", "EINVAL", "error"}

\* The constants, in the form the steps use.
LEMMA Constants == Periods \in Nat /\ Periods >= 2 /\ StopBuffers \in Nat
BY PeriodsAssumption

\* The parts make up the type invariant, before a step and after it.
LEMMA StreamTypeParts ==
    /\ StreamTypeOK <=> Numbers /\ Beliefs /\ Kinds
    /\ StreamTypeOK' <=> Numbers' /\ Beliefs' /\ Kinds'
<1>1. StreamTypeOK <=> Numbers /\ Beliefs /\ Kinds
  BY DEF StreamTypeOK, Numbers, Beliefs, Kinds
<1>2. StreamTypeOK' <=> Numbers' /\ Beliefs' /\ Kinds'
  BY DEF StreamTypeOK, Numbers, Beliefs, Kinds
<1> QED
  BY <1>1, <1>2

\* A process that has opened nothing.
LEMMA InitTypes == StreamInit => StreamTypeOK
<1> SUFFICES ASSUME StreamInit PROVE Numbers /\ Beliefs /\ Kinds
  BY StreamTypeParts
<1> USE DEF StreamInit
<1>1. Numbers
  BY DEF Numbers
<1>2. Beliefs /\ Kinds
  BY DEF Beliefs, Kinds
<1> QED
  BY <1>1, <1>2

\* The next process has opened nothing either.
LEMMA LostTypes == StreamLost => StreamTypeOK'
<1> SUFFICES ASSUME StreamLost PROVE Numbers' /\ Beliefs' /\ Kinds'
  BY StreamTypeParts
<1> USE DEF StreamLost
<1>1. Numbers'
  BY DEF Numbers
<1>2. Beliefs' /\ Kinds'
  BY DEF Beliefs, Kinds
<1> QED
  BY <1>1, <1>2

\* The steps of a call.
LEMMA CallTypes == StreamTypeOK /\ CallStep => StreamTypeOK'
<1> SUFFICES ASSUME Numbers, Beliefs, Kinds, CallStep PROVE Numbers' /\ Beliefs' /\ Kinds'
  BY StreamTypeParts
<1> USE DEF pointers, state, kernel, Goto, Return
<1>1. CASE Top \/ AlreadyPrepared \/ PrepareOk \/ PrepareFails
  <2> USE <1>1 DEF Top, AlreadyPrepared, PrepareOk, PrepareFails, AfterPrepare
  <2>1. Numbers'
    BY DEF Numbers
  <2>2. Beliefs'
    BY DEF Beliefs
  <2>3. Kinds'
    BY DEF Kinds
  <2> QED
    BY <2>1, <2>2, <2>3
<1>2. CASE StartOk \/ StartFails \/ InitialDone \/ InitialFails
  <2> USE <1>2 DEF StartOk, StartFails, InitialDone, InitialFails
  <2>1. Numbers'
    BY DEF Numbers
  <2>2. Beliefs'
    BY DEF Beliefs
  <2>3. Kinds'
    BY DEF Kinds
  <2> QED
    BY <2>1, <2>2, <2>3
<1>3. CASE WritePeriod \/ ReadPeriod
  <2> USE <1>3 DEF WritePeriod, ReadPeriod
  <2>1. Numbers'
    BY DEF Numbers
  <2>2. Beliefs'
    BY DEF Beliefs
  <2>3. Kinds'
    BY DEF Kinds
  <2> QED
    BY <2>1, <2>2, <2>3
<1>4. CASE TransferDone \/ TransferXrun \/ TransferFails
  <2> USE <1>4 DEF TransferDone, TransferXrun, TransferFails
  <2>1. Numbers'
    BY DEF Numbers
  <2>2. Beliefs'
    BY DEF Beliefs
  <2>3. /\ UNCHANGED <<pointers, kernel, call>> /\ place' \in {"idle", "top"}
        /\ result' \in {result, "ok", "EPIPE", "error"}
    OBVIOUS
  <2>4. Kinds'
    <3> HIDE <1>4
    <3> QED
      BY <2>3 DEF Kinds
  <2> QED
    BY <2>1, <2>2, <2>4
<1> QED
  BY <1>1, <1>2, <1>3, <1>4 DEF CallStep

\* The kernel and the card.
LEMMA KernelTypes == StreamTypeOK /\ Kernel => StreamTypeOK'
<1> SUFFICES ASSUME Numbers, Beliefs, Kinds, Kernel PROVE Numbers' /\ Beliefs' /\ Kinds'
  BY StreamTypeParts
<1> USE DEF pointers, state, kernel, progress
<1>1. CASE Play \/ CapturePeriod
  <2>1. /\ UNCHANGED <<pointers, state, progress>> /\ delay' \in {delay - 1, delay + 1}
        /\ substream' \in {"running", "xrun"} /\ delay' >= 0
    BY <1>1 DEF Play, CapturePeriod, Numbers
  <2>2. Numbers' /\ Beliefs'
    BY <2>1 DEF Numbers, Beliefs
  <2>3. Kinds'
    BY <2>1 DEF Kinds
  <2> QED
    BY <2>2, <2>3
<1>2. CASE Suspend \/ Disconnect
  <2>1. UNCHANGED <<pointers, state, delay, progress>>
    BY <1>2 DEF Suspend, Disconnect
  <2>2. substream' \in {"suspended", "disconnected"}
    BY <1>2 DEF Suspend, Disconnect
  <2>3. Numbers' /\ Beliefs'
    BY <2>1 DEF Numbers, Beliefs
  <2>4. Kinds'
    BY <2>1, <2>2 DEF Kinds
  <2> QED
    BY <2>3, <2>4
<1>3. CASE Interrupted
  <2> USE <1>3 DEF Interrupted, Goto, Return
  <2>1. Numbers'
    BY DEF Numbers
  <2>2. Beliefs'
    BY DEF Beliefs
  <2>3. UNCHANGED <<pointers, kernel, call>> /\ place' = "idle" /\ result' \in {"ok", "error"}
    OBVIOUS
  <2>4. Kinds'
    <3> HIDE <1>3
    <3> QED
      BY <2>3 DEF Kinds
  <2> QED
    BY <2>1, <2>2, <2>4
<1> QED
  BY <1>1, <1>2, <1>3 DEF Kernel

\* A new handle; of a descriptor and pages taken back nothing has to be known here.
LEMMA OpenTypes ==
    ASSUME NEW f \in SUBSET Flags, StreamTypeOK, pcm_open(f)
    PROVE  StreamTypeOK'
<1> SUFFICES Numbers' /\ Beliefs' /\ Kinds'
  BY StreamTypeParts
<1> Numbers /\ Beliefs /\ Kinds
  BY StreamTypeParts
<1> USE DEF NewHandle, kernel, progress
<1>1. CASE OpenNoMemory \/ OpenFails(f)
  <2> USE <1>1 DEF OpenNoMemory, BadHandle, OpenFails
  <2>1. Numbers'
    BY DEF Numbers
  <2>2. Beliefs'
    BY DEF Beliefs
  <2>3. Kinds'
    BY DEF Kinds
  <2> QED
    BY <2>1, <2>2, <2>3
<1>2. CASE OpenFailsLate(f) \/ OpenOk(f)
  <2> USE <1>2 DEF OpenFailsLate, OpenOk, MapsStatus
  <2>1. Numbers'
    BY DEF Numbers
  <2>2. Beliefs'
    BY DEF Beliefs
  <2>3. Kinds'
    BY DEF Kinds
  <2> QED
    BY <2>1, <2>2, <2>3
<1> QED
  BY <1>1, <1>2 DEF pcm_open

\* What is left of a call, before a step and after it.
LEMMA StepsLeftTypes ==
    /\ StreamTypeOK => StepsLeft \in Nat /\ (StepsLeft = 0 <=> place = "idle")
    /\ StreamTypeOK' => StepsLeft' \in Nat /\ (StepsLeft' = 0 <=> place' = "idle")
<1>1. ASSUME StreamTypeOK PROVE StepsLeft \in Nat /\ (StepsLeft = 0 <=> place = "idle")
  <2>1. /\ asked \in Nat /\ left \in 0..asked
        /\ place \in {"idle", "top", "prepare", "initial", "start", "transfer"}
    BY <1>1, StreamTypeParts DEF Numbers, Kinds
  <2> QED
    BY <2>1 DEF StepsLeft
<1>2. ASSUME StreamTypeOK' PROVE StepsLeft' \in Nat /\ (StepsLeft' = 0 <=> place' = "idle")
  <2>1. /\ asked' \in Nat /\ left' \in 0..asked'
        /\ place' \in {"idle", "top", "prepare", "initial", "start", "transfer"}
    BY <1>2, StreamTypeParts DEF Numbers, Kinds
  <2> QED
    BY <2>1 DEF StepsLeft
<1> QED
  BY <1>1, <1>2

\* A step of a call, or the signal that ends it, leaves less to do, unless it starts the
\* call over.
LEMMA StepsGetLess ==
    ASSUME StreamTypeOK, CallStep \/ Interrupted, ~Restarts
    PROVE  StepsLeft' < StepsLeft
<1>1. StreamTypeOK'
  BY CallTypes, KernelTypes DEF Kernel
<1>2. /\ asked \in Nat /\ left \in 0..asked
      /\ place \in {"top", "prepare", "initial", "start", "transfer"}
  <2>1. place # "idle"
    BY DEF CallStep, Interrupted, Top, AlreadyPrepared, AfterPrepare, PrepareOk, PrepareFails,
           StartOk, StartFails, WritePeriod, ReadPeriod, InitialDone, InitialFails,
           TransferDone, TransferXrun, TransferFails, Goto, Return
  <2> QED
    BY <2>1, StreamTypeParts DEF Numbers, Kinds
<1>3. StepsLeft \in Nat /\ StepsLeft > 0 /\ StepsLeft' \in Nat
  BY <1>1, <1>2, StepsLeftTypes
<1>4. ASSUME place' = "idle" PROVE StepsLeft' < StepsLeft
  BY <1>1, <1>3, <1>4, StepsLeftTypes
<1>5. CASE Interrupted
  BY <1>4, <1>5 DEF Interrupted, Return, Goto
<1>6. CASE CallStep
  <2> USE <1>2 DEF StepsLeft, Goto
  <2>1. CASE Top
    BY <2>1 DEF Top
  <2>2. CASE AlreadyPrepared \/ PrepareOk
    BY <2>2 DEF AlreadyPrepared, PrepareOk, AfterPrepare
  <2>3. CASE StartOk
    BY <2>3 DEF StartOk
  <2>4. CASE WritePeriod \/ ReadPeriod
    BY <2>4 DEF WritePeriod, ReadPeriod
  <2>5. CASE PrepareFails \/ StartFails \/ InitialDone \/ InitialFails \/ TransferDone
               \/ TransferFails
    BY <1>4, <2>5
    DEF PrepareFails, StartFails, InitialDone, InitialFails, TransferDone, TransferFails,
        Return
  <2>6. CASE TransferXrun
    BY <1>4, <2>6 DEF TransferXrun, Restarts
  <2> QED
    BY <1>6, <2>1, <2>2, <2>3, <2>4, <2>5, <2>6 DEF CallStep
<1> QED
  BY <1>5, <1>6

\* The card does not change it.
LEMMA StepsStay ==
    ASSUME Play \/ CapturePeriod \/ Suspend \/ Disconnect
    PROVE  StepsLeft' = StepsLeft /\ place' = place
<1>1. UNCHANGED progress
  BY DEF Play, CapturePeriod, Suspend, Disconnect
<1> QED
  BY <1>1 DEF progress, StepsLeft
=============================================================================
