-------------------------- MODULE PcmStreamProofs --------------------------
(***************************************************************************)
(* Theorems about PcmStream, for every number of periods: what pcm_open    *)
(* takes is accounted for in the handle, the flags of the handle follow    *)
(* the substream, a write that may not restart never does, and nothing but *)
(* a restart keeps a call from coming nearer to its end.                   *)
(*                                                                         *)
(* The accounts are inductive once it is known which handles have which    *)
(* pointers.  The flags are not: whether a call may leave them as they are *)
(* depends on how far it has come, which Places says.                      *)
(***************************************************************************)
EXTENDS PcmStream, PcmProofs

\* &bad_pcm has nothing, and a mapped buffer belongs to a handle that remembers so.
Handles ==
    /\ handle = "bad" => fd = "none" /\ mmap_status = "null" /\ mmap_buffer = "null"
    /\ mmap_buffer = "mapped" => "PCM_MMAP" \in flags

\* What a call can count on at each of its places.
Places ==
    /\ place = "prepare" => left = asked /\ (call \in {"write", "read"} => ~running)
    /\ place = "initial" => prepared /\ ~running /\ substream # "setup"
    /\ place = "initial" /\ left = asked
          => substream \in {"prepared", "suspended", "disconnected"}
    /\ place = "start" => prepared
    /\ place = "transfer" => running

IInv == TypeOK /\ Accounted /\ Handles /\ Places /\ FlagsFollow

-----------------------------------------------------------------------------

\* The parts make up the type invariant, before a step and after it.
LEMMA TypeParts ==
    /\ TypeOK <=> Numbers /\ Beliefs /\ Kinds /\ leaked \in 0..MaxLeaked
    /\ TypeOK' <=> Numbers' /\ Beliefs' /\ Kinds' /\ leaked' \in 0..MaxLeaked
BY StreamTypeParts DEF TypeOK

\* A process that has opened nothing satisfies the invariant.
LEMMA InitIInv == Init => IInv
<1> SUFFICES ASSUME Init PROVE IInv
  OBVIOUS
<1>1. TypeOK
  BY InitTypes, MaxLeakedAssumption DEF Init, TypeOK
<1>2. Accounted
  BY DEF Init, StreamInit, Accounted
<1>3. Handles /\ Places /\ FlagsFollow
  BY DEF Init, StreamInit, Handles, Places, FlagsFollow
<1> QED
  BY <1>1, <1>2, <1>3 DEF IInv

\* pcm_open, whichever way it ends, accounts for what it holds.
LEMMA OpenStep ==
    ASSUME IInv, NEW f \in SUBSET Flags, pcm_open(f), UNCHANGED leaked
    PROVE  IInv'
<1> Numbers /\ Beliefs /\ Kinds /\ leaked \in 0..MaxLeaked
  BY TypeParts DEF IInv
<1> USE DEF IInv, NewHandle, kernel, progress
<1>1. CASE OpenNoMemory
  <2> USE <1>1 DEF OpenNoMemory, BadHandle
  <2>1. TypeOK'
    <3>1. Numbers'
      BY DEF Numbers
    <3>2. Beliefs' /\ Kinds'
      BY DEF Beliefs, Kinds
    <3> QED
      BY <3>1, <3>2, TypeParts
  <2>2. Accounted'
    BY DEF Numbers, Kinds, Accounted
  <2>3. Handles'
    BY DEF Handles
  <2>4. Places' /\ FlagsFollow'
    BY DEF Places, FlagsFollow
  <2> QED
    BY <2>1, <2>2, <2>3, <2>4
<1>2. CASE OpenFails(f)
  <2> USE <1>2 DEF OpenFails
  <2>1. TypeOK'
    <3>1. Numbers'
      BY DEF Numbers
    <3>2. Beliefs' /\ Kinds'
      BY DEF Beliefs, Kinds
    <3> QED
      BY <3>1, <3>2, TypeParts
  <2>2. Accounted'
    BY DEF Numbers, Kinds, Accounted
  <2>3. Handles'
    BY DEF Handles
  <2>4. Places' /\ FlagsFollow'
    BY DEF Places, FlagsFollow
  <2> QED
    BY <2>1, <2>2, <2>3, <2>4
<1>3. CASE OpenFailsLate(f)
  <2> USE <1>3 DEF OpenFailsLate, MapsStatus
  <2>1. TypeOK'
    <3>1. Numbers'
      BY DEF Numbers
    <3>2. Beliefs' /\ Kinds'
      BY DEF Beliefs, Kinds
    <3> QED
      BY <3>1, <3>2, TypeParts
  <2>2. Accounted'
    BY DEF Numbers, Kinds, Accounted
  <2>3. Handles'
    BY DEF Handles
  <2>4. Places' /\ FlagsFollow'
    BY DEF Places, FlagsFollow
  <2> QED
    BY <2>1, <2>2, <2>3, <2>4
<1>4. CASE OpenOk(f)
  <2> USE <1>4 DEF OpenOk, MapsStatus
  <2>1. TypeOK'
    <3>1. Numbers'
      BY DEF Numbers
    <3>2. Beliefs' /\ Kinds'
      BY DEF Beliefs, Kinds
    <3> QED
      BY <3>1, <3>2, TypeParts
  <2>2. Accounted'
    BY DEF Numbers, Kinds, Accounted
  <2>3. Handles'
    BY DEF Handles
  <2>4. Places' /\ FlagsFollow'
    BY DEF Places, FlagsFollow
  <2> QED
    BY <2>1, <2>2, <2>3, <2>4
<1> QED
  BY <1>1, <1>2, <1>3, <1>4 DEF pcm_open

\* An open without a config accounts for nothing but the block it loses.
LEMMA LeakStep == IInv /\ Leak => IInv'
<1> SUFFICES ASSUME IInv, Leak PROVE IInv'
  OBVIOUS
<1> Numbers /\ Beliefs /\ Kinds /\ leaked \in 0..MaxLeaked
  BY TypeParts DEF IInv
<1> USE DEF IInv, Leak, OpenNoConfig, BadHandle, kernel, progress
<1>1. TypeOK'
  <2>1. Numbers' /\ leaked' \in 0..MaxLeaked
    BY MaxLeakedAssumption DEF Numbers
  <2>2. Beliefs' /\ Kinds'
    BY DEF Beliefs, Kinds
  <2> QED
    BY <2>1, <2>2, TypeParts
<1>2. Accounted'
  BY DEF Numbers, Kinds, Accounted
<1>3. Handles' /\ Places' /\ FlagsFollow'
  BY DEF Handles, Places, FlagsFollow
<1> QED
  BY <1>1, <1>2, <1>3

\* pcm_close gives back all that is accounted for.
LEMMA CloseStep == IInv /\ pcm_close /\ UNCHANGED leaked => IInv'
<1> SUFFICES ASSUME IInv, pcm_close, UNCHANGED leaked PROVE IInv'
  OBVIOUS
<1> Numbers /\ Beliefs /\ Kinds /\ leaked \in 0..MaxLeaked
  BY TypeParts DEF IInv
<1> USE DEF IInv, pcm_close, progress
<1>1. openFds' = 0 /\ blocks' = leaked
  BY DEF Numbers, Kinds, Accounted, Handles, StatusBlocks
<1>2. maps' = {}
  BY DEF Kinds, Accounted, Handles, StatusPages
<1>3. TypeOK'
  <2>1. Numbers'
    BY <1>1 DEF Numbers
  <2>2. Beliefs' /\ Kinds'
    BY <1>2 DEF Beliefs, Kinds
  <2> QED
    BY <2>1, <2>2, TypeParts
<1>4. Accounted' /\ Handles'
  BY <1>1, <1>2 DEF Accounted, Handles
<1>5. Places' /\ FlagsFollow'
  BY DEF Places, FlagsFollow
<1> QED
  BY <1>3, <1>4, <1>5
-----------------------------------------------------------------------------
(* The steps of a call. *)

\* A step that leaves the handle's pointers alone leaves its accounts alone.
LEMMA Whole ==
    ASSUME IInv, UNCHANGED <<pointers, leaked>>,
           Numbers', Beliefs', Kinds', Places', FlagsFollow'
    PROVE  IInv'
<1>1. Accounted' /\ Handles'
  BY DEF IInv, Accounted, Handles, pointers
<1> QED
  BY <1>1, TypeParts DEF IInv

\* Preparing: the call comes from a stream believed not to run, or reaches START with
\* the belief that it is prepared.
LEMMA PrepareStep ==
    IInv /\ (Top \/ AlreadyPrepared \/ PrepareOk \/ PrepareFails) /\ UNCHANGED leaked => IInv'
<1> SUFFICES ASSUME IInv, Top \/ AlreadyPrepared \/ PrepareOk \/ PrepareFails, UNCHANGED leaked
             PROVE  IInv'
  OBVIOUS
<1> Numbers /\ Beliefs /\ Kinds /\ Places /\ FlagsFollow
  BY TypeParts DEF IInv
<1> USE DEF pointers, state, kernel, Goto, Return
<1>1. CASE Top
  <2> USE <1>1 DEF Top
  <2>1. Numbers' /\ UNCHANGED <<pointers, leaked>>
    BY DEF Numbers
  <2>2. Beliefs' /\ Kinds'
    BY DEF Beliefs, Kinds
  <2>3. Places' /\ FlagsFollow'
    BY DEF Places, FlagsFollow
  <2> QED
    BY <2>1, <2>2, <2>3, Whole
<1>2. CASE AlreadyPrepared
  <2> USE <1>2 DEF AlreadyPrepared, AfterPrepare
  <2>1. Numbers' /\ UNCHANGED <<pointers, leaked>>
    BY DEF Numbers
  <2>2. Beliefs' /\ Kinds'
    BY DEF Beliefs, Kinds
  <2>3. Places' /\ FlagsFollow'
    BY DEF Places, FlagsFollow
  <2> QED
    BY <2>1, <2>2, <2>3, Whole
<1>3. CASE PrepareOk
  <2> USE <1>3 DEF PrepareOk, AfterPrepare
  <2>1. Numbers' /\ UNCHANGED <<pointers, leaked>>
    BY DEF Numbers
  <2>2. Beliefs' /\ Kinds'
    BY DEF Beliefs, Kinds
  <2>3. Places' /\ FlagsFollow'
    BY DEF Places, FlagsFollow
  <2> QED
    BY <2>1, <2>2, <2>3, Whole
<1>4. CASE PrepareFails
  <2> USE <1>4 DEF PrepareFails
  <2>1. Numbers' /\ UNCHANGED <<pointers, leaked>>
    BY DEF Numbers
  <2>2. Beliefs' /\ Kinds'
    BY DEF Beliefs, Kinds
  <2>3. Places' /\ FlagsFollow'
    BY DEF Places, FlagsFollow
  <2> QED
    BY <2>1, <2>2, <2>3, Whole
<1> QED
  BY <1>1, <1>2, <1>3, <1>4

\* SNDRV_PCM_IOCTL_START of a prepared substream, or its refusal.
LEMMA StartStep ==
    IInv /\ (StartOk \/ StartFails) /\ UNCHANGED leaked => IInv'
<1> SUFFICES ASSUME IInv, StartOk \/ StartFails, UNCHANGED leaked
             PROVE  IInv'
  OBVIOUS
<1> Numbers /\ Beliefs /\ Kinds /\ Places /\ FlagsFollow
  BY TypeParts DEF IInv
<1> USE DEF pointers, state, kernel, Goto, Return
<1>1. CASE StartOk
  <2> USE <1>1 DEF StartOk
  <2>1. Numbers' /\ UNCHANGED <<pointers, leaked>>
    BY DEF Numbers
  <2>2. Beliefs' /\ Kinds'
    BY DEF Beliefs, Kinds
  <2>3. Places' /\ FlagsFollow'
    BY DEF Places, FlagsFollow
  <2> QED
    BY <2>1, <2>2, <2>3, Whole
<1>2. CASE StartFails
  <2> USE <1>2 DEF StartFails
  <2>1. Numbers' /\ UNCHANGED <<pointers, leaked>>
    BY DEF Numbers
  <2>2. Beliefs' /\ Kinds'
    BY DEF Beliefs, Kinds
  <2>3. Places' /\ FlagsFollow'
    BY DEF Places, FlagsFollow
  <2> QED
    BY <2>1, <2>2, <2>3, Whole
<1> QED
  BY <1>1, <1>2

\* The periods an ioctl moves.
LEMMA MoveStep ==
    IInv /\ (WritePeriod \/ ReadPeriod) /\ UNCHANGED leaked => IInv'
<1> SUFFICES ASSUME IInv, WritePeriod \/ ReadPeriod, UNCHANGED leaked
             PROVE  IInv'
  OBVIOUS
<1> Numbers /\ Beliefs /\ Kinds /\ Places /\ FlagsFollow
  BY TypeParts DEF IInv
<1> USE DEF pointers, state
<1>1. CASE WritePeriod
  <2> USE <1>1 DEF WritePeriod
  <2>1. Numbers' /\ UNCHANGED <<pointers, leaked>>
    BY DEF Numbers
  <2>2. Beliefs' /\ Kinds'
    BY DEF Beliefs, Kinds
  <2>3. Places' /\ FlagsFollow'
    BY DEF Numbers, Places, FlagsFollow
  <2> QED
    BY <2>1, <2>2, <2>3, Whole
<1>2. CASE ReadPeriod
  <2> USE <1>2 DEF ReadPeriod
  <2>1. Numbers' /\ UNCHANGED <<pointers, leaked>>
    BY DEF Numbers
  <2>2. Beliefs' /\ Kinds'
    BY DEF Beliefs, Kinds
  <2>3. Places' /\ FlagsFollow'
    BY DEF Places, FlagsFollow
  <2> QED
    BY <2>1, <2>2, <2>3, Whole
<1> QED
  BY <1>1, <1>2

\* The ends of a transfer.
LEMMA DoneStep ==
    ASSUME IInv, UNCHANGED leaked,
           InitialDone \/ InitialFails \/ TransferDone \/ TransferXrun \/ TransferFails
    PROVE  IInv'
<1> Numbers /\ Beliefs /\ Kinds /\ Places /\ FlagsFollow
  BY TypeParts DEF IInv
<1>0. Numbers' /\ Beliefs' /\ Kinds'
  BY CallTypes, StreamTypeParts DEF CallStep
<1> USE DEF pointers, state, kernel, Goto, Return
<1>1. CASE InitialDone
  <2> USE <1>1 DEF InitialDone
  <2>1. UNCHANGED <<pointers, leaked>>
    OBVIOUS
  <2>2. Places' /\ FlagsFollow'
    BY DEF Places, FlagsFollow
  <2> QED
    BY <1>0, <2>1, <2>2, Whole
<1>2. CASE InitialFails
  <2> USE <1>2 DEF InitialFails
  <2>1. UNCHANGED <<pointers, leaked>>
    OBVIOUS
  <2>2. Places' /\ FlagsFollow'
    BY DEF Places, FlagsFollow
  <2> QED
    BY <1>0, <2>1, <2>2, Whole
<1>3. CASE TransferDone
  <2> USE <1>3 DEF TransferDone
  <2>1. UNCHANGED <<pointers, leaked>>
    OBVIOUS
  <2>2. Places' /\ FlagsFollow'
    BY DEF Places, FlagsFollow
  <2> QED
    BY <1>0, <2>1, <2>2, Whole
<1>4. CASE TransferXrun
  <2> USE <1>4 DEF TransferXrun
  <2>1. UNCHANGED <<pointers, leaked>>
    OBVIOUS
  <2>2. Places' /\ FlagsFollow'
    BY DEF Places, FlagsFollow
  <2> QED
    BY <1>0, <2>1, <2>2, Whole
<1>5. CASE TransferFails
  <2> USE <1>5 DEF TransferFails
  <2>1. UNCHANGED <<pointers, leaked>>
    OBVIOUS
  <2>2. Places' /\ FlagsFollow'
    BY DEF Places, FlagsFollow
  <2> QED
    BY <1>0, <2>1, <2>2, Whole
<1> QED
  BY <1>1, <1>2, <1>3, <1>4, <1>5

\* What the kernel does by itself.
LEMMA KernelStep ==
    ASSUME IInv, UNCHANGED leaked,
           Play \/ CapturePeriod \/ Suspend \/ Disconnect \/ Interrupted
    PROVE  IInv'
<1> Numbers /\ Beliefs /\ Kinds /\ Places /\ FlagsFollow
  BY TypeParts DEF IInv
<1>1. Numbers' /\ Beliefs' /\ Kinds'
  BY KernelTypes, StreamTypeParts DEF Kernel
<1> USE DEF pointers, state, kernel, progress, Goto, Return
<1>2. CASE Play
  <2> USE <1>2 DEF Play
  <2>1. UNCHANGED <<pointers, leaked>>
    OBVIOUS
  <2>2. Places' /\ FlagsFollow'
    BY DEF Places, FlagsFollow
  <2> QED
    BY <1>1, <2>1, <2>2, Whole
<1>3. CASE CapturePeriod
  <2> USE <1>3 DEF CapturePeriod
  <2>1. UNCHANGED <<pointers, leaked>>
    OBVIOUS
  <2>2. Places' /\ FlagsFollow'
    BY DEF Places, FlagsFollow
  <2> QED
    BY <1>1, <2>1, <2>2, Whole
<1>4. CASE Suspend
  <2> USE <1>4 DEF Suspend
  <2>1. UNCHANGED <<pointers, leaked>>
    OBVIOUS
  <2>2. Places' /\ FlagsFollow'
    BY DEF Places, FlagsFollow
  <2> QED
    BY <1>1, <2>1, <2>2, Whole
<1>5. CASE Disconnect
  <2> USE <1>5 DEF Disconnect
  <2>1. UNCHANGED <<pointers, leaked>>
    OBVIOUS
  <2>2. Places' /\ FlagsFollow'
    BY DEF Places, FlagsFollow
  <2> QED
    BY <1>1, <2>1, <2>2, Whole
<1>6. CASE Interrupted
  <2> USE <1>6 DEF Interrupted
  <2>1. UNCHANGED <<pointers, leaked>>
    OBVIOUS
  <2>2. CASE left < asked
    <3>1. Places' /\ FlagsFollow'
      BY <2>2 DEF Places, FlagsFollow
    <3> QED
      BY <1>1, <2>1, <3>1, Whole
  <2>3. CASE ~(left < asked)
    <3>1. left = asked /\ ~running' /\ place' = "idle" /\ UNCHANGED substream
      BY <2>3 DEF Numbers
    <3>2. prepared' => place = "initial" /\ prepared
      <4>1. prepared' = (prepared /\ place = "initial")
        BY <2>3
      <4> QED
        BY <4>1, Zenon
    <3>3. Places' /\ FlagsFollow'
      BY <3>1, <3>2 DEF Places, FlagsFollow
    <3> QED
      BY <1>1, <2>1, <3>3, Whole
  <2> QED
    BY <2>2, <2>3
<1> QED
  BY <1>2, <1>3, <1>4, <1>5, <1>6

\* The calls of the client that begin or are refused, and pcm_stop.
LEMMA BeginStep ==
    ASSUME IInv,
           pcm_prepare \/ pcm_start \/ pcm_stop
           \/ \E n \in 1..(Periods + 1) : pcm_write(n) \/ pcm_read(n),
           UNCHANGED leaked
    PROVE  IInv'
<1> Numbers /\ Beliefs /\ Kinds /\ Places /\ FlagsFollow
  BY TypeParts DEF IInv
<1> USE DEF pointers, state, kernel, Begin
<1>1. CASE pcm_prepare
  <2> USE <1>1 DEF pcm_prepare
  <2>1. Numbers' /\ UNCHANGED <<pointers, leaked>>
    BY DEF Numbers
  <2>2. Beliefs' /\ Kinds'
    BY DEF Beliefs, Kinds
  <2>3. Places' /\ FlagsFollow'
    BY DEF Places, FlagsFollow
  <2> QED
    BY <2>1, <2>2, <2>3, Whole
<1>2. CASE pcm_start
  <2> USE <1>2 DEF pcm_start
  <2>1. Numbers' /\ UNCHANGED <<pointers, leaked>>
    BY DEF Numbers
  <2>2. Beliefs' /\ Kinds'
    BY DEF Beliefs, Kinds
  <2>3. Places' /\ FlagsFollow'
    BY DEF Places, FlagsFollow
  <2> QED
    BY <2>1, <2>2, <2>3, Whole
<1>3. CASE pcm_stop
  <2> USE <1>3 DEF pcm_stop
  <2>1. Numbers' /\ UNCHANGED <<pointers, leaked>>
    BY DEF Numbers
  <2>2. Beliefs' /\ Kinds'
    BY DEF Beliefs, Kinds
  <2>3. Places' /\ FlagsFollow'
    BY DEF Places, FlagsFollow
  <2> QED
    BY <2>1, <2>2, <2>3, Whole
<1>4. ASSUME NEW n \in 1..(Periods + 1), pcm_write(n) PROVE IInv'
  <2> USE <1>4 DEF pcm_write
  <2>1. Numbers' /\ UNCHANGED <<pointers, leaked>>
    BY Constants DEF Numbers
  <2>2. Beliefs' /\ Kinds'
    BY DEF Beliefs, Kinds
  <2>3. Places' /\ FlagsFollow'
    BY DEF Places, FlagsFollow
  <2> QED
    BY <2>1, <2>2, <2>3, Whole
<1>5. ASSUME NEW n \in 1..(Periods + 1), pcm_read(n) PROVE IInv'
  <2> USE <1>5 DEF pcm_read
  <2>1. Numbers' /\ UNCHANGED <<pointers, leaked>>
    BY Constants DEF Numbers
  <2>2. Beliefs' /\ Kinds'
    BY DEF Beliefs, Kinds
  <2>3. Places' /\ FlagsFollow'
    BY DEF Places, FlagsFollow
  <2> QED
    BY <2>1, <2>2, <2>3, Whole
<1> QED
  BY <1>1, <1>2, <1>3, <1>4, <1>5

\* The process that follows one that died is like the first.
LEMMA DeathStep == ProcessDeath => IInv'
<1> SUFFICES ASSUME StreamLost, leaked' = 0 PROVE IInv'
  BY DEF ProcessDeath
<1>1. TypeOK'
  BY LostTypes, MaxLeakedAssumption DEF TypeOK
<1>2. Accounted' /\ Handles'
  BY DEF StreamLost, Accounted, Handles
<1>3. Places' /\ FlagsFollow'
  BY DEF StreamLost, Places, FlagsFollow
<1> QED
  BY <1>1, <1>2, <1>3 DEF IInv

-----------------------------------------------------------------------------
(* The theorems. *)

\* Every state satisfies the invariant.
LEMMA Invariance == Spec => []IInv
<1>1. IInv /\ [Next]_vars => IInv'
  <2> SUFFICES ASSUME IInv, [Next]_vars PROVE IInv'
    OBVIOUS
  <2>1. CASE Client /\ UNCHANGED leaked
    BY <2>1, OpenStep, CloseStep, BeginStep DEF Client
  <2>2. CASE CallStep /\ UNCHANGED leaked
    BY <2>2, PrepareStep, StartStep, MoveStep, DoneStep DEF CallStep
  <2>3. CASE Kernel /\ UNCHANGED leaked
    BY <2>3, KernelStep DEF Kernel
  <2>4. CASE Leak \/ ProcessDeath
    BY <2>4, LeakStep, DeathStep
  <2>5. CASE UNCHANGED vars
    <3> USE <2>5 DEF vars, stream, pointers, state, kernel, progress, IInv
    <3>1. Numbers' /\ Beliefs' /\ Kinds' /\ UNCHANGED <<pointers, leaked>>
      BY TypeParts DEF Numbers, Beliefs, Kinds
    <3>2. Places' /\ FlagsFollow'
      BY DEF Places, FlagsFollow
    <3> QED
      BY <3>1, <3>2, Whole
  <2> QED
    BY <2>1, <2>2, <2>3, <2>4, <2>5 DEF Next
<1> QED
  BY <1>1, InitIInv, PTL DEF Spec

\* Every state of the stream is well typed; no count goes below zero.
THEOREM TypeCorrect == Spec => []TypeOK
<1>1. IInv => TypeOK
  BY DEF IInv
<1> QED
  BY <1>1, Invariance, PTL

\* What pcm_open took is accounted for in the handle (pcm_open, pcm_close).
THEOREM AllAccounted == Spec => []Accounted
<1>1. IInv => Accounted
  BY DEF IInv
<1> QED
  BY <1>1, Invariance, PTL

\* prepared and running follow a substream that stops by itself (pcm_write, pcm_read,
\* pcm_stop).
THEOREM FlagsAreRight == Spec => []FlagsFollow
<1>1. IInv => FlagsFollow
  BY DEF IInv
<1> QED
  BY <1>1, Invariance, PTL

\* A write with PCM_NORESTART does not prepare the substream again (pcm_write).
THEOREM NeverRestarts == Spec => NoRestart
<1> DEFINE Forward == ("PCM_NORESTART" \in flags /\ call = "write"
                          /\ place \in {"initial", "transfer"})
                      => place' \in {"initial", "transfer", "idle"}
<1>1. [Next]_vars => [Forward]_vars
  <2> SUFFICES ASSUME Next, "PCM_NORESTART" \in flags, call = "write",
                      place \in {"initial", "transfer"}
               PROVE  place' \in {"initial", "transfer", "idle"}
    OBVIOUS
  <2>1. ~Client /\ ~Leak
    <3>1. ~(\E f \in SUBSET Flags : pcm_open(f)) /\ ~pcm_close /\ ~Leak
      BY DEF pcm_open, OpenNoMemory, OpenFails, OpenFailsLate, OpenOk, NewHandle, pcm_close,
             Leak, OpenNoConfig, BadHandle
    <3>2. ~pcm_prepare /\ ~pcm_start /\ ~pcm_stop
      BY DEF pcm_prepare, pcm_start, pcm_stop, Begin
    <3>3. \A n \in 1..(Periods + 1) : ~pcm_write(n) /\ ~pcm_read(n)
      BY DEF pcm_write, pcm_read, Begin
    <3> QED
      BY <3>1, <3>2, <3>3 DEF Client
  <2>2. CASE CallStep
    BY <2>2
    DEF CallStep, Top, AlreadyPrepared, AfterPrepare, PrepareOk, PrepareFails, StartOk,
        StartFails, WritePeriod, ReadPeriod, InitialDone, InitialFails, TransferDone,
        TransferXrun, TransferFails, Goto, Return
  <2>3. CASE Kernel
    BY <2>3 DEF Kernel, Play, CapturePeriod, Suspend, Disconnect, Interrupted, Goto, Return,
                progress
  <2>4. CASE ProcessDeath
    BY <2>4 DEF ProcessDeath, StreamLost
  <2> QED
    BY <2>1, <2>2, <2>3, <2>4 DEF Next
<1> QED
  BY <1>1, PTL DEF Spec, NoRestart

\* What a call has left to do gets less with each of its steps, unless an underrun makes it
\* start over (pcm_write, pcm_read, pcm_prepare, pcm_start).
THEOREM CallsComeToAnEnd == Spec => OnlyRestartsDelay
<1>1. ASSUME TypeOK, TypeOK', Next, place # "idle", ~Restarts
      PROVE  /\ StepsLeft' <= StepsLeft
             /\ CallStep \/ Interrupted => StepsLeft' < StepsLeft
  <2>1. StreamTypeOK /\ StreamTypeOK'
    BY <1>1 DEF TypeOK
  <2>2. StepsLeft \in Nat /\ StepsLeft > 0 /\ StepsLeft' \in Nat
    BY <1>1, <2>1, StepsLeftTypes
  <2>3. ~Client /\ ~Leak
    BY <1>1
    DEF Leak, OpenNoConfig, BadHandle, Client, pcm_open, OpenNoMemory, OpenFails, OpenFailsLate,
        OpenOk, NewHandle, pcm_close, pcm_prepare, pcm_start, pcm_stop, pcm_write, pcm_read, Begin
  <2>4. CASE CallStep \/ Interrupted
    BY <1>1, <2>1, <2>2, <2>4, StepsGetLess
  <2>5. CASE Play \/ CapturePeriod \/ Suspend \/ Disconnect
    BY <2>2, <2>4, <2>5, StepsStay
  <2>6. CASE ProcessDeath
    <3>1. StepsLeft' = 0
      BY <2>1, <2>6, StepsLeftTypes DEF ProcessDeath, StreamLost
    <3> QED
      BY <2>2, <3>1
  <2> QED
    BY <1>1, <2>3, <2>4, <2>5, <2>6 DEF Next, Kernel
<1>2. TypeOK /\ TypeOK' /\ [Next]_vars =>
          [place # "idle" /\ ~Restarts =>
               /\ StepsLeft' <= StepsLeft
               /\ CallStep \/ Interrupted => StepsLeft' < StepsLeft]_vars
  BY <1>1
<1> QED
  BY <1>2, TypeCorrect, PTL DEF Spec, OnlyRestartsDelay
=============================================================================
