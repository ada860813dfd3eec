-------------------------- MODULE ResultFileProofs --------------------------
(***************************************************************************)
(* Theorems about ResultFile, for every number of checks: the file holds   *)
(* no report but the last one, none that the server took is sent again     *)
(* unless the process died in between or the answer kept the file, and the *)
(* application implements ReportDelivery.                                  *)
(*                                                                         *)
(* None of it is inductive.  The first depends on the dialog of a check    *)
(* being up only after the file was removed; the others on what the server *)
(* took carrying the numbers of checks already made, so that a new report  *)
(* is not among it, and on what waits for its answer.                      *)
(***************************************************************************)
EXTENDS ResultFile, TLAPS

\* The dialog of a check is up in front of an empty file.
Emptied == asked => file = {}

\* A report that waits for its answer is the only one the server may have and the file too.
Waiting ==
    /\ taken => upload = "answer" /\ file \subseteq server
    /\ ~taken => file \cap server \subseteq doubtful

\* The server has no report of a check that was not made.
Numbered == \A r \in server : r.check <= checks

IInv == TypeOK /\ OnlyLatest /\ Emptied /\ Waiting /\ Numbered

-----------------------------------------------------------------------------

\* The application as it is installed satisfies the invariant.
LEMMA InitIInv == Init => IInv
<1> SUFFICES ASSUME Init PROVE IInv
  OBVIOUS
<1>1. TypeOK
  <2>1. checks \in 0..MaxChecks
    BY MaxChecksAssumption DEF Init
  <2>2. asked \in BOOLEAN /\ network \in BOOLEAN /\ taken \in BOOLEAN
    BY DEF Init
  <2>3. file \subseteq Reports /\ server \subseteq Reports /\ doubtful \subseteq Reports
    BY DEF Init
  <2> QED
    BY <2>1, <2>2, <2>3 DEF Init, TypeOK
<1>2. OnlyLatest /\ Emptied /\ Waiting /\ Numbered
  BY DEF Init, OnlyLatest, Emptied, Waiting, Numbered
<1> QED
  BY <1>1, <1>2 DEF IInv

\* A report goes into an empty file, under a number the server has not seen.
LEMMA ReportStep == IInv /\ Report => IInv'
<1> SUFFICES ASSUME IInv, Report PROVE IInv'
  OBVIOUS
<1> USE MaxChecksAssumption DEF IInv, Report
<1>1. file = {} /\ upload = "idle" /\ ~taken
  BY DEF Emptied, TypeOK, Waiting
<1>2. \A r \in file' : r \in Reports /\ r.check = checks'
  BY <1>1 DEF TypeOK, Reports
<1>3. file' \cap server = {}
  BY <1>2 DEF TypeOK, Numbered
<1>4. TypeOK'
  <2>1. file' \subseteq Reports /\ checks' \in 0..MaxChecks
    BY <1>2 DEF TypeOK
  <2> QED
    BY <2>1 DEF TypeOK
<1>5. OnlyLatest' /\ Emptied'
  BY <1>2 DEF OnlyLatest, Emptied
<1>6. Waiting'
  BY <1>1, <1>3 DEF Waiting
<1>7. Numbered'
  BY DEF Numbered, TypeOK, Reports
<1> QED
  BY <1>4, <1>5, <1>6, <1>7

\* Sending, and what comes of it: the file is removed, or the server has not taken it, or
\* that is in doubt.
LEMMA UploadStep == IInv /\ (UpLoadResult \/ Send \/ SendError \/ Answer) => IInv'
<1> SUFFICES ASSUME IInv, UpLoadResult \/ Send \/ SendError \/ Answer PROVE IInv'
  OBVIOUS
<1> USE DEF IInv
<1>1. CASE UpLoadResult
  BY <1>1 DEF UpLoadResult, Connected, TypeOK, OnlyLatest, Emptied, Waiting, Numbered
<1>2. CASE Send
  <2> USE <1>2 DEF Send, Connected
  <2>1. TypeOK'
    BY DEF TypeOK
  <2>2. OnlyLatest' /\ Emptied'
    BY DEF OnlyLatest, Emptied
  <2>3. ~taken
    BY DEF Waiting
  <2>4. Waiting'
    BY <2>3 DEF Waiting, TypeOK
  <2>5. Numbered'
    BY DEF Numbered, OnlyLatest, TypeOK, Reports
  <2> QED
    BY <2>1, <2>2, <2>4, <2>5
<1>3. CASE SendError
  BY <1>3 DEF SendError, TypeOK, OnlyLatest, Emptied, Waiting, Numbered
<1>4. CASE Answer
  BY <1>4 DEF Answer, TypeOK, OnlyLatest, Emptied, Waiting, Numbered
<1> QED
  BY <1>1, <1>2, <1>3, <1>4

\* The activities, the network and the process.
LEMMA ActivityStep ==
    IInv /\ (NetworkChange \/ ProcessDeath \/ BackToMain
             \/ \E next \in {"check", "other"} : LeaveMain(next)) => IInv'
<1> SUFFICES ASSUME IInv,
                    NetworkChange \/ ProcessDeath \/ BackToMain
                    \/ \E next \in {"check", "other"} : LeaveMain(next)
             PROVE  IInv'
  OBVIOUS
<1> USE DEF IInv, TypeOK, OnlyLatest, Emptied, Waiting, Numbered
<1>1. CASE NetworkChange
  BY <1>1 DEF NetworkChange
<1>2. CASE ProcessDeath
  BY <1>2 DEF ProcessDeath
<1>3. CASE BackToMain
  BY <1>3 DEF BackToMain
<1>4. ASSUME NEW next \in {"check", "other"}, LeaveMain(next) PROVE IInv'
  BY <1>4 DEF LeaveMain, removeResultFile
<1> QED
  BY <1>1, <1>2, <1>3, <1>4

\* Every state satisfies the invariant.
LEMMA Invariance == Spec => []IInv
<1>1. IInv /\ [Next]_vars => IInv'
  <2> SUFFICES ASSUME IInv, [Next]_vars PROVE IInv'
    OBVIOUS
  <2>1. CASE Next
    BY <2>1, ReportStep, UploadStep, ActivityStep DEF Next
  <2>2. CASE UNCHANGED vars
    BY <2>2 DEF vars, IInv, TypeOK, OnlyLatest, Emptied, Waiting, Numbered
  <2> QED
    BY <2>1, <2>2
<1> QED
  BY <1>1, InitIInv, PTL DEF Spec

\* Every variable has its type.
THEOREM TypeCorrect == Spec => []TypeOK
<1>1. IInv => TypeOK
  BY DEF IInv
<1> QED
  BY <1>1, Invariance, PTL

\* The file never holds a report of any check but the last (Report, LeaveMain).
THEOREM LatestOnly == Spec => []OnlyLatest
<1>1. IInv => OnlyLatest
  BY DEF IInv
<1> QED
  BY <1>1, Invariance, PTL

\* What the server took is not sent again, unless the process died before the answer or
\* the answer was not SC_OK (Send, SendError, Answer).
THEOREM SentOnce == Spec => []TakenOnce
<1>1. IInv => TakenOnce
  BY DEF IInv, Waiting, TakenOnce
<1> QED
  BY <1>1, Invariance, PTL

-----------------------------------------------------------------------------
(* The delivery of reports. *)

\* The application as it is installed has no report on its way.
LEMMA InitDelivery == Init => Delivery!Init
BY DEF Init, Delivery!Init

\* Every step of the application is one of a report on its way, or none.
LEMMA StepDelivery == IInv /\ [Next]_vars => [Delivery!Next]_Delivery!vars
<1> SUFFICES ASSUME IInv, [Next]_vars PROVE [Delivery!Next]_Delivery!vars
  OBVIOUS
<1> USE DEF IInv
<1>1. CASE NetworkChange \/ BackToMain \/ UpLoadResult
  <2>1. UNCHANGED <<checks, file, taken, server, doubtful>>
    BY <1>1 DEF NetworkChange, BackToMain, UpLoadResult
  <2> QED
    BY <2>1 DEF Delivery!vars
<1>2. CASE \E next \in {"check", "other"} : LeaveMain(next)
  BY <1>2 DEF LeaveMain, removeResultFile, Waiting, Delivery!Next, Delivery!Lose
<1>3. CASE Report
  <2>1. file = {} /\ ~taken /\ taken' = taken
    BY <1>3 DEF Report, Emptied, Waiting, TypeOK
  <2>2. Delivery!Make
    BY <1>3, <2>1 DEF Report, Delivery!Make
  <2> QED
    BY <2>2 DEF Delivery!Next
<1>4. CASE ProcessDeath
  <2>1. CASE taken
    <3>1. Delivery!Return
      BY <1>4, <2>1 DEF ProcessDeath, Waiting, Delivery!Return
    <3> QED
      BY <3>1 DEF Delivery!Next
  <2>2. CASE ~taken
    BY <1>4, <2>2 DEF ProcessDeath, Delivery!vars
  <2> QED
    BY <2>1, <2>2
<1>5. CASE Send
  <2>1. ~taken /\ file # {}
    BY <1>5 DEF Send, Waiting
  <2>2. CASE taken'
    <3>1. Delivery!Deliver
      BY <1>5, <2>1, <2>2 DEF Send, Waiting, OnlyLatest, Delivery!Deliver
    <3> QED
      BY <3>1 DEF Delivery!Next
  <2>3. CASE ~taken'
    BY <1>5, <2>1, <2>3 DEF Send, Delivery!vars
  <2> QED
    BY <2>2, <2>3
<1>6. CASE SendError
  BY <1>6 DEF SendError, Delivery!Next, Delivery!Lose
<1>7. CASE Answer
  <2>1. ~taken' /\ UNCHANGED <<checks, server>>
    BY <1>7 DEF Answer
  <2>2. CASE file' = {} /\ UNCHANGED doubtful
    <3>1. Delivery!Lose
      BY <2>1, <2>2 DEF Delivery!Lose
    <3> QED
      BY <3>1 DEF Delivery!Next
  <2>3. CASE taken /\ doubtful' = doubtful \cup file /\ UNCHANGED file
    <3>1. Delivery!Return
      BY <2>1, <2>3 DEF Waiting, Delivery!Return
    <3> QED
      BY <3>1 DEF Delivery!Next
  <2>4. CASE ~taken /\ UNCHANGED <<doubtful, file>>
    BY <2>1, <2>4 DEF Delivery!vars
  <2> QED
    BY <1>7, <2>2, <2>3, <2>4 DEF Answer
<1>8. CASE UNCHANGED vars
  BY <1>8 DEF vars, Delivery!vars
<1> QED
  BY <1>1, <1>2, <1>3, <1>4, <1>5, <1>6, <1>7, <1>8 DEF Next

\* The application implements ReportDelivery: reports are delivered in the order of their
\* checks, one at a time and once, unless a crash or an answer other than SC_OK leaves
\* their delivery in doubt (Report, Send, SendError, Answer, LeaveMain).
THEOREM Implementation == Spec => ImplementsDelivery
BY InitDelivery, StepDelivery, Invariance, PTL DEF Spec, ImplementsDelivery, Delivery!Spec
=============================================================================
