-------------------------- MODULE DeviceScanProofs --------------------------
(***************************************************************************)
(* Theorems about DeviceScan, for any nodes and any number of changes: the *)
(* names the handler reads again are still there, the one shown was        *)
(* checked, no device is said to be missing that the thread had found, the *)
(* check of a camera leaves nothing behind, and it is made on another      *)
(* camera exactly when one of two kinds is asked for.                      *)
(*                                                                         *)
(* The invariant says of the thread of a kind that its name is a target,   *)
(* and that without a name the targets that count are those it has yet to  *)
(* go through; and of the library, step by step, what it holds.  That the  *)
(* targets are never taken back connects the name checked to the one       *)
(* shown.                                                                  *)
(***************************************************************************)
EXTENDS DeviceScan, FiniteSetTheorems, FunctionTheorems, TLAPS

Domains ==
    /\ DOMAIN present = Kinds /\ DOMAIN last = Kinds /\ DOMAIN cur = Kinds
    /\ DOMAIN target = Kinds /\ DOMAIN todo = Kinds /\ DOMAIN name = Kinds
    /\ DOMAIN doScan = Kinds /\ DOMAIN scan = Kinds /\ DOMAIN tried = Kinds
    /\ DOMAIN shown = Kinds /\ DOMAIN result = Kinds

ListTypes(k) ==
    /\ last[k] \subseteq Nodes(k) /\ cur[k] \subseteq Nodes(k)
    /\ target[k] \subseteq Nodes(k) /\ todo[k] \subseteq target[k]
    /\ name[k] \in Nodes(k) \cup {None}
    /\ doScan[k] \in BOOLEAN
    /\ scan[k] \in {"path", "test", "list", "compare", "pick", "exited"}

AnswerTypes(k) ==
    /\ tried[k] \in Nodes(k) \cup {None}
    /\ shown[k] \in Nodes(k) \cup {None}
    /\ result[k] \in {"none", "notFound", "checked"}

\* The name is a target, and without one no target that counts has been passed over.
Found(k) ==
    /\ name[k] \in target[k] \cup {None}
    /\ name[k] = None => Usable(k) \subseteq (IF scan[k] = "pick" THEN todo[k] ELSE {})

\* The handler works on targets only.
Asked(k) == tried[k] \in target[k] \cup {None} /\ shown[k] \in target[k] \cup {None}

\* Where the handler is, it has names.
UiTypes == ui \in {"shown", "findPcm", "checkPcm", "findVideo", "checkVideo", "openVideo",
                   "initVideo", "uninitVideo", "closeVideo", "nameVideo", "done"}

Tried ==
    /\ ui \in {"openVideo", "initVideo", "uninitVideo", "closeVideo", "nameVideo"}
          => tried["video"] # None
    /\ shown["video"] # None => tried["video"] # None

\* What the library holds at each step of the check.
Opening == {"initVideo", "uninitVideo", "closeVideo"}

Holds ==
    /\ queued = 0 /\ n_buffers \in 0..MaxBuffers
    /\ fault \in Camera!Fault
    /\ planes = [p \in {"rgb", "ybuf"} |-> "null"]
    /\ ui \in Opening => fd \in {"open", "stale"} /\ openFds = 1
    /\ ui \notin Opening => fd = "none" /\ openFds = 0
    /\ ui # "uninitVideo" => mapped = 0 /\ blocks = 0 /\ buffers \in {"null", "freed"}
    /\ ui \notin {"uninitVideo", "closeVideo", "nameVideo", "done"} =>
          buffers = "null" /\ n_buffers = 0
    /\ ui = "uninitVideo" =>
          \/ buffers = "live" /\ mapped = n_buffers /\ blocks = 1
          \/ buffers = "null" /\ n_buffers = 0 /\ mapped = 0 /\ blocks = 0

Environment == changes \in 0..MaxChanges /\ \A k \in Kinds : present[k] \subseteq Nodes(k)

IInv ==
    /\ Domains /\ Environment
    /\ \A k \in Kinds : ListTypes(k) /\ AnswerTypes(k) /\ Found(k) /\ Asked(k)
    /\ UiTypes /\ ReadsAgain /\ Tried
    /\ Holds

-----------------------------------------------------------------------------

\* None is no node.
LEMMA NoneIsNoNode == \A k \in Kinds : None \notin Nodes(k)
BY NodesAssumption DEF Kinds, Nodes

\* The invariant has the types in it.
LEMMA TypesFollow == IInv => TypeOK
<1> SUFFICES ASSUME IInv PROVE TypeOK
  OBVIOUS
<1> USE DEF IInv
<1>1. Camera!DeviceTypeOK
  <2>1. openFds \in {0, 1} /\ blocks \in {0, 1} /\ mapped \in Nat
    BY DEF Holds
  <2>2. queued \in 0..MaxBuffers /\ fd \in {"none", "open", "stale"}
    BY BuffersAssumption DEF Holds
  <2>3. buffers \in Camera!Pointer /\ planes \in [{"rgb", "ybuf"} -> Camera!Pointer]
    BY DEF Holds, Camera!Pointer
  <2> QED
    BY <2>1, <2>2, <2>3 DEF Camera!DeviceTypeOK, Holds, CameraPresent
<1> QED
  BY <1>1 DEF TypeOK, Environment, ListTypes, AnswerTypes, UiTypes

-----------------------------------------------------------------------------
(* Every step. *)

\* A new process has found nothing and holds nothing.
LEMMA NewProcess ==
    (Created /\ Camera!Loaded /\ DOMAIN present = Kinds /\ Environment) => IInv
<1> SUFFICES ASSUME Created, Camera!Loaded, DOMAIN present = Kinds, Environment PROVE IInv
  OBVIOUS
<1>1. Domains /\ UiTypes /\ ReadsAgain /\ Tried
  BY DEF Created, Domains, UiTypes, ReadsAgain, Tried, Checking, Kinds
<1>2. ASSUME NEW k \in Kinds PROVE ListTypes(k) /\ AnswerTypes(k) /\ Found(k) /\ Asked(k)
  BY DEF Created, ListTypes, AnswerTypes, Found, Asked, Usable
<1>3. Holds
  BY BuffersAssumption DEF Created, Camera!Loaded, Holds, Opening, Camera!Fault
<1> QED
  BY <1>1, <1>2, <1>3 DEF IInv

LEMMA InitIInv == Init => IInv
<1> SUFFICES ASSUME Init PROVE IInv
  OBVIOUS
<1>1. Environment /\ DOMAIN present = Kinds
  BY NodesAssumption DEF Init, Environment
<1> QED
  BY <1>1, NewProcess DEF Init

\* The steps of a thread are its kind's own, and leave the handler alone.
LEMMA ScannerStep == ASSUME IInv, NEW k \in Kinds, Scanner(k) PROVE IInv'
<1> USE DEF IInv, ScanGoto
<1>1. UNCHANGED <<environment, ui, checks>> /\ Domains'
  BY DEF Scanner, CheckDevicePath, TestScan, ListNodes, TakeBaseline, SameSize, OtherSize,
         PickTarget, PickedAll, Domains, environment, lists, checks, answers
<1>2. \A j \in Kinds \ {k} : /\ UNCHANGED <<last[j], cur[j], target[j], todo[j], name[j],
                                            scan[j]>>
                             /\ doScan'[j] \in BOOLEAN
  BY DEF Scanner, CheckDevicePath, TestScan, ListNodes, TakeBaseline, SameSize, OtherSize,
         PickTarget, PickedAll, Domains, ListTypes, lists
<1>3. /\ ListTypes(k)' /\ Found(k)'
      /\ target[k] \subseteq target'[k] /\ (name[k] # None => name'[k] # None)
  <2> USE NoneIsNoNode DEF Domains, Environment, ListTypes, Found, Usable, lists
  <2>1. CASE CheckDevicePath(k)
    BY <2>1 DEF CheckDevicePath
  <2>2. CASE TestScan(k)
    BY <2>2 DEF TestScan
  <2>3. CASE ListNodes(k)
    BY <2>3 DEF ListNodes
  <2>4. CASE TakeBaseline(k)
    BY <2>4 DEF TakeBaseline
  <2>5. CASE SameSize(k)
    BY <2>5 DEF SameSize
  <2>6. CASE OtherSize(k)
    <3>1. /\ last'[k] \subseteq last[k] /\ cur'[k] \subseteq cur[k]
          /\ target[k] \subseteq target'[k] /\ target'[k] \subseteq Nodes(k)
      BY <2>6 DEF OtherSize
    <3>2. todo'[k] = target'[k] /\ scan'[k] = "pick" /\ UNCHANGED <<name, doScan>>
      BY <2>6 DEF OtherSize
    <3> QED
      BY <3>1, <3>2
  <2>7. CASE PickTarget(k)
    BY <2>7 DEF PickTarget
  <2>8. CASE PickedAll(k)
    BY <2>8 DEF PickedAll
  <2> QED
    BY <2>1, <2>2, <2>3, <2>4, <2>5, <2>6, <2>7, <2>8 DEF Scanner
<1>4. Environment'
  BY <1>1 DEF Environment, environment
<1>5. ASSUME NEW j \in Kinds
      PROVE  ListTypes(j)' /\ AnswerTypes(j)' /\ Found(j)' /\ Asked(j)'
  <2>1. AnswerTypes(j)'
    BY <1>1 DEF AnswerTypes, checks, answers
  <2>2. target[j] \subseteq target'[j]
    BY <1>2, <1>3
  <2>3. ListTypes(j)' /\ Found(j)'
    BY <1>2, <1>3 DEF ListTypes, Found, Usable
  <2> QED
    BY <1>1, <2>1, <2>2, <2>3 DEF Asked, checks, answers
<1>6. UiTypes' /\ ReadsAgain' /\ Tried'
  BY <1>1, <1>2, <1>3 DEF UiTypes, ReadsAgain, Tried, checks, answers, Kinds
<1>7. Holds'
  BY <1>1 DEF Holds, checks, camera, Camera!Fault
<1> QED
  BY <1>1, <1>4, <1>5, <1>6, <1>7

\* A node comes or goes, maybe the camera at which the library is at work.
LEMMA ChangeStep == ASSUME IInv, NEW k \in Kinds, NEW n \in Nodes(k), Change(k, n) PROVE IInv'
<1> USE DEF IInv, Change
<1>1. UNCHANGED <<scanner, doScan, ui, answers>>
  OBVIOUS
<1>2. Domains' /\ Environment'
  BY <1>1, NodesAssumption
     DEF Domains, Environment, Kinds, Nodes, scanner, lists, answers
<1>3. ASSUME NEW j \in Kinds
      PROVE  ListTypes(j)' /\ AnswerTypes(j)' /\ Found(j)' /\ Asked(j)'
  BY <1>1 DEF ListTypes, AnswerTypes, Found, Asked, Usable, scanner, lists, answers
<1>4. UiTypes' /\ ReadsAgain' /\ Tried'
  BY <1>1 DEF UiTypes, ReadsAgain, Tried, scanner, answers
<1>5. Holds'
  <2>1. /\ UNCHANGED <<buffers, n_buffers, planes, openFds, mapped, blocks, queued, fault>>
        /\ fd' = fd \/ (fd = "open" /\ fd' = "stale")
    <3>1. CASE Camera!Unplug
      BY <3>1 DEF Camera!Unplug, Camera!held
    <3>2. CASE Camera!Plug
      BY <3>2 DEF Camera!Plug, Camera!globals, Camera!held
    <3>3. CASE UNCHANGED camera
      BY <3>3 DEF camera
    <3> QED
      BY <3>1, <3>2, <3>3
  <2> QED
    BY <1>1, <2>1 DEF Holds, Camera!Fault
<1> QED
  BY <1>2, <1>3, <1>4, <1>5

\* The handler's steps in Java.
LEMMA HandlerStep ==
    IInv /\ (Confirm \/ FindPcm \/ CheckPcm \/ FindVideo \/ CheckVideo \/ NameVideo) => IInv'
<1> SUFFICES ASSUME IInv,
                    Confirm \/ FindPcm \/ CheckPcm \/ FindVideo \/ CheckVideo \/ NameVideo
             PROVE  IInv'
  OBVIOUS
<1> USE DEF IInv, Goto
<1>1. UNCHANGED <<environment, scanner, camera>>
  BY DEF Confirm, FindPcm, CheckPcm, FindVideo, CheckVideo, NameVideo, Find, checks
<1>2. Domains'
  BY <1>1 DEF Domains, environment, scanner, lists, Confirm, FindPcm, CheckPcm, FindVideo,
              CheckVideo, NameVideo, Find, checks, answers
<1>3. Environment'
  BY <1>1 DEF Environment, environment
<1>4. ASSUME NEW k \in Kinds
      PROVE  ListTypes(k)' /\ AnswerTypes(k)' /\ Found(k)' /\ Asked(k)'
  <2>1. doScan'[k] \in BOOLEAN
    BY DEF Confirm, FindPcm, CheckPcm, FindVideo, CheckVideo, NameVideo, Find, ListTypes
  <2>2. ListTypes(k)' /\ Found(k)'
    BY <1>1, <2>1 DEF ListTypes, Found, Usable, scanner, lists
  <2>3. tried'[k] \in {tried[k], name[k]} /\ shown'[k] \in {shown[k], name[k]}
    BY DEF Domains, Confirm, FindPcm, CheckPcm, FindVideo, CheckVideo, NameVideo, Find,
           checks, answers
  <2>4. result'[k] \in {result[k], "notFound", "checked"}
    BY DEF Domains, Confirm, FindPcm, CheckPcm, FindVideo, CheckVideo, NameVideo, Find,
           checks, answers
  <2>5. AnswerTypes(k)' /\ Asked(k)'
    BY <1>1, <2>3, <2>4 DEF AnswerTypes, Asked, Found, ListTypes, scanner, lists
  <2> QED
    BY <2>2, <2>5
<1>5. UiTypes'
  BY DEF UiTypes, Confirm, FindPcm, CheckPcm, FindVideo, CheckVideo, NameVideo, Find
<1>6. ReadsAgain' /\ Tried'
  <2> USE <1>1 DEF ReadsAgain, Tried, Checking, scanner, lists, Domains, Kinds
  <2>1. CASE Confirm
    BY <2>1 DEF Confirm, checks, answers
  <2>2. CASE FindPcm \/ FindVideo
    BY <2>2 DEF FindPcm, FindVideo, Find
  <2>3. CASE CheckPcm
    BY <2>3 DEF CheckPcm
  <2>4. CASE CheckVideo
    BY <2>4 DEF CheckVideo
  <2>5. CASE NameVideo
    BY <2>5 DEF NameVideo
  <2> QED
    BY <2>1, <2>2, <2>3, <2>4, <2>5
<1>7. Holds'
  BY <1>1 DEF Holds, Opening, camera, Camera!Fault, Confirm, FindPcm, CheckPcm, FindVideo,
              CheckVideo, NameVideo, Find
<1> QED
  BY <1>2, <1>3, <1>4, <1>5, <1>6, <1>7

\* The handler's steps in the library, which move nothing but the handler and the camera.
LEMMA LibraryStep ==
    IInv /\ (OpenVideo \/ InitVideo \/ UninitVideo \/ CloseVideo) => IInv'
<1> SUFFICES ASSUME IInv, OpenVideo \/ InitVideo \/ UninitVideo \/ CloseVideo PROVE IInv'
  OBVIOUS
<1> USE DEF IInv, Goto, Library
<1>1. UNCHANGED <<environment, scanner, doScan, answers>>
  BY DEF OpenVideo, InitVideo, UninitVideo, CloseVideo
<1>2. Domains' /\ Environment'
  BY <1>1 DEF Domains, Environment, environment, scanner, lists, answers
<1>3. ASSUME NEW k \in Kinds
      PROVE  ListTypes(k)' /\ AnswerTypes(k)' /\ Found(k)' /\ Asked(k)'
  BY <1>1 DEF ListTypes, AnswerTypes, Found, Asked, Usable, scanner, lists, answers
<1>4. UiTypes' /\ ReadsAgain' /\ Tried'
  BY <1>1 DEF UiTypes, ReadsAgain, Tried, Checking, scanner, answers, OpenVideo, InitVideo,
              UninitVideo, CloseVideo
<1>5. Holds'
  <2> USE DEF Holds, Opening, Camera!Fault, Camera!globals, Camera!held, Camera!device
  <2>1. CASE OpenVideo
    BY <2>1 DEF OpenVideo, Camera!OpenDeviceOk, Camera!OpenDeviceFails
  <2>2. CASE InitVideo
    <3>1. CASE Camera!InitDeviceOk
      BY <2>2, <3>1, BuffersAssumption
         DEF InitVideo, Camera!InitDeviceOk, Camera!InitMmapOk
    <3>2. CASE Camera!InitDeviceFails
      BY <2>2, <3>2, BuffersAssumption
         DEF InitVideo, Camera!InitDeviceFails, Camera!InitMmapFails
    <3>3. CASE Camera!InitDeviceNotACamera
      BY <2>2, <3>3 DEF InitVideo, Camera!InitDeviceNotACamera
    <3> QED
      BY <2>2, <3>1, <3>2, <3>3 DEF InitVideo
  <2>3. CASE UninitVideo
    BY <2>3 DEF UninitVideo, Camera!UninitDevice
  <2>4. CASE CloseVideo
    BY <2>4 DEF CloseVideo, Camera!CloseDevice
  <2> QED
    BY <2>1, <2>2, <2>3, <2>4
<1> QED
  BY <1>2, <1>3, <1>4, <1>5

\* Every step keeps the invariant.
LEMMA StepIInv == IInv /\ [Next]_vars => IInv'
<1> SUFFICES ASSUME IInv, [Next]_vars PROVE IInv'
  OBVIOUS
<1>1. CASE \E k \in Kinds : Scanner(k) \/ \E n \in Nodes(k) : Change(k, n)
  BY <1>1, ScannerStep, ChangeStep
<1>2. CASE Handler
  BY <1>2, HandlerStep, LibraryStep DEF Handler
<1>3. CASE ProcessDeath
  <2>1. Created' /\ Camera!Loaded'
    BY <1>3 DEF ProcessDeath, Created, Camera!Reload, Camera!Loaded
  <2>2. (DOMAIN present = Kinds)' /\ Environment'
    BY <1>3 DEF ProcessDeath, IInv, Domains, Environment, environment
  <2> QED
    BY <2>1, <2>2, NewProcess, PTL
<1>4. CASE UNCHANGED vars
  BY <1>4 DEF vars, environment, scanner, lists, checks, answers, camera, IInv, Domains,
              Environment, ListTypes, AnswerTypes, Found, Asked, Usable, UiTypes, ReadsAgain,
              Tried, Holds, Camera!Fault
<1> QED
  BY <1>1, <1>2, <1>3, <1>4 DEF Next

LEMMA Invariance == Spec => []IInv
BY InitIInv, StepIInv, PTL DEF Spec

-----------------------------------------------------------------------------
(* What follows. *)

\* The video nodes are finitely many: their numbers are.
LEMMA FiniteVideoNodes == IsFiniteSet(VideoNodes)
<1> DEFINE f == [n \in VideoNodes |-> n.number]
<1>1. \A n \in VideoNodes : n.number \in 0..63 /\ n = [number |-> n.number]
  BY NodesAssumption
<1>2. f \in Injection(VideoNodes, 0..63)
  BY <1>1 DEF Injection, IsInjective
<1>3. IsFiniteSet(0..63)
  <2>1. \A a, b \in Int : IsFiniteSet(a..b)
    BY FS_Interval
  <2>2. 0 \in Int /\ 63 \in Int
    OBVIOUS
  <2> QED
    BY <2>1, <2>2, Zenon
<1> QED
  BY <1>2, <1>3, FS_Injection

\* Every variable has its type.
THEOREM TypeCorrect == Spec => []TypeOK
BY Invariance, TypesFollow, PTL

\* The names the handler reads again without a look at them are not null (FindPcm, FindVideo
\* and the reads that follow).
THEOREM ReadsStay == Spec => []ReadsAgain
<1>1. IInv => ReadsAgain
  BY DEF IInv
<1> QED
  BY <1>1, Invariance, PTL

\* The name shown is the one checked, unless there are several targets (CheckVideo,
\* NameVideo): both are among them, and none is ever taken back.
THEOREM ReportIsChecked == Spec => []ReportMatchesCheck
<1>1. ASSUME IInv, shown["video"] # None, shown["video"] # tried["video"]
      PROVE  Cardinality(target["video"]) > 1
  <2> DEFINE a == shown["video"]
             b == tried["video"]
             T == target["video"]
  <2>1. a \in T /\ b \in T /\ a # b
    BY <1>1 DEF IInv, Asked, Tried, Kinds
  <2>2. IsFiniteSet(T)
    BY <1>1, FiniteVideoNodes, FS_Subset DEF IInv, ListTypes, Nodes, Kinds
  <2>3. Cardinality(T) \in Nat /\ Cardinality(T) # 0
    BY <2>1, <2>2, FS_CardinalityType, FS_EmptySet
  <2>4. Cardinality(T) # 1
    BY <2>1, <2>2, FS_Singleton
  <2> QED
    BY <2>3, <2>4
<1>2. IInv => ReportMatchesCheck
  BY <1>1 DEF ReportMatchesCheck
<1> QED
  BY <1>2, Invariance, PTL

\* A device is not said to be missing once the thread has finished with a usable node of its
\* kind (PickTarget, PickedAll, Find).
THEOREM MissingIsFinal == Spec => NotFoundIsFinal
<1>1. ASSUME IInv, [Next]_vars, NEW k \in Kinds,
             result[k] # "notFound", result'[k] = "notFound", scan[k] = "exited"
      PROVE  Usable(k) = {}
  <2>1. name[k] = None
    <3>1. CASE Handler
      BY <1>1, <3>1
         DEF Handler, Confirm, FindPcm, CheckPcm, FindVideo, CheckVideo, OpenVideo, InitVideo,
             UninitVideo, CloseVideo, NameVideo, Find, Library, checks, answers, Kinds, IInv,
             Domains
    <3>2. CASE ProcessDeath
      BY <1>1, <3>2 DEF ProcessDeath
    <3>3. ASSUME NEW j \in Kinds, Scanner(j) \/ \E n \in Nodes(j) : Change(j, n)
          PROVE  UNCHANGED result
      BY <3>3 DEF Scanner, CheckDevicePath, TestScan, ListNodes, TakeBaseline, SameSize,
                  OtherSize, PickTarget, PickedAll, Change, checks, answers
    <3>4. CASE UNCHANGED vars
      BY <1>1, <3>4 DEF vars, checks, answers
    <3> QED
      BY <1>1, <3>1, <3>2, <3>3, <3>4 DEF Next
  <2> QED
    BY <1>1, <2>1 DEF IInv, Found
<1>2. IInv /\ [Next]_vars =>
         [\A k \in Kinds :
             (result[k] # "notFound" /\ result'[k] = "notFound" /\ scan[k] = "exited")
                 => Usable(k) = {}]_vars
  BY <1>1
<1> QED
  BY <1>2, Invariance, PTL DEF Spec, NotFoundIsFinal

\* The check leaves nothing of the camera behind (OpenVideo to CloseVideo).
THEOREM ChecksLeaveNothing == Spec => []CheckLeavesNothing
<1>1. IInv => CheckLeavesNothing
  BY DEF IInv, Holds, CheckLeavesNothing, Checking, Opening
<1> QED
  BY <1>1, Invariance, PTL

-----------------------------------------------------------------------------
(* Which camera is checked. *)

\* No other step touches what was asked for and what was opened, but the end of the process.
LEMMA OnlyCheckOpens ==
    ASSUME IInv, DOMAIN opened = Kinds, [Next]_vars, ~CheckVideo
    PROVE  /\ DOMAIN opened' = Kinds
           /\ \/ opened'["video"] = opened["video"] /\ tried'["video"] = tried["video"]
              \/ opened'["video"] = None
<1>1. CASE \E k \in Kinds : Scanner(k) \/ \E n \in Nodes(k) : Change(k, n)
  BY <1>1 DEF Scanner, CheckDevicePath, TestScan, ListNodes, TakeBaseline, SameSize,
              OtherSize, PickTarget, PickedAll, Change, checks, answers
<1>2. CASE Handler
  <2>1. CASE CheckPcm
    BY <2>1 DEF CheckPcm, IInv, Domains, Kinds
  <2>2. CASE ~CheckPcm
    BY <1>2, <2>2 DEF Handler, Confirm, FindPcm, FindVideo, Find, OpenVideo, InitVideo,
                      UninitVideo, CloseVideo, NameVideo, Library, checks, answers
  <2> QED
    BY <2>1, <2>2
<1>3. CASE ProcessDeath
  BY <1>3 DEF ProcessDeath, Kinds
<1>4. CASE UNCHANGED vars
  BY <1>4 DEF vars, checks, answers
<1> QED
  BY <1>1, <1>2, <1>3, <1>4 DEF Next

\* What checkCameraWithBase opens is the node it was asked for, unless the base is added to
\* its number or a digit of it is lost; no base makes up for a lost digit.
LEMMA OpenedByCheck ==
    ASSUME IInv, DOMAIN opened = Kinds, CheckVideo
    PROVE  /\ DOMAIN opened' = Kinds
           /\ opened'["video"] # None
           /\ opened'["video"] = tried'["video"] <=> ~AsksForAnother
<1> DEFINE n == name["video"].number
           found == Camerabase + FirstDigit(n)
<1>1. name["video"] = [number |-> n] /\ n \in 0..63
  <2>1. name["video"] \in VideoNodes
    BY DEF IInv, ReadsAgain, Checking, CheckVideo, Goto, ListTypes, Nodes, Kinds
  <2> QED
    BY <2>1, NodesAssumption
<1>2. Camerabase \in {0, 4} /\ FirstDigit(n) \in Nat
  BY <1>1 DEF Camerabase, FirstDigit
<1>3. /\ tried'["video"] = name["video"]
      /\ opened'["video"] = [number |-> found]
      /\ DOMAIN opened' = Kinds
  BY DEF CheckVideo, IInv, Domains, Kinds
<1>4. found \in Nat
  BY <1>2
<1>5. found = n <=> (Camerabase = 0 /\ n < 10)
  BY <1>1, <1>2 DEF FirstDigit
<1>6. AsksForAnother <=> (Camerabase # 0 \/ n >= 10)
  BY DEF AsksForAnother
<1>7. opened'["video"] # None
  BY <1>3, <1>4, NodesAssumption
<1>8. [number |-> found] = [number |-> n] <=> found = n
  OBVIOUS
<1> HIDE DEF n, found
<1>9. opened'["video"] = tried'["video"] <=> found = n
  BY <1>1, <1>3, <1>8
<1>10. n < 10 <=> ~(n >= 10)
  BY <1>1
<1> QED
  BY <1>3, <1>5, <1>6, <1>7, <1>9, <1>10

\* The camera that is checked is the one that was found, exactly in the behaviours in which
\* nobody asks for a camera while video0 to video3 are there, or for one of two digits.
THEOREM AnotherIsChecked == Spec => ([]CheckedNodeIsFound <=> [][~AsksForAnother]_vars)
<1> DEFINE Inv == IInv /\ DOMAIN opened = Kinds
<1>1. Init => Inv /\ CheckedNodeIsFound
  BY InitIInv DEF Init, Created, CheckedNodeIsFound, Kinds
<1>2. Inv /\ [Next]_vars => Inv'
  BY StepIInv, OnlyCheckOpens, OpenedByCheck
<1>3. Inv /\ [Next]_vars /\ CheckedNodeIsFound /\ ~AsksForAnother => CheckedNodeIsFound'
  BY OnlyCheckOpens, OpenedByCheck DEF CheckedNodeIsFound
<1>4. Inv /\ AsksForAnother => ~CheckedNodeIsFound'
  BY OpenedByCheck DEF CheckedNodeIsFound, AsksForAnother
<1>5. Inv /\ UNCHANGED vars => ~AsksForAnother
  BY DEF vars, AsksForAnother, CheckVideo, Goto
<1> HIDE DEF Inv
<1> QED
  BY <1>1, <1>2, <1>3, <1>4, <1>5, PTL DEF Spec
=============================================================================
