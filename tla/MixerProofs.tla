---------------------------- MODULE MixerProofs ----------------------------
(***************************************************************************)
(* Theorems about Mixer, for any number of handles, descriptors, elements, *)
(* items and values: everyone keeps the descriptor they opened exactly if  *)
(* no mixer_open fails before the handle it allocated has its descriptor,  *)
(* what is freed was allocated, the names searched are those of the table, *)
(* no call but mixer_ctl_set_array puts a value out of its range, and a    *)
(* percent that was set comes back where an int holds what is computed.    *)
(***************************************************************************)
EXTENDS Mixer, TLAPS

\* The constants, in the form the steps use.
LEMMA Constants ==
    /\ FdCount \in Nat /\ FdCount >= 1 /\ 0 \in Fds /\ Fds \subseteq Nat
    /\ MaxItems \in Nat /\ Channels \in Nat
    /\ Elements \in Nat /\ Enumerated \in 1..Elements
    /\ IntMax \in Nat /\ 0 \in Ints /\ Ints \subseteq Int
    /\ Values \subseteq Ints /\ Percents \subseteq Ints
    /\ \A h \in Handles : h # "process" /\ h # "other" /\ h # "free"
BY MixerAssumption DEF Fds, Ints

\* The range of the INTEGER element.
LEMMA RangeBounds ==
    range \in Ranges =>
        /\ range.min \in Int /\ range.max \in Int /\ range.min <= range.max
        /\ range.min..range.max \subseteq Ints
BY MixerAssumption DEF Ints

-----------------------------------------------------------------------------
(* Types. *)

\* A handle that is not open is a handle.
LEMMA ClosedType == Closed \in Handle
BY Constants DEF Closed, Handle

\* Blocks that are allocated together are blocks.
LEMMA BlockTypes ==
    ASSUME NEW h \in Handles
    PROVE  /\ Block(h, {"mixer", "ctl", "elem_info", "eid"}) \subseteq Blocks
           /\ \A parts \in SUBSET {"mixer", "ctl", "elem_info"} : Block(h, parts) \subseteq Blocks
           /\ \A k \in 0..MaxItems : Names(h, k) \subseteq Blocks
BY Constants DEF Block, Names, Blocks

\* The steps that open a handle keep the types.
LEMMA OpenType == TypeOK /\ (\E h \in Handles : Open(h)) => TypeOK'
<1> SUFFICES ASSUME TypeOK, NEW h \in Handles, Open(h) PROVE TypeOK'
  OBVIOUS
<1>1. mixer[h] \in Handle /\ mixer \in [Handles -> Handle]
  BY DEF TypeOK
<1>2. mixer' \in [Handles -> Handle]
  <2>1. CASE OpenCard(h)
    <3>1. PICK f \in Fds :
             mixer' = [mixer EXCEPT ![h] = [Closed EXCEPT !.at = "card", !.local = f]]
      BY <2>1 DEF OpenCard
    <3>2. [Closed EXCEPT !.at = "card", !.local = f] \in Handle
      BY ClosedType DEF Handle
    <3> QED
      BY <1>1, <3>1, <3>2
  <2>2. CASE ReadCard(h)
    <3> DEFINE new == [mixer[h] EXCEPT !.at = "elements", !.fd = mixer[h].local,
                                       !.count = Elements]
    <3>1. new \in Handle
      <4>1. [mixer[h] EXCEPT !.at = "elements", !.fd = mixer[h].local] \in Handle
        BY <1>1 DEF Handle
      <4>2. \A r \in Handle : [r EXCEPT !.count = Elements] \in Handle
        BY Constants DEF Handle
      <4> QED
        BY <1>1, <4>1, <4>2 DEF Handle
    <3>2. mixer' = [mixer EXCEPT ![h] = new]
      BY <1>1, <2>2 DEF ReadCard, Handle
    <3> QED
      BY <1>1, <3>1, <3>2
  <2>3. CASE ReadCardFails(h)
    BY <1>1, <2>3 DEF ReadCardFails, Handle
  <2>4. CASE ReadElement(h)
    <3> DEFINE next == mixer[h].n + 1
               new == [mixer[h] EXCEPT !.n = next]
    <3>1. items \in 0..MaxItems /\ next \in 0..Elements
      BY <1>1, <2>4, Constants DEF ReadElement, Handle, TypeOK
    <3>2. new \in Handle
      BY <1>1, <3>1 DEF Handle
    <3>3. [new EXCEPT !.items = items, !.names = items] \in Handle
      BY <3>1, <3>2 DEF Handle
    <3>4. \/ mixer' = [mixer EXCEPT ![h] = new]
          \/ mixer' = [mixer EXCEPT ![h] = [new EXCEPT !.items = items, !.names = items]]
      BY <1>1, <2>4 DEF ReadElement, Handle
    <3> HIDE DEF new
    <3> QED
      BY <1>1, <3>2, <3>3, <3>4
  <2>5. CASE ReadElementFails(h)
    <3>1. [mixer[h] EXCEPT !.at = "fail"] \in Handle
      BY <1>1 DEF Handle
    <3>2. [mixer[h] EXCEPT !.at = "fail", !.items = items, !.names = items] \in Handle
      <4>0. items \in 0..MaxItems
        BY Constants DEF TypeOK
      <4>1. \A r \in Handle : [r EXCEPT !.items = items] \in Handle
        BY <4>0 DEF Handle
      <4>2. \A r \in Handle : /\ [r EXCEPT !.at = "fail"] \in Handle
                              /\ [r EXCEPT !.names = items] \in Handle
        BY <4>0 DEF Handle
      <4> QED
        BY <1>1, <4>1, <4>2 DEF Handle
    <3>3. \/ mixer' = [mixer EXCEPT ![h] = [mixer[h] EXCEPT !.at = "fail"]]
          \/ mixer' = [mixer EXCEPT ![h] = [mixer[h] EXCEPT !.at = "fail", !.items = items,
                                                           !.names = items]]
      BY <1>1, <2>5 DEF ReadElementFails, Handle
    <3> QED
      BY <1>1, <3>1, <3>2, <3>3
  <2>6. CASE Opened(h)
    BY <1>1, <2>6 DEF Opened, Handle
  <2>7. CASE Fail(h)
    BY <1>1, <2>7, ClosedType DEF Fail
  <2> QED
    BY <2>1, <2>2, <2>3, <2>4, <2>5, <2>6, <2>7 DEF Open
<1>3. heap' \subseteq Blocks
  <2> USE BlockTypes, Constants DEF TypeOK
  <2>1. CASE OpenCard(h) \/ Opened(h) \/ Fail(h)
    BY <2>1 DEF OpenCard, Opened, Fail, Free
  <2>2. CASE ReadCard(h)
    BY <2>2 DEF ReadCard
  <2>3. CASE ReadCardFails(h)
    BY <2>3 DEF ReadCardFails
  <2>4. CASE ReadElement(h)
    BY <2>4 DEF ReadElement
  <2>5. CASE ReadElementFails(h)
    BY <2>5 DEF ReadElementFails
  <2> QED
    BY <2>1, <2>2, <2>3, <2>4, <2>5 DEF Open
<1>4. /\ table' \in [Fds -> Handles \cup {"process", "other", "free"}]
      /\ UNCHANGED <<other, stale, hardware>> /\ broken' \in BOOLEAN
  BY DEF Open, TypeOK, OpenCard, ReadCard, ReadCardFails, ReadElement, ReadElementFails, Opened,
         Fail, Free, Closing, Overrun, Named
<1> QED
  BY <1>2, <1>3, <1>4 DEF TypeOK, hardware

\* What an int has is a number, and of a number that fits the number itself.
LEMMA WrapIs ==
    ASSUME NEW x \in Int
    PROVE  Wrap(x) \in Int /\ (x \in Ints => Wrap(x) = x)
<1>1. 2 * (IntMax + 1) \in Nat \ {0} /\ x + IntMax + 1 \in Int
  BY Constants
<1>2. \A n \in Nat \ {0}, y \in Int : y % n \in 0..(n - 1) /\ (y \in 0..(n - 1) => y % n = y)
  OBVIOUS
<1>3. x \in Ints => x + IntMax + 1 \in 0..(2 * (IntMax + 1) - 1)
  BY Constants DEF Ints
<1> DEFINE n == 2 * (IntMax + 1)
           y == x + IntMax + 1
<1>4. y % n \in Int /\ (x \in Ints => y % n = y)
  <2> HIDE DEF n, y
  <2>1. n \in Nat \ {0} /\ y \in Int /\ (x \in Ints => y \in 0..(n - 1))
    BY <1>1, <1>3 DEF n, y
  <2> QED
    BY <1>2, <2>1
<1>5. Wrap(x) = (y % n) - (IntMax + 1)
  BY DEF Wrap
<1> HIDE DEF n
<1> QED
  BY <1>4, <1>5, Constants

LEMMA QuotientIsInt ==
    ASSUME NEW x \in Int PROVE Quotient(x, 100) \in Int
BY DEF Quotient, Magnitude

\* The value of a percent is a number.
LEMMA PercentIsInt ==
    ASSUME range \in Ranges, NEW p \in Int
    PROVE  percent_to_int(p) \in Int
<1>1. Span \in Int
  BY RangeBounds, WrapIs DEF Span
<1>2. Span * p \in Int
  BY <1>1
<1>3. Quotient(Wrap(Span * p), 100) \in Int
  BY <1>2, WrapIs, QuotientIsInt
<1>4. range.min + Quotient(Wrap(Span * p), 100) \in Int
  BY <1>3, RangeBounds
<1>5. Wrap(range.min + Quotient(Wrap(Span * p), 100)) \in Int
  BY <1>4, WrapIs
<1> QED
  BY <1>5 DEF percent_to_int, EINVAL

\* A value that is set is in the range.
LEMMA SetInRange ==
    ASSUME TypeOK, NEW h \in Handles, NEW id \in Ids,
           \/ \E v \in Values : SetValue(h, id, v)
           \/ \E p \in Percents : mixer_ctl_set_percent(h, id, p)
    PROVE  \E v \in range.min..range.max : SetValue(h, id, v)
BY RangeBounds, PercentIsInt, Constants DEF TypeOK, mixer_ctl_set_percent, SetValue

\* What mixer_ctl_set_array does.
LEMMA ArrayStep ==
    ASSUME NEW h \in Handles, SetArray(h)
    PROVE  /\ Idle /\ mixer[h].at = "live"
           /\ UNCHANGED <<table, other, mixer, heap, stale, broken, items, range>>
BY DEF SetArray, mixer_ctl_set_array

\* The calls on a handle keep the types.
LEMMA ControlType == TypeOK /\ (\E h \in Handles : Control(h)) => TypeOK'
<1> SUFFICES ASSUME TypeOK, NEW h \in Handles, Control(h) PROVE TypeOK'
  OBVIOUS
<1>1. mixer[h] \in Handle /\ mixer \in [Handles -> Handle]
  BY DEF TypeOK
<1>2. CASE mixer_ctl_update(h) \/ mixer_ctl_set_enum_by_string(h)
  <2>1. mixer' \in [Handles -> Handle]
    BY <1>1, <1>2 DEF mixer_ctl_update, mixer_ctl_set_enum_by_string, Handle, TypeOK
  <2> QED
    BY <1>2, <2>1
    DEF mixer_ctl_update, mixer_ctl_set_enum_by_string, TypeOK, hardware, Overrun, Named
<1>3. CASE WriteElement(h)
  <2>1. Closed.ev \in [Ids -> Ints] /\ mixer[h].ev \in [Ids -> Ints]
    BY <1>1, Constants DEF Closed, Handle
  <2>2. mixer' \in [Handles -> Handle]
    BY <1>1, <1>3, <2>1 DEF WriteElement, Handle
  <2> QED
    BY <1>3, <2>1, <2>2 DEF WriteElement, TypeOK
<1>4. CASE \E id \in Ids, v \in range.min..range.max : SetValue(h, id, v)
  <2>1. PICK id \in Ids, v \in range.min..range.max : SetValue(h, id, v)
    BY <1>4
  <2>2. [value EXCEPT ![id] = v] \in [Ids -> Ints]
    BY RangeBounds DEF TypeOK
  <2>3. mixer' \in [Handles -> Handle]
    BY <1>1, <2>1, <2>2 DEF SetValue, Handle
  <2> QED
    BY <2>1, <2>3 DEF SetValue, TypeOK, hardware
<1>5. CASE SetArray(h)
  <2>1. value' \in [Ids -> Ints]
    BY <1>5, Constants DEF SetArray, mixer_ctl_set_array, TypeOK
  <2> QED
    BY <1>5, <2>1, ArrayStep DEF TypeOK
<1> QED
  BY <1>2, <1>3, <1>4, <1>5, SetInRange DEF Control

\* Every step keeps the types.
LEMMA StepType == TypeOK /\ [Next]_vars => TypeOK'
<1> SUFFICES ASSUME TypeOK, [Next]_vars PROVE TypeOK'
  OBVIOUS
<1> USE Constants, ClosedType DEF TypeOK, hardware
<1>1. ASSUME NEW h \in Handles, MixerClose(h) PROVE TypeOK'
  <2>1. mixer' \in [Handles -> Handle]
    BY <1>1 DEF MixerClose
  <2> QED
    BY <1>1, <2>1 DEF MixerClose, Free, Closing
<1>2. CASE OtherOpen
  BY <1>2 DEF OtherOpen
<1>3. CASE OtherClose
  BY <1>3 DEF OtherClose, Closing
<1>4. CASE ItemsChange
  BY <1>4 DEF ItemsChange
<1>5. CASE OutsideSets
  BY <1>5, RangeBounds DEF OutsideSets
<1>6. CASE UNCHANGED vars
  BY <1>6 DEF vars
<1> QED
  BY <1>1, <1>2, <1>3, <1>4, <1>5, <1>6, OpenType, ControlType DEF Next

\* The initial states are well typed.
LEMMA InitType == Init => TypeOK
<1> SUFFICES ASSUME Init PROVE TypeOK
  OBVIOUS
<1>1. mixer \in [Handles -> Handle]
  BY ClosedType DEF Init
<1>2. range \in Ranges /\ value \in [Ids -> Ints]
  BY RangeBounds DEF Init
<1> QED
  BY <1>1, <1>2, Constants DEF Init, TypeOK

\* Every state is well typed: no number of elements, names or descriptors leaves its range.
THEOREM TypeCorrect == Spec => []TypeOK
BY InitType, StepType, PTL DEF Spec

-----------------------------------------------------------------------------
(* Descriptors. *)

\* A handle has its descriptor from "elements" on; one that failed may still have 0.
Fields(h) ==
    /\ mixer[h].at = "card" => mixer[h].fd = 0
    /\ mixer[h].at \in {"elements", "live", "write"} => mixer[h].fd = mixer[h].local
    /\ mixer[h].at = "fail" => mixer[h].fd \in {0, mixer[h].local}

\* Only descriptor 0 is ever closed by those who did not open it: the others are theirs
\* for good, and no lost one is 0.
Own(h) == (mixer[h].at # "none" /\ mixer[h].local # 0) => table[mixer[h].local] = h

OwnOther == other \notin {-1, 0} => table[other] = "other"

DescriptorInv ==
    /\ \A h \in Handles : Fields(h) /\ Own(h)
    /\ OwnOther /\ ~Lost(0)
    /\ DescriptorsAreTheirs

\* Where a handle's descriptor is, and what it means that one is lost.
LEMMA LostMeans ==
    ASSUME TypeOK, \A h \in Handles : Fields(h)
    PROVE  /\ \A h \in Handles : mixer[h].at # "none" => Goes(h) = mixer[h].local
           /\ \A f \in Fds : Lost(f) <=> /\ table[f] \in Handles
                                        /\ \/ mixer[table[f]].at = "none"
                                           \/ mixer[table[f]].local # f
BY DEF TypeOK, Handle, Fields, Goes, Lost

\* The same after a step.
LEMMA LostMeansNext ==
    ASSUME TypeOK', \A h \in Handles : Fields(h)'
    PROVE  /\ \A h \in Handles : mixer'[h].at # "none" => Goes(h)' = mixer'[h].local
           /\ \A f \in Fds : Lost(f)' <=> /\ table'[f] \in Handles
                                         /\ \/ mixer'[table'[f]].at = "none"
                                            \/ mixer'[table'[f]].local # f
BY DEF TypeOK, Handle, Fields, Goes, Lost

\* A step that opens and closes nothing.
Quiet ==
    /\ UNCHANGED <<table, other>>
    /\ \A h \in Handles : /\ Fields(h)'
                          /\ mixer'[h].at = "none" <=> mixer[h].at = "none"
                          /\ mixer'[h].local = mixer[h].local

LEMMA QuietStep ==
    ASSUME TypeOK, TypeOK', DescriptorInv, Quiet
    PROVE  DescriptorInv' /\ \A f \in Fds : Lost(f)' => Lost(f)
<1> USE DEF Quiet
<1>1. \A f \in Fds : Lost(f)' <=> Lost(f)
  BY LostMeans, LostMeansNext DEF DescriptorInv
<1>2. \A h \in Handles : mixer[h].at # "none" => Goes(h)' = Goes(h)
  BY LostMeans, LostMeansNext DEF DescriptorInv
<1> QED
  BY <1>1, <1>2, Constants
  DEF DescriptorInv, Own, OwnOther, DescriptorsAreTheirs, NoneIsLost, AllKeepTheirs

\* A handle is opened: it takes a number that is free.
LEMMA OpenStep ==
    ASSUME TypeOK, TypeOK', DescriptorInv, NEW h \in Handles, OpenCard(h)
    PROVE  DescriptorInv' /\ \A f \in Fds : Lost(f)' => Lost(f)
<1>1. PICK f \in Fds : /\ table[f] = "free"
                       /\ table' = [table EXCEPT ![f] = h]
                       /\ mixer' = [mixer EXCEPT ![h] = [Closed EXCEPT !.at = "card", !.local = f]]
  BY DEF OpenCard, Lowest
<1>2. /\ mixer'[h].at = "card" /\ mixer'[h].local = f /\ mixer'[h].fd = 0
      /\ mixer[h].at = "none"
      /\ \A g \in Handles \ {h} : mixer'[g] = mixer[g]
      /\ table'[f] = h /\ \A g \in Fds \ {f} : table'[g] = table[g]
      /\ UNCHANGED other
  BY <1>1 DEF OpenCard, TypeOK, Closed
<1>3. \A g \in Handles : Fields(g)'
  BY <1>2 DEF DescriptorInv, Fields
<1>4. \A g \in Fds : Lost(g)' <=> Lost(g)
  <2>1. ~Lost(f) /\ ~Lost(f)'
    BY <1>1, <1>2, <1>3, LostMeans, LostMeansNext, Constants DEF DescriptorInv
  <2>2. \A g \in Fds \ {f} : Lost(g)' <=> Lost(g)
    BY <1>2, <1>3, LostMeans, LostMeansNext DEF DescriptorInv
  <2> QED
    BY <2>1, <2>2
<1>5. \A g \in Handles : Own(g)'
  BY <1>1, <1>2, Constants DEF DescriptorInv, Own, TypeOK, Handle
<1>6. OwnOther'
  BY <1>1, <1>2 DEF DescriptorInv, OwnOther, TypeOK
<1>7. DescriptorsAreTheirs'
  <2> SUFFICES ASSUME \A g \in Fds : ~Lost(g)'
               PROVE  /\ table'[0] = "process"
                      /\ other' # -1 => table'[other'] = "other"
                      /\ \A g \in Handles : mixer'[g].at # "none" => table'[Goes(g)'] = g
    BY DEF DescriptorsAreTheirs, NoneIsLost, AllKeepTheirs
  <2>1. /\ table[0] = "process"
        /\ other # -1 => table[other] = "other"
        /\ \A g \in Handles : mixer[g].at # "none" => table[Goes(g)] = g
    BY <1>4 DEF DescriptorInv, DescriptorsAreTheirs, NoneIsLost, AllKeepTheirs
  <2>2. \A g \in Handles \ {h} : Goes(g)' = Goes(g)
    BY <1>2 DEF Goes
  <2>3. Goes(h)' = f
    BY <1>2 DEF Goes
  <2>4. \A g \in Handles \ {h} : mixer[g].at # "none" => Goes(g) \in Fds
    BY DEF TypeOK, Handle, Goes
  <2> QED
    BY <1>1, <1>2, <2>1, <2>2, <2>3, <2>4, Constants DEF TypeOK
<1> QED
  BY <1>3, <1>4, <1>5, <1>6, <1>7, Constants DEF DescriptorInv

\* Another part of the process opens something: as with a handle.
LEMMA OtherOpenStep ==
    ASSUME TypeOK, TypeOK', DescriptorInv, OtherOpen
    PROVE  DescriptorInv' /\ \A f \in Fds : Lost(f)' => Lost(f)
<1>1. PICK f \in Fds : table[f] = "free" /\ table' = [table EXCEPT ![f] = "other"] /\ other' = f
  BY DEF OtherOpen, Lowest
<1>2. UNCHANGED mixer /\ other = -1
  BY DEF OtherOpen
<1>3. table'[f] = "other" /\ \A g \in Fds \ {f} : table'[g] = table[g]
  BY <1>1 DEF TypeOK
<1>4. \A h \in Handles : Fields(h)' /\ Goes(h)' = Goes(h)
  BY <1>2 DEF DescriptorInv, Fields, Goes
<1>5. \A g \in Fds : Lost(g)' <=> Lost(g)
  BY <1>1, <1>2, <1>3, <1>4, LostMeans, LostMeansNext, Constants DEF DescriptorInv
<1>6. \A h \in Handles : Own(h)'
  BY <1>1, <1>2, <1>3, Constants DEF DescriptorInv, Own, TypeOK, Handle
<1>7. OwnOther'
  BY <1>1, <1>3 DEF OwnOther
<1>8. DescriptorsAreTheirs'
  <2>1. \A h \in Handles : Goes(h) \in Fds
    BY DEF TypeOK, Handle, Goes
  <2> QED
    BY <1>1, <1>2, <1>3, <1>4, <1>5, <2>1, Constants
    DEF DescriptorInv, DescriptorsAreTheirs, NoneIsLost, AllKeepTheirs
<1> QED
  BY <1>4, <1>5, <1>6, <1>7, <1>8, Constants DEF DescriptorInv

\* It closes what it opened, or descriptor 0 that was taken from it.
LEMMA OtherCloseStep ==
    ASSUME TypeOK, TypeOK', DescriptorInv, OtherClose
    PROVE  DescriptorInv' /\ \A f \in Fds : Lost(f)' => Lost(f)
<1>0. other \in Fds /\ other # -1
  BY DEF OtherClose, TypeOK
<1> PICK f \in Fds : f = other
  BY <1>0
<1>1. f # -1 /\ table' = [table EXCEPT ![f] = "free"] /\ other' = -1 /\ UNCHANGED mixer
  BY <1>0 DEF OtherClose, Closing
<1>2. table'[f] = "free" /\ \A g \in Fds \ {f} : table'[g] = table[g]
  BY <1>1 DEF TypeOK
<1>3. \A h \in Handles : Fields(h)' /\ Goes(h)' = Goes(h)
  BY <1>1 DEF DescriptorInv, Fields, Goes
<1>4. f = 0 \/ table[f] = "other"
  BY <1>1 DEF DescriptorInv, OwnOther
<1>5. \A g \in Fds : Lost(g)' <=> Lost(g)
  <2>1. ~Lost(f)
    <3>1. CASE f = 0
      BY <3>1 DEF DescriptorInv
    <3>2. CASE table[f] = "other"
      BY <3>2, Constants DEF Lost
    <3> QED
      BY <1>4, <3>1, <3>2
  <2>2. ~Lost(f)'
    BY <1>2, Constants DEF Lost
  <2>3. \A g \in Fds \ {f} : Lost(g)' <=> Lost(g)
    BY <1>1, <1>2, <1>3 DEF Lost
  <2> QED
    BY <2>1, <2>2, <2>3
<1>6. \A h \in Handles : Own(h)'
  BY <1>1, <1>2, <1>4, Constants DEF DescriptorInv, Own, TypeOK, Handle
<1>7. OwnOther'
  BY <1>1 DEF OwnOther
<1>8. DescriptorsAreTheirs'
  <2>1. \A h \in Handles : Goes(h) \in Fds
    BY DEF TypeOK, Handle, Goes
  <2> QED
    BY <1>1, <1>2, <1>3, <1>5, <2>1, Constants
    DEF DescriptorInv, DescriptorsAreTheirs, NoneIsLost, AllKeepTheirs
<1> QED
  BY <1>3, <1>5, <1>6, <1>7, <1>8, Constants DEF DescriptorInv

\* A handle closes its descriptor, or 0 instead, and is gone.
Gone(h, f) ==
    /\ table' = [table EXCEPT ![f] = "free"]
    /\ mixer' = [mixer EXCEPT ![h] = Closed]
    /\ UNCHANGED other

LEMMA CloseStep ==
    ASSUME TypeOK, TypeOK', DescriptorInv, NEW h \in Handles, mixer[h].at # "none",
           NEW f \in {0, mixer[h].local}, Gone(h, f)
    PROVE  /\ DescriptorInv'
           /\ \A g \in Fds : Lost(g)' => Lost(g) \/ (g = mixer[h].local /\ g # f)
<1>1. /\ f \in Fds /\ mixer[h].local \in Fds
      /\ table'[f] = "free" /\ \A g \in Fds \ {f} : table'[g] = table[g]
  BY Constants DEF Gone, TypeOK, Handle
<1>2. /\ mixer'[h].at = "none" /\ \A g \in Handles \ {h} : mixer'[g] = mixer[g]
      /\ UNCHANGED other
  BY DEF Gone, TypeOK, Closed
<1>3. \A g \in Handles : Fields(g)'
  BY <1>2 DEF DescriptorInv, Fields
<1>4. f # 0 => table[f] = h
  BY DEF DescriptorInv, Own
<1>5. \A g \in Fds \ {f} : Lost(g)' => Lost(g) \/ g = mixer[h].local
  BY <1>1, <1>2, <1>3, LostMeans, LostMeansNext DEF DescriptorInv
<1>6. ~Lost(f)'
  BY <1>1, <1>3, LostMeansNext, Constants
<1>7. \A g \in Fds : Lost(g) => Lost(g)'
  <2>1. ~Lost(f)
    BY <1>1, <1>4, LostMeans, Constants DEF DescriptorInv
  <2> QED
    BY <1>1, <1>2, <1>3, <2>1, LostMeans, LostMeansNext DEF DescriptorInv
<1>8. ~Lost(0)'
  BY <1>5, <1>6, <1>1, Constants DEF DescriptorInv
<1>9. \A g \in Handles : Own(g)'
  <2> SUFFICES ASSUME NEW g \in Handles \ {h}, mixer[g].at # "none", mixer[g].local # 0
               PROVE  table'[mixer[g].local] = g
    BY <1>2 DEF Own
  <2>1. mixer[g].local \in Fds /\ table[mixer[g].local] = g
    BY DEF DescriptorInv, Own, TypeOK, Handle
  <2> QED
    BY <1>1, <1>4, <2>1
<1>10. OwnOther'
  BY <1>1, <1>2, <1>4, Constants DEF DescriptorInv, OwnOther, TypeOK
<1>11. DescriptorsAreTheirs'
  <2> SUFFICES ASSUME \A g \in Fds : ~Lost(g)'
               PROVE  /\ table'[0] = "process"
                      /\ other' # -1 => table'[other'] = "other"
                      /\ \A g \in Handles : mixer'[g].at # "none" => table'[Goes(g)'] = g
    BY DEF DescriptorsAreTheirs, NoneIsLost, AllKeepTheirs
  <2>1. /\ table[0] = "process"
        /\ other # -1 => table[other] = "other"
        /\ \A g \in Handles : mixer[g].at # "none" => table[Goes(g)] = g
    BY <1>7 DEF DescriptorInv, DescriptorsAreTheirs, NoneIsLost, AllKeepTheirs
  <2>2. Goes(h) = mixer[h].local /\ table[mixer[h].local] = h
    BY <2>1, LostMeans DEF DescriptorInv
  <2>3. f = mixer[h].local
    <3> SUFFICES ASSUME f # mixer[h].local PROVE FALSE
      OBVIOUS
    <3>1. table'[mixer[h].local] = h
      BY <1>1, <2>2
    <3> QED
      BY <1>1, <1>2, <1>3, <3>1, LostMeansNext
  <2>4. \A g \in Handles \ {h} : Goes(g)' = Goes(g) /\ Goes(g) \in Fds
    BY <1>2 DEF TypeOK, Handle, Goes
  <2>5. table[f] = h /\ f # 0 /\ other # f
    BY <1>1, <2>1, <2>2, <2>3, Constants
  <2>6. table'[0] = "process" /\ (other' # -1 => table'[other'] = "other")
    BY <1>1, <1>2, <2>1, <2>5, Constants DEF TypeOK
  <2>7. ASSUME NEW g \in Handles \ {h}, mixer[g].at # "none" PROVE table'[Goes(g)'] = g
    <3>1. Goes(g) # f /\ table[Goes(g)] = g /\ Goes(g)' = Goes(g) /\ Goes(g) \in Fds
      BY <2>1, <2>4, <2>5, <2>7
    <3> QED
      BY <1>1, <3>1
  <2> QED
    BY <1>2, <2>6, <2>7
<1> QED
  BY <1>1, <1>3, <1>5, <1>6, <1>8, <1>9, <1>10, <1>11, Constants DEF DescriptorInv

\* What a step of the library does to descriptors: it takes one, gives one back, or neither.
LEMMA HandleStep ==
    ASSUME TypeOK, TypeOK', DescriptorInv, NEW h \in Handles,
           Open(h) \/ Control(h) \/ MixerClose(h)
    PROVE  \/ OpenCard(h)
           \/ Quiet
           \/ /\ mixer[h].at # "none" /\ Gone(h, mixer[h].local)
           \/ /\ mixer[h].at = "fail" /\ mixer[h].fd = 0 /\ mixer[h].local # 0 /\ Gone(h, 0)
              /\ FailsEarly
<1> USE DEF Quiet
<1>1. /\ \A g \in Handles : Fields(g) /\ mixer[g] \in Handle
      /\ mixer \in [Handles -> Handle]
  BY DEF DescriptorInv, TypeOK
<1>2. CASE ReadCard(h)
  <2>1. Quiet
    BY <1>1, <1>2 DEF ReadCard, Fields, Handle
  <2> QED
    BY <2>1
<1>3. CASE ReadCardFails(h)
  <2>1. mixer[h].at = "card" /\ UNCHANGED <<table, other>>
        /\ mixer' = [mixer EXCEPT ![h].at = "fail"]
    BY <1>3 DEF ReadCardFails
  <2>2. mixer[h].fd = 0
    BY <1>1, <2>1 DEF Fields
  <2>3. Quiet
    BY <1>1, <2>1, <2>2 DEF Fields, Handle
  <2> QED
    BY <2>3
<1>4. CASE ReadElement(h) \/ ReadElementFails(h) \/ Opened(h)
  <2>1. Quiet
    BY <1>1, <1>4 DEF ReadElement, ReadElementFails, Opened, Fields, Handle
  <2> QED
    BY <2>1
<1>5. CASE Control(h)
  <2>1. CASE mixer_ctl_update(h) \/ mixer_ctl_set_enum_by_string(h) \/ WriteElement(h)
    <3>1. Quiet
      BY <1>1, <2>1
      DEF mixer_ctl_update, mixer_ctl_set_enum_by_string, WriteElement, Fields, Handle
    <3> QED
      BY <3>1
  <2>2. CASE \E id \in Ids, v \in range.min..range.max : SetValue(h, id, v)
    <3>1. Quiet
      BY <1>1, <2>2 DEF SetValue, Fields, Handle
    <3> QED
      BY <3>1
  <2>3. CASE SetArray(h)
    <3>1. Quiet
      BY <1>1, <2>3, ArrayStep DEF Fields
    <3> QED
      BY <3>1
  <2> QED
    BY <1>5, <2>1, <2>2, <2>3, SetInRange DEF Control
<1>6. CASE MixerClose(h)
  BY <1>1, <1>6 DEF MixerClose, Closing, Fields, Gone
<1>7. CASE Fail(h)
  <2>1. CASE Allocated(h) /\ mixer[h].fd # mixer[h].local
    <3>1. FailsEarly
      BY <1>7, <2>1 DEF FailsEarly
    <3> QED
      BY <1>1, <1>7, <2>1, <3>1 DEF Fail, Closing, Fields, Gone
  <2>2. CASE ~Allocated(h) \/ mixer[h].fd = mixer[h].local
    BY <1>1, <1>7, <2>2 DEF Fail, Closing, Gone
  <2> QED
    BY <2>1, <2>2
<1> QED
  BY <1>2, <1>3, <1>4, <1>5, <1>6, <1>7 DEF Open

\* Every step keeps the descriptors in order and loses one only in an open that fails.
LEMMA DescriptorStep ==
    ASSUME TypeOK, DescriptorInv, [Next]_vars
    PROVE  /\ DescriptorInv'
           /\ \A f \in Fds :
                 Lost(f)' => \/ Lost(f)
                             \/ mixer[table[f]].at = "fail" /\ mixer[table[f]].fd # f
           /\ ~FailsEarly => \A f \in Fds : Lost(f)' => Lost(f)
<1>1. TypeOK'
  BY StepType
<1>2. CASE \E h \in Handles : Open(h) \/ Control(h) \/ MixerClose(h)
  <2>1. PICK h \in Handles : Open(h) \/ Control(h) \/ MixerClose(h)
    BY <1>2
  <2>2. CASE OpenCard(h)
    BY <1>1, <2>2, OpenStep
  <2>3. CASE mixer[h].at # "none" /\ Gone(h, mixer[h].local)
    BY <1>1, <2>3, CloseStep
  <2>4. CASE /\ mixer[h].at = "fail" /\ mixer[h].fd = 0 /\ mixer[h].local # 0
             /\ Gone(h, 0) /\ FailsEarly
    <3>1. table[mixer[h].local] = h
      BY <2>4 DEF DescriptorInv, Own
    <3>2. DescriptorInv' /\ \A f \in Fds : Lost(f)' => Lost(f) \/ f = mixer[h].local
      BY <1>1, <2>4, CloseStep
    <3> QED
      BY <2>4, <3>1, <3>2
  <2>5. CASE Quiet
    BY <1>1, <2>5, QuietStep
  <2> QED
    BY <1>1, <2>1, <2>2, <2>3, <2>4, <2>5, HandleStep
<1>3. CASE OtherOpen
  BY <1>1, <1>3, OtherOpenStep
<1>4. CASE OtherClose
  BY <1>1, <1>4, OtherCloseStep
<1>5. CASE ItemsChange \/ OutsideSets \/ UNCHANGED vars
  <2>1. UNCHANGED <<table, other, mixer>>
    BY <1>5 DEF ItemsChange, OutsideSets, vars
  <2>2. \A h \in Handles : Fields(h)'
    BY <2>1 DEF DescriptorInv, Fields
  <2> QED
    BY <1>1, <2>1, <2>2, QuietStep DEF Quiet
<1> QED
  BY <1>2, <1>3, <1>4, <1>5 DEF Next

\* A process that has opened nothing.
LEMMA InitDescriptors == Init => DescriptorInv
<1> SUFFICES ASSUME Init PROVE DescriptorInv
  OBVIOUS
<1>1. \A h \in Handles : mixer[h].at = "none"
  BY DEF Init, Closed
<1>2. \A f \in Fds : ~Lost(f)
  BY Constants DEF Init, Lost
<1> QED
  BY <1>1, <1>2, Constants
  DEF Init, DescriptorInv, Fields, Own, OwnOther, DescriptorsAreTheirs, NoneIsLost, AllKeepTheirs

\* As long as no descriptor is lost, everyone finds under a number what they opened.
THEOREM OwnDescriptors == Spec => []DescriptorsAreTheirs
<1>1. Init => TypeOK /\ DescriptorInv
  BY InitType, InitDescriptors
<1>2. (TypeOK /\ DescriptorInv) /\ [Next]_vars => (TypeOK /\ DescriptorInv)'
  BY StepType, DescriptorStep
<1>3. DescriptorInv => DescriptorsAreTheirs
  BY DEF DescriptorInv
<1> QED
  BY <1>1, <1>2, <1>3, PTL DEF Spec

\* One is lost only by an open that fails before the handle has its descriptor.
THEOREM LostByFailedOpen == Spec => LostInOpenOnly
<1> DEFINE Losing == \A f \in Fds :
                        Lost(f)' => \/ Lost(f)
                                    \/ mixer[table[f]].at = "fail" /\ mixer[table[f]].fd # f
<1>1. Init => TypeOK /\ DescriptorInv
  BY InitType, InitDescriptors
<1>2. (TypeOK /\ DescriptorInv) /\ [Next]_vars => (TypeOK /\ DescriptorInv)' /\ [Losing]_vars
  BY StepType, DescriptorStep
<1> QED
  BY <1>1, <1>2, PTL DEF Spec, LostInOpenOnly

\* Everyone keeps what they opened exactly in the behaviours in which no open fails early,
\* after it allocated the handle and before the handle has its descriptor: each such
\* failure closes descriptor 0, and nothing else ever closes another's (mixer_open,
\* mixer_close).
THEOREM EarlyFailuresTake == Spec => ([]AllKeepTheirs <=> [][~FailsEarly]_vars)
<1> DEFINE Inv == TypeOK /\ DescriptorInv
<1>1. Init => Inv /\ NoneIsLost
  BY InitType, InitDescriptors, Constants DEF Init, NoneIsLost, Lost
<1>2. Inv /\ [Next]_vars => Inv'
  BY StepType, DescriptorStep
<1>3. Inv /\ [Next]_vars /\ NoneIsLost /\ ~FailsEarly => NoneIsLost'
  BY DescriptorStep DEF NoneIsLost
<1>4. Inv /\ NoneIsLost => AllKeepTheirs
  BY DEF DescriptorInv, DescriptorsAreTheirs
<1>5. Inv /\ FailsEarly => ~AllKeepTheirs'
  <2> SUFFICES ASSUME Inv, NEW h \in Handles, mixer[h].fd # mixer[h].local, Allocated(h),
                      Fail(h)
               PROVE  ~AllKeepTheirs'
    BY DEF FailsEarly
  <2>1. mixer[h].fd = 0
    BY DEF DescriptorInv, Fields, Fail
  <2>2. table'[0] = "free"
    BY <2>1, Constants DEF Fail, Closing, TypeOK
  <2> QED
    BY <2>2 DEF AllKeepTheirs
<1>6. Inv /\ UNCHANGED vars => ~FailsEarly
  <2> SUFFICES ASSUME Inv, NEW h \in Handles, Fail(h) PROVE mixer' # mixer
    BY DEF FailsEarly, vars
  <2>1. mixer[h].at = "fail" /\ mixer'[h].at = "none"
    BY DEF Fail, TypeOK, Closed
  <2> QED
    BY <2>1
<1> HIDE DEF Inv
<1> QED
  BY <1>1, <1>2, <1>3, <1>4, <1>5, <1>6, PTL DEF Spec

-----------------------------------------------------------------------------
(* Percents and values. *)

\* A part of a number, by a percent or by the number itself.
LEMMA Percentage ==
    ASSUME NEW span \in Nat, NEW p \in 0..100
    PROVE  /\ (span * p) \div 100 \in 0..span
           /\ p = 100 => (span * p) \div 100 = span
           /\ p < 100 /\ span > 0 => (span * p) \div 100 < span
<1>1. span * p \in Nat /\ span * p <= span * 100
  OBVIOUS
<1>2. p < 100 /\ span > 0 => span * p < span * 100
  OBVIOUS
<1> QED
  BY <1>1, <1>2

\* The percent that is heard of a value in the range.
LEMMA PercentHeard ==
    ASSUME NEW span \in Nat \ {0}, NEW v \in 0..span
    PROVE  (v \div span) * 100 = IF v = span THEN 100 ELSE 0
<1>1. v < span => v \div span = 0
  OBVIOUS
<1>2. span \div span = 1
  OBVIOUS
<1> QED
  BY <1>1, <1>2

\* What percent_to_int and int_to_percent compute where nothing overflows.
LEMMA NoOverflow ==
    ASSUME TypeOK, (range.max - range.min) * 100 <= IntMax, NEW percent \in 0..100,
           NEW v \in range.min..range.max
    PROVE  LET span == range.max - range.min IN
           /\ percent_to_int(percent) = range.min + (span * percent) \div 100
           /\ int_to_percent(v) =
                  IF span = 0 THEN 0 ELSE ((v - range.min) \div span) * 100
<1> DEFINE span == range.max - range.min
           part == (span * percent) \div 100
<1>1. range.min \in Int /\ range.max \in Int /\ span \in Nat /\ IntMax \in Nat
      /\ range.min..range.max \subseteq Ints /\ span * 100 <= IntMax
  BY RangeBounds, Constants DEF TypeOK
<1> HIDE DEF span
<1>2. span * percent \in 0..(span * 100) /\ part \in 0..span
  BY <1>1, Percentage
<1>3. /\ span \in Ints /\ span * percent \in Ints /\ v - range.min \in 0..span
      /\ v - range.min \in Ints /\ range.min + part \in Ints
  BY <1>1, <1>2 DEF Ints, span
<1>4. Span = span
  BY <1>1, <1>3, WrapIs DEF Span, span
<1>5. percent_to_int(percent) = range.min + part
  <2>1. Wrap(span * percent) = span * percent
    BY <1>2, <1>3, WrapIs
  <2>2. Quotient(span * percent, 100) = part
    BY <1>2 DEF Quotient, Magnitude
  <2>3. Wrap(range.min + part) = range.min + part
    BY <1>1, <1>2, <1>3, WrapIs
  <2>4. ~(percent > 100 \/ percent < 0)
    OBVIOUS
  <2> HIDE DEF part
  <2> QED
    BY <1>4, <2>1, <2>2, <2>3, <2>4, Zenon DEF percent_to_int
<1>6. ASSUME span # 0 PROVE int_to_percent(v) = ((v - range.min) \div span) * 100
  <2>1. Wrap(v - range.min) = v - range.min
    BY <1>1, <1>3, WrapIs
  <2>2. Quotient(v - range.min, span) = (v - range.min) \div span
    BY <1>1, <1>3 DEF Quotient, Magnitude
  <2>3. ((v - range.min) \div span) * 100 \in {0, 100}
    BY <1>1, <1>3, <1>6, PercentHeard
  <2>4. 100 \in Ints
    BY <1>1, <1>6 DEF Ints
  <2>5. Wrap(((v - range.min) \div span) * 100) = ((v - range.min) \div span) * 100
    BY <2>3, <2>4, Constants, WrapIs
  <2> QED
    BY <1>4, <1>6, <2>1, <2>2, <2>5, Zenon DEF int_to_percent
<1>7. span = 0 => int_to_percent(v) = 0
  BY <1>4 DEF int_to_percent
<1> QED
  BY <1>5, <1>6, <1>7 DEF span

\* A percent never comes back as more than was set, as long as an int holds 100 times the
\* range of the element (percent_to_int, int_to_percent).
THEOREM PercentsComeBack == Spec => []PercentRoundTrip
<1>1. TypeOK => PercentRoundTrip
  <2> SUFFICES ASSUME TypeOK, (range.max - range.min) * 100 <= IntMax, NEW percent \in 0..100
               PROVE  LET v == percent_to_int(percent) IN
                      /\ v \in range.min..range.max
                      /\ int_to_percent(v) \in 0..percent
                      /\ percent \in {0, 100} /\ range.min < range.max =>
                            int_to_percent(v) = percent
    BY DEF PercentRoundTrip
  <2> DEFINE span == range.max - range.min
             part == (span * percent) \div 100
  <2>1. range.min \in Int /\ range.max \in Int /\ span \in Nat
    BY RangeBounds DEF TypeOK
  <2>2. range.min \in range.min..range.max /\ percent_to_int(percent) = range.min + part
    BY <2>1, NoOverflow
  <2>3. part \in 0..span /\ (percent = 100 => part = span)
    BY <2>1, Percentage
  <2>4. percent < 100 /\ span > 0 => part < span
    BY <2>1, Percentage
  <2>5. int_to_percent(range.min + part) =
            IF span = 0 THEN 0 ELSE (part \div span) * 100
    <3> HIDE DEF part
    <3>1. range.min + part \in range.min..range.max /\ (range.min + part) - range.min = part
      BY <2>1, <2>3
    <3>2. int_to_percent(range.min + part) =
              IF span = 0 THEN 0 ELSE (((range.min + part) - range.min) \div span) * 100
      BY <3>1, NoOverflow
    <3> QED
      BY <3>1, <3>2, Zenon
  <2>6. span # 0 => (part \div span) * 100 = IF part = span THEN 100 ELSE 0
    BY <2>1, <2>3, PercentHeard
  <2> HIDE DEF part
  <2>7. range.min + part \in range.min..range.max
    BY <2>1, <2>3
  <2>8. int_to_percent(range.min + part) = IF span > 0 /\ part = span THEN 100 ELSE 0
    BY <2>1, <2>5, <2>6
  <2>9. range.min < range.max <=> span > 0
    BY <2>1
  <2> HIDE DEF span
  <2> QED
    BY <2>2, <2>3, <2>4, <2>7, <2>8, <2>9
<1> QED
  BY <1>1, TypeCorrect, PTL

\* A value that a call is about to write is out of the range.
Pending(h, id) == mixer[h].at = "write" /\ mixer[h].ev[id] \notin range.min..range.max

\* No step but one of mixer_ctl_set_array lets a value stray.
LEMMA StrayStep ==
    ASSUME TypeOK, [Next]_vars, \A h \in Handles : ~SetArray(h), NEW id \in Ids, Stray(id)'
    PROVE  Stray(id)
<1>1. /\ mixer \in [Handles -> Handle] /\ value \in [Ids -> Ints]
      /\ range.min \in Int /\ range.max \in Int /\ range.min <= range.max
  BY RangeBounds DEF TypeOK
<1>2. /\ Stray(id) <=> \/ value[id] \notin range.min..range.max
                       \/ \E h \in Handles : Pending(h, id)
      /\ \/ value'[id] \notin range'.min..range'.max
         \/ \E h \in Handles : Pending(h, id)'
  BY DEF Stray, Pending
<1>3. ASSUME UNCHANGED <<range, value>>,
             \A g \in Handles : mixer'[g].at = "write" =>
                 mixer[g].at = "write" /\ mixer'[g].ev = mixer[g].ev
      PROVE  Stray(id)
  BY <1>2, <1>3 DEF Pending
<1>4. ASSUME NEW h \in Handles, Open(h) \/ MixerClose(h)
      PROVE  Stray(id)
  <2>1. UNCHANGED <<range, value>>
    BY <1>4
    DEF Open, MixerClose, OpenCard, ReadCard, ReadCardFails, ReadElement, ReadElementFails,
        Opened, Fail, hardware
  <2>2. \A g \in Handles : mixer'[g].at = "write" => mixer'[g] = mixer[g]
    <3>1. CASE OpenCard(h)
      BY <3>1, <1>1 DEF OpenCard, Closed
    <3>2. CASE Fail(h) \/ MixerClose(h)
      <4>1. mixer' = [mixer EXCEPT ![h] = Closed] /\ Closed.at = "none"
        BY <3>2 DEF Fail, MixerClose, Closed
      <4> QED
        BY <4>1, <1>1
    <3>3. CASE ReadCard(h) \/ ReadCardFails(h) \/ Opened(h)
      BY <3>3, <1>1 DEF ReadCard, ReadCardFails, Opened, Handle
    <3>4. CASE ReadElement(h)
      BY <3>4, <1>1 DEF ReadElement, Handle
    <3>5. CASE ReadElementFails(h)
      BY <3>5, <1>1 DEF ReadElementFails, Handle
    <3> QED
      BY <1>4, <3>1, <3>2, <3>3, <3>4, <3>5 DEF Open
  <2> QED
    BY <1>3, <2>1, <2>2
<1>5. ASSUME NEW h \in Handles, Control(h)
      PROVE  Stray(id)
  <2>1. CASE mixer_ctl_update(h) \/ mixer_ctl_set_enum_by_string(h)
    <3>1. UNCHANGED <<range, value>>
      BY <2>1 DEF mixer_ctl_update, mixer_ctl_set_enum_by_string, hardware
    <3>2. \A g \in Handles : mixer'[g].at = mixer[g].at /\ mixer'[g].ev = mixer[g].ev
      BY <1>1, <2>1 DEF mixer_ctl_update, mixer_ctl_set_enum_by_string, Handle
    <3> QED
      BY <1>3, <3>1, <3>2
  <2>2. CASE WriteElement(h)
    <3>1. mixer[h].at = "write" /\ value' \in {value, mixer[h].ev} /\ UNCHANGED range
      BY <2>2 DEF WriteElement
    <3>2. \A g \in Handles : mixer'[g].at = "write" => mixer'[g] = mixer[g]
      BY <1>1, <2>2 DEF WriteElement, Handle
    <3> QED
      BY <1>2, <3>1, <3>2 DEF Pending
  <2>3. CASE \E i \in Ids, v \in range.min..range.max : SetValue(h, i, v)
    <3>1. PICK i \in Ids, v \in range.min..range.max : SetValue(h, i, v)
      BY <2>3
    <3>2. UNCHANGED <<range, value>> /\ mixer'[h].ev = [value EXCEPT ![i] = v]
      BY <1>1, <3>1 DEF SetValue, hardware, Handle
    <3>3. \A g \in Handles \ {h} : mixer'[g] = mixer[g]
      BY <1>1, <3>1 DEF SetValue
    <3>4. mixer'[h].ev[id] \in {value[id], v}
      BY <1>1, <3>2
    <3> QED
      BY <1>2, <3>1, <3>2, <3>3, <3>4 DEF Pending
  <2> QED
    BY <1>5, <2>1, <2>2, <2>3, SetInRange DEF Control
<1>6. CASE OutsideSets
  <2>1. UNCHANGED <<mixer, range>>
    BY <1>6 DEF OutsideSets
  <2>2. value'[id] = value[id] \/ value'[id] \in range.min..range.max
    BY <1>1, <1>6 DEF OutsideSets
  <2> QED
    BY <1>2, <2>1, <2>2 DEF Pending
<1>7. CASE OtherOpen \/ OtherClose \/ ItemsChange \/ UNCHANGED vars
  BY <1>3, <1>7 DEF OtherOpen, OtherClose, ItemsChange, vars, hardware
<1> QED
  BY <1>4, <1>5, <1>6, <1>7 DEF Next

\* Only mixer_ctl_set_array puts a value out of the range of its element
\* (mixer_ctl_set_value, mixer_ctl_set_percent).
THEOREM OnlyArraysLeaveRange == Spec => OnlyArraysStray
<1>1. TypeOK /\ [Next]_vars =>
          [(\E h \in Handles : SetArray(h)) \/ \A id \in Ids : Stray(id)' => Stray(id)]_vars
  BY StrayStep
<1> QED
  BY <1>1, TypeCorrect, PTL DEF Spec, OnlyArraysStray

-----------------------------------------------------------------------------
(* The heap. *)

Owned(h) == {block \in heap : block[1] = h}

\* What a handle has allocated at each point of its life.
HeapIs(h) ==
    /\ mixer[h].items = mixer[h].names
    /\ mixer[h].at \in {"none", "card"} => Owned(h) = {}
    /\ mixer[h].at = "card" => mixer[h].n = 0
    /\ mixer[h].at \in {"elements", "live", "write"} =>
          /\ mixer[h].count = Elements
          /\ mixer[h].at # "elements" => mixer[h].n = Elements
          /\ Owned(h) = Block(h, {"mixer", "ctl", "elem_info"})
                \cup (IF mixer[h].at = "elements" THEN Block(h, {"eid"}) ELSE {})
                \cup (IF mixer[h].n >= Enumerated THEN Names(h, mixer[h].items) ELSE {})
    /\ mixer[h].at = "fail" =>
          Owned(h) \subseteq Block(h, {"mixer", "ctl", "elem_info", "eid"})
                \cup (IF Named(h) THEN Names(h, mixer[h].items) ELSE {})

HeapInv == ~stale => ~broken /\ \A h \in Handles : HeapIs(h)

\* A step that touches no block of a handle leaves what it has.
LEMMA OthersHeap ==
    ASSUME NEW h \in Handles, HeapIs(h), mixer'[h] = mixer[h], Owned(h)' = Owned(h)
    PROVE  HeapIs(h)'
<1>1. Named(h)' <=> Named(h)
  BY DEF Owned, Named, Block
<1> QED
  BY <1>1 DEF HeapIs

\* A step that touches only blocks of one handle leaves what the others have.
LEMMA HeapOfOne ==
    ASSUME NEW h \in Handles, HeapInv, ~stale, ~broken', HeapIs(h)',
           \A g \in Handles \ {h} : mixer'[g] = mixer[g],
           \A block : block[1] # h => (block \in heap' <=> block \in heap)
    PROVE  HeapInv'
<1>1. \A g \in Handles \ {h} : Owned(g)' = Owned(g)
  BY DEF Owned
<1>2. \A g \in Handles \ {h} : HeapIs(g)'
  BY <1>1, OthersHeap DEF HeapInv
<1> QED
  BY <1>2 DEF HeapInv

\* Blocks and names are those of their handle.
LEMMA BlocksOfOne ==
    ASSUME NEW h, NEW parts, NEW k
    PROVE  /\ \A block \in Block(h, parts) : block[1] = h
           /\ \A block \in Names(h, k) : block[1] = h
BY DEF Block, Names

\* The steps of mixer_open keep the heap in order.
LEMMA OpenHeap ==
    ASSUME TypeOK, HeapInv, ~stale, NEW h \in Handles, Open(h)
    PROVE  HeapInv'
<1> USE Constants, BlocksOfOne
<1>1. HeapIs(h) /\ ~broken /\ mixer[h] \in Handle /\ mixer \in [Handles -> Handle]
  BY DEF HeapInv, TypeOK
<1>2. CASE OpenCard(h)
  <2>1. /\ mixer'[h].at = "card" /\ mixer'[h].items = mixer'[h].names /\ mixer'[h].n = 0
        /\ UNCHANGED <<heap, broken>>
        /\ mixer[h].at = "none" /\ \A g \in Handles \ {h} : mixer'[g] = mixer[g]
    BY <1>1, <1>2 DEF OpenCard, Closed
  <2>2. HeapIs(h)'
    BY <1>1, <2>1 DEF HeapIs, Owned
  <2> QED
    BY <1>1, <2>1, <2>2, HeapOfOne
<1>3. CASE ReadCard(h)
  <2>1. /\ mixer[h].at = "card" /\ mixer'[h].at = "elements" /\ mixer'[h].count = Elements
        /\ mixer'[h].items = mixer'[h].names /\ mixer'[h].n = 0
        /\ \A g \in Handles \ {h} : mixer'[g] = mixer[g]
        /\ UNCHANGED broken /\ Owned(h) = {}
        /\ heap' = heap \cup Block(h, {"mixer", "ctl", "elem_info", "eid"})
    BY <1>1, <1>3 DEF ReadCard, HeapIs, Handle
  <2>2. Owned(h)' = Block(h, {"mixer", "ctl", "elem_info", "eid"})
    BY <2>1 DEF Owned
  <2>3. @ = Block(h, {"mixer", "ctl", "elem_info"}) \cup Block(h, {"eid"})
    BY DEF Block
  <2>4. HeapIs(h)'
    BY <2>1, <2>2, <2>3 DEF HeapIs
  <2> QED
    BY <1>1, <2>1, <2>4, HeapOfOne
<1>4. CASE ReadCardFails(h)
  <2>1. /\ mixer[h].at = "card" /\ mixer'[h].at = "fail"
        /\ mixer'[h].items = mixer'[h].names
        /\ \A g \in Handles \ {h} : mixer'[g] = mixer[g]
        /\ UNCHANGED broken /\ Owned(h) = {}
    BY <1>1, <1>4 DEF ReadCardFails, HeapIs, Handle
  <2>2. PICK parts \in SUBSET {"mixer", "ctl", "elem_info"} : heap' = heap \cup Block(h, parts)
    BY <1>4 DEF ReadCardFails
  <2>3. Owned(h)' \subseteq Block(h, {"mixer", "ctl", "elem_info", "eid"})
    BY <2>1, <2>2 DEF Owned, Block
  <2>4. HeapIs(h)'
    BY <2>1, <2>3 DEF HeapIs
  <2> QED
    BY <1>1, <2>1, <2>2, <2>4, HeapOfOne
<1>5. CASE ReadElement(h)
  <2>1. /\ mixer[h].at = "elements" /\ mixer'[h].at = "elements"
        /\ mixer'[h].n = mixer[h].n + 1 /\ mixer[h].n \in Nat
        /\ mixer'[h].count = mixer[h].count
        /\ \A g \in Handles \ {h} : mixer'[g] = mixer[g]
        /\ UNCHANGED broken
    BY <1>1, <1>5 DEF ReadElement, Handle
  <2>2. CASE mixer[h].n + 1 = Enumerated
    <3>1. /\ heap' = heap \cup Names(h, items)
          /\ mixer'[h].items = items /\ mixer'[h].names = items
      BY <1>1, <1>5, <2>2 DEF ReadElement, Handle
    <3>2. Owned(h)' = Owned(h) \cup Names(h, items)
      BY <3>1 DEF Owned
    <3>3. HeapIs(h)'
      BY <1>1, <2>1, <2>2, <3>1, <3>2 DEF HeapIs
    <3> QED
      BY <1>1, <2>1, <3>1, <3>3, HeapOfOne
  <2>3. CASE mixer[h].n + 1 # Enumerated
    <3>1. /\ UNCHANGED heap
          /\ mixer'[h].items = mixer[h].items /\ mixer'[h].names = mixer[h].names
      BY <1>1, <1>5, <2>3 DEF ReadElement, Handle
    <3>2. Owned(h)' = Owned(h)
      BY <3>1 DEF Owned
    <3>3. HeapIs(h)'
      BY <1>1, <2>1, <2>3, <3>1, <3>2 DEF HeapIs
    <3> QED
      BY <1>1, <2>1, <3>1, <3>3, HeapOfOne
  <2> QED
    BY <2>2, <2>3
<1>6. CASE ReadElementFails(h)
  <2>1. /\ mixer[h].at = "elements" /\ mixer'[h].at = "fail"
        /\ mixer[h].n + 1 <= mixer[h].count /\ mixer[h].n \in Nat
        /\ \A g \in Handles \ {h} : mixer'[g] = mixer[g]
        /\ UNCHANGED broken
    BY <1>1, <1>6 DEF ReadElementFails, Handle
  <2> DEFINE four == Block(h, {"mixer", "ctl", "elem_info", "eid"})
  <2>2. Block(h, {"mixer", "ctl", "elem_info"}) \cup Block(h, {"eid"}) \subseteq four
    BY DEF Block
  <2>3. CASE /\ UNCHANGED heap
             /\ mixer'[h].items = mixer[h].items /\ mixer'[h].names = mixer[h].names
    <3>1. Owned(h)' = Owned(h) /\ (Named(h)' <=> Named(h))
      BY <2>3 DEF Owned, Named
    <3>2. mixer[h].n >= Enumerated => Named(h)
      <4>1. <<h, "ename", 0>> \in Names(h, mixer[h].items)
        BY <1>1 DEF Names, Handle
      <4> QED
        BY <1>1, <2>1, <4>1 DEF HeapIs, Named, Block, Owned
    <3>3. Owned(h) \subseteq four \cup (IF Named(h) THEN Names(h, mixer[h].items) ELSE {})
      BY <1>1, <2>1, <2>2, <3>2 DEF HeapIs
    <3>4. HeapIs(h)'
      BY <1>1, <2>1, <2>3, <3>1, <3>3 DEF HeapIs
    <3> QED
      BY <1>1, <2>1, <2>3, <3>4, HeapOfOne
  <2>4. CASE /\ mixer[h].n + 1 = Enumerated
             /\ mixer'[h].items = items /\ mixer'[h].names = items
             /\ \E copied \in 0..(items - 1) : heap' = heap \cup Names(h, copied)
    <3>1. PICK copied \in 0..(items - 1) : heap' = heap \cup Names(h, copied)
      BY <2>4
    <3>2. Owned(h)' = Owned(h) \cup Names(h, copied)
      BY <3>1 DEF Owned
    <3>3. Owned(h) \subseteq four
      BY <1>1, <2>1, <2>2, <2>4 DEF HeapIs
    <3>4. Names(h, copied) \subseteq Names(h, items) /\ Named(h)'
      BY <3>1 DEF Names, Named, Block, TypeOK
    <3>5. HeapIs(h)'
      BY <2>1, <2>4, <3>2, <3>3, <3>4 DEF HeapIs
    <3> QED
      BY <1>1, <2>1, <3>1, <3>5, HeapOfOne
  <2> QED
    BY <1>1, <1>6, <2>3, <2>4 DEF ReadElementFails, Handle
<1>7. CASE Opened(h)
  <2>1. /\ mixer[h].at = "elements" /\ mixer'[h].at = "live"
        /\ mixer[h].n = mixer[h].count /\ mixer'[h].n = mixer[h].n
        /\ mixer'[h].count = mixer[h].count
        /\ mixer'[h].items = mixer[h].items /\ mixer'[h].names = mixer[h].names
        /\ \A g \in Handles \ {h} : mixer'[g] = mixer[g]
        /\ heap' = heap \ Block(h, {"eid"}) /\ UNCHANGED broken
    BY <1>1, <1>7 DEF Opened, Handle
  <2>2. Owned(h)' = Owned(h) \ Block(h, {"eid"})
    BY <2>1 DEF Owned
  <2>3. (Block(h, {"mixer", "ctl", "elem_info"}) \cup Block(h, {"eid"})
              \cup Names(h, mixer[h].items)) \ Block(h, {"eid"})
          = Block(h, {"mixer", "ctl", "elem_info"}) \cup Names(h, mixer[h].items)
    BY DEF Block, Names
  <2>4. HeapIs(h)'
    BY <1>1, <2>1, <2>2, <2>3 DEF HeapIs
  <2> QED
    BY <1>1, <2>1, <2>4, HeapOfOne
<1>8. CASE Fail(h)
  <2>1. /\ mixer[h].at = "fail" /\ mixer'[h].at = "none"
        /\ mixer'[h].items = mixer'[h].names
        /\ \A g \in Handles \ {h} : mixer'[g] = mixer[g]
        /\ Free(h)
    BY <1>1, <1>8 DEF Fail, Closed
  <2>2. ~broken'
    <3>1. ~Overrun(h)
      BY <1>1 DEF Overrun, HeapIs, Handle
    <3> QED
      BY <1>1, <2>1, <3>1 DEF Free
  <2>3. Owned(h)' = {}
    BY <1>1, <2>1 DEF Free, Owned, HeapIs
  <2>4. HeapIs(h)'
    BY <2>1, <2>3 DEF HeapIs
  <2> QED
    BY <2>1, <2>2, <2>4, HeapOfOne DEF Free
<1> QED
  BY <1>2, <1>3, <1>4, <1>5, <1>6, <1>7, <1>8 DEF Open

\* Every step keeps the heap in order, until an update finds more items than were copied.
LEMMA StepHeap == TypeOK /\ HeapInv /\ [Next]_vars => HeapInv'
<1> SUFFICES ASSUME TypeOK, HeapInv, [Next]_vars, ~stale' PROVE HeapInv'
  BY DEF HeapInv
<1> USE Constants, BlocksOfOne
<1>1. ~stale
  BY DEF Next, Open, OpenCard, ReadCard, ReadCardFails, ReadElement, ReadElementFails, Opened,
         Fail, Control, mixer_ctl_update, mixer_ctl_set_enum_by_string, WriteElement, SetValue,
         mixer_ctl_set_percent, SetArray, mixer_ctl_set_array, MixerClose, OtherOpen, OtherClose,
         ItemsChange, OutsideSets, vars
<1>2. /\ ~broken /\ mixer \in [Handles -> Handle]
      /\ \A h \in Handles : HeapIs(h) /\ mixer[h] \in Handle /\ ~Overrun(h)
  BY <1>1 DEF HeapInv, TypeOK, HeapIs, Overrun, Handle
<1>3. ASSUME NEW h \in Handles, MixerClose(h)
      PROVE  HeapInv'
  <2>1. /\ mixer[h].at = "live" /\ mixer'[h].at = "none" /\ mixer'[h].items = mixer'[h].names
        /\ \A g \in Handles \ {h} : mixer'[g] = mixer[g]
        /\ Free(h)
    BY <1>2, <1>3 DEF MixerClose, Closed
  <2>2. Named(h)
    <3>1. <<h, "ename", 0>> \in Names(h, mixer[h].items)
      BY <1>2 DEF Names, Handle
    <3> QED
      BY <1>2, <2>1, <3>1 DEF HeapIs, Named, Block, Owned
  <2>3. Owned(h)' = {}
    <3>1. Owned(h) = Block(h, {"mixer", "ctl", "elem_info"}) \cup Names(h, mixer[h].items)
      BY <1>2, <2>1 DEF HeapIs
    <3>2. Block(h, {"mixer", "ctl", "elem_info"})
              \subseteq Block(h, {"mixer", "ctl", "elem_info", "eid"})
      BY DEF Block
    <3> QED
      BY <2>1, <2>2, <3>1, <3>2 DEF Free, Owned
  <2>4. HeapIs(h)'
    BY <2>1, <2>3 DEF HeapIs
  <2>5. ~broken'
    BY <1>2, <2>1 DEF Free
  <2> QED
    BY <1>1, <2>1, <2>4, <2>5, HeapOfOne DEF Free
<1>4. ASSUME NEW h \in Handles, Control(h)
      PROVE  HeapInv'
  <2>1. UNCHANGED heap /\ ~broken'
    <3>1. CASE mixer_ctl_update(h) \/ WriteElement(h)
      BY <1>2, <3>1 DEF mixer_ctl_update, WriteElement
    <3>2. CASE mixer_ctl_set_enum_by_string(h)
      BY <1>2, <3>2 DEF mixer_ctl_set_enum_by_string
    <3>3. CASE \E id \in Ids, v \in range.min..range.max : SetValue(h, id, v)
      BY <1>2, <3>3 DEF SetValue
    <3>4. CASE SetArray(h)
      BY <1>2, <3>4, ArrayStep
    <3> QED
      BY <1>4, <3>1, <3>2, <3>3, <3>4, SetInRange DEF Control
  <2>2. \A g \in Handles :
           /\ mixer'[g].at = mixer[g].at \/ {mixer'[g].at, mixer[g].at} = {"live", "write"}
           /\ mixer'[g].count = mixer[g].count /\ mixer'[g].n = mixer[g].n
           /\ mixer'[g].items = mixer[g].items /\ mixer'[g].names = mixer[g].names
    <3>1. CASE mixer_ctl_update(h)
      <4>1. items = mixer[h].names /\ mixer' = [mixer EXCEPT ![h].items = items]
        BY <3>1 DEF mixer_ctl_update
      <4>2. mixer[h].items = items
        BY <1>2, <4>1 DEF HeapIs
      <4> QED
        BY <1>2, <4>1, <4>2 DEF Handle
    <3>2. CASE WriteElement(h)
      BY <1>2, <3>2 DEF WriteElement, Handle
    <3>3. CASE \E id \in Ids, v \in range.min..range.max : SetValue(h, id, v)
      BY <1>2, <3>3 DEF SetValue, Handle
    <3>4. CASE UNCHANGED mixer
      BY <3>4
    <3> QED
      BY <1>4, <3>1, <3>2, <3>3, <3>4, SetInRange, ArrayStep
      DEF Control, mixer_ctl_set_enum_by_string
  <2>3. ASSUME NEW g \in Handles PROVE HeapIs(g)'
    <3>1. Owned(g)' = Owned(g) /\ (Named(g)' <=> Named(g))
      BY <2>1 DEF Owned, Named
    <3>2. CASE mixer'[g].at = mixer[g].at
      BY <1>2, <2>2, <3>1, <3>2 DEF HeapIs
    <3>3. CASE mixer'[g].at \in {"live", "write"} /\ mixer[g].at \in {"live", "write"}
      BY <1>2, <2>2, <3>1, <3>3 DEF HeapIs
    <3>4. {mixer'[g].at, mixer[g].at} = {"live", "write"} =>
              mixer'[g].at \in {"live", "write"} /\ mixer[g].at \in {"live", "write"}
      OBVIOUS
    <3> QED
      BY <2>2, <3>2, <3>3, <3>4
  <2> QED
    BY <2>1, <2>3 DEF HeapInv
<1>5. CASE OtherOpen \/ OtherClose \/ ItemsChange \/ OutsideSets \/ UNCHANGED vars
  <2>1. UNCHANGED <<mixer, heap, broken>>
    BY <1>5 DEF OtherOpen, OtherClose, ItemsChange, OutsideSets, vars
  <2>2. \A h \in Handles : Owned(h)' = Owned(h)
    BY <2>1 DEF Owned
  <2>3. \A h \in Handles : HeapIs(h)'
    BY <1>2, <2>1, <2>2, OthersHeap
  <2> QED
    BY <1>2, <2>1, <2>3 DEF HeapInv
<1> QED
  BY <1>1, <1>3, <1>4, <1>5, OpenHeap DEF Next

\* Nothing is allocated at first.
LEMMA InitHeap == Init => HeapInv
BY DEF Init, Closed, HeapInv, HeapIs, Owned

\* The heap in every behaviour.
LEMMA HeapAlways == Spec => [](TypeOK /\ HeapInv)
<1>1. Init => TypeOK /\ HeapInv
  BY InitType, InitHeap
<1>2. (TypeOK /\ HeapInv) /\ [Next]_vars => (TypeOK /\ HeapInv)'
  BY StepType, StepHeap
<1> QED
  BY <1>1, <1>2, PTL DEF Spec

\* A mixer_open that fails and a mixer_close free everything: what the comments leave
\* to be verified. A handle in use has exactly what it points to.
THEOREM FreesAreVerified == Spec => []FreesVerified
<1>1. TypeOK /\ HeapInv => FreesVerified
  <2> SUFFICES ASSUME TypeOK, HeapInv, ~stale, NEW h \in Handles
               PROVE  /\ mixer[h].at = "none" => \A block \in heap : block[1] # h
                      /\ mixer[h].at \in {"live", "write"} =>
                            {block \in heap : block[1] = h} =
                                Block(h, {"mixer", "ctl", "elem_info"})
                                    \cup Names(h, mixer[h].items)
    BY DEF FreesVerified
  <2> QED
    BY Constants DEF HeapInv, HeapIs, Owned
<1> QED
  BY <1>1, HeapAlways, PTL

\* No name beyond the table is read, unless an update has found more items than were copied.
THEOREM NamesAreInTable == Spec => []NamesInTable
<1>1. HeapInv => NamesInTable
  BY DEF HeapInv, NamesInTable
<1> QED
  BY <1>1, HeapAlways, PTL
=============================================================================
