------------------------------- MODULE Mixer -------------------------------
(***************************************************************************)
(* The mixer library, jni/tinyalsa/mixer.c: handles on the controls of a   *)
(* sound card, used by one thread of a process that works with other       *)
(* descriptors in other threads, with any of the library's requests        *)
(* failing.                                                                *)
(*                                                                         *)
(* The process's descriptors are a table in which open() takes the lowest  *)
(* free number.  Whom a number belongs to is not in the code: close() goes *)
(* by the number.  Blocks of the heap are named by what they are for.      *)
(*                                                                         *)
(* The card has an INTEGER element, whose values are set, and one that is  *)
(* ENUMERATED, whose names each handle copies.                             *)
(***************************************************************************)
EXTENDS Integers

CONSTANTS
    Handles,        \* struct mixer
    FdCount,        \* bound: descriptors the process may have
    Elements,       \* elements of the card (elist.count)
    Enumerated,     \* the ENUMERATED one
    MaxItems,       \* bound: items the ENUMERATED element may have
    Channels,       \* values of an element (info->count)
    IntMax,         \* INT_MAX, and LONG_MAX: both have 32 bits on the device
    Ranges,         \* what info->value.integer of the INTEGER element may be
    Values,         \* what mixer_ctl_set_value and mixer_ctl_set_array are called with
    Percents        \* what mixer_ctl_set_percent is called with

Ints == (-(IntMax + 1))..IntMax

ASSUME MixerAssumption ==
    /\ FdCount \in Nat \ {0} /\ MaxItems \in Nat /\ Channels \in Nat \ {0}
    /\ Elements \in Nat /\ Enumerated \in 1..Elements
    /\ IntMax \in Nat
    /\ Ranges \subseteq [min : Ints, max : Ints] /\ \A r \in Ranges : r.min <= r.max
    /\ Values \subseteq Ints /\ Percents \subseteq Ints
    /\ "process" \notin Handles /\ "other" \notin Handles /\ "free" \notin Handles

VARIABLES
    table,      \* the process's descriptors: who opened each
    other,      \* the descriptor another part of the process works with, -1: none
    mixer,      \* each handle: where its call is, the fields of struct mixer, locals
    heap,       \* the blocks allocated
    items,      \* the items the ENUMERATED element has, in the kernel
    stale,      \* mixer_ctl_update has found more items than names were copied
    broken,     \* names beyond the table were read
    range,      \* least and greatest value of the INTEGER element
    value       \* its values, in the kernel

hardware == <<items, range, value>>
vars == <<table, other, mixer, heap, stale, broken, hardware>>

Fds     == 0..(FdCount - 1)
Ids     == 0..(Channels - 1)
Blocks  == Handles \X {"mixer", "ctl", "elem_info", "eid", "ename"} \X (0..MaxItems)

Block(h, parts) == {<<h, part, 0>> : part \in parts}
\* The table of the names, and the first of the names.
Names(h, count) == {<<h, "ename", i>> : i \in 0..count}

Closed == [at |-> "none", fd |-> 0, local |-> 0, count |-> 0, n |-> 0,
           items |-> 0, names |-> 0, ev |-> [id \in Ids |-> 0]]

Handle ==
    [at : {"none", "card", "elements", "fail", "live", "write"}, fd : Fds, local : Fds,
     count : 0..Elements, n : 0..Elements, items : 0..MaxItems, names : 0..MaxItems,
     ev : [Ids -> Ints]]

Init ==
    /\ table = [f \in Fds |-> IF f = 0 THEN "process" ELSE "free"]
    /\ other = -1
    /\ mixer = [h \in Handles |-> Closed]
    /\ heap = {}
    /\ items \in 1..MaxItems
    /\ stale = FALSE /\ broken = FALSE
    /\ range \in Ranges
    /\ value = [id \in Ids |-> range.min]

-----------------------------------------------------------------------------
(* Descriptors. *)

Lowest(f) == table[f] = "free" /\ \A g \in Fds : g < f => table[g] # "free"

Closing(f) == [table EXCEPT ![f] = "free"]

\* Another thread of the process opens and closes something.
OtherOpen ==
    /\ other = -1
    /\ \E f \in Fds :
          Lowest(f) /\ table' = [table EXCEPT ![f] = "other"] /\ other' = f
    /\ UNCHANGED <<mixer, heap, stale, broken, hardware>>

OtherClose ==
    /\ other # -1
    /\ table' = Closing(other)
    /\ other' = -1
    /\ UNCHANGED <<mixer, heap, stale, broken, hardware>>

-----------------------------------------------------------------------------
(* mixer_open and mixer_close. *)

\* No call of the library is on its way.
Idle == \A h \in Handles : mixer[h].at \in {"none", "live"}

\* mixer_open opens the card.
OpenCard(h) ==
    /\ Idle /\ mixer[h].at = "none"
    /\ \E f \in Fds :
          /\ Lowest(f)
          /\ table' = [table EXCEPT ![f] = h]
          /\ mixer' = [mixer EXCEPT ![h] = [Closed EXCEPT !.at = "card", !.local = f]]
    /\ UNCHANGED <<other, heap, stale, broken, hardware>>

\* The number of elements, the blocks, CARD_INFO; only then the handle gets its descriptor.
ReadCard(h) ==
    /\ mixer[h].at = "card"
    /\ heap' = heap \cup Block(h, {"mixer", "ctl", "elem_info", "eid"})
    /\ mixer' = [mixer EXCEPT ![h].at = "elements", ![h].fd = mixer[h].local,
                              ![h].count = Elements]
    /\ UNCHANGED <<table, other, stale, broken, hardware>>

\* A request or an allocation before that fails: the handle is what calloc made it.
ReadCardFails(h) ==
    /\ mixer[h].at = "card"
    /\ \E parts \in {{}} \cup {{"mixer"} \cup some : some \in SUBSET {"ctl", "elem_info"}} :
          heap' = heap \cup Block(h, parts)
    /\ mixer' = [mixer EXCEPT ![h].at = "fail"]
    /\ UNCHANGED <<table, other, stale, broken, hardware>>

\* Variant: one element beyond the last.
ReadElementOver(h) ==
    /\ mixer[h].at = "elements"
    /\ mixer' = [mixer EXCEPT ![h].n = @ + 1]
    /\ UNCHANGED <<table, other, heap, stale, broken, hardware>>

\* Variant: a table with room for one name less.
ReadElementShort(h) ==
    LET next == mixer[h].n + 1 IN
    /\ mixer[h].at = "elements" /\ next <= mixer[h].count
    /\ mixer' = [mixer EXCEPT ![h].n = next, ![h].items = items, ![h].names = items - 1]
    /\ heap' = heap \cup Names(h, items - 1)
    /\ UNCHANGED <<table, other, stale, broken, hardware>>

\* ELEM_INFO of the next element and, if it has them, a copy of its names.
ReadElement(h) ==
    LET next == mixer[h].n + 1 IN
    /\ mixer[h].at = "elements" /\ next <= mixer[h].count
    /\ IF next = Enumerated
       THEN /\ heap' = heap \cup Names(h, items)
            /\ mixer' = [mixer EXCEPT ![h].n = next, ![h].items = items, ![h].names = items]
       ELSE /\ mixer' = [mixer EXCEPT ![h].n = next]
            /\ UNCHANGED heap
    /\ UNCHANGED <<table, other, stale, broken, hardware>>

\* The list of elements, one of them, or one of its names, cannot be read or copied.
ReadElementFails(h) ==
    LET next == mixer[h].n + 1 IN
    /\ mixer[h].at = "elements" /\ next <= mixer[h].count
    /\ \/ /\ mixer' = [mixer EXCEPT ![h].at = "fail"]
          /\ UNCHANGED heap
       \/ /\ next = Enumerated
          /\ \E copied \in 0..(items - 1) :
                heap' = heap \cup Names(h, copied)
          /\ mixer' = [mixer EXCEPT ![h].at = "fail", ![h].items = items,
                                    ![h].names = items]
    /\ UNCHANGED <<table, other, stale, broken, hardware>>

\* mixer_open returns the handle.
Opened(h) ==
    /\ mixer[h].at = "elements" /\ mixer[h].n = mixer[h].count
    /\ heap' = heap \ Block(h, {"eid"})
    /\ mixer' = [mixer EXCEPT ![h].at = "live"]
    /\ UNCHANGED <<table, other, stale, broken, hardware>>

\* The names mixer_close goes through are those the element is said to have by now.
Named(h) == Block(h, {"ename"}) \subseteq heap

Overrun(h) == Named(h) /\ mixer[h].items > mixer[h].names

Allocated(h) == Block(h, {"mixer"}) \subseteq heap

\* Variant: only the table of the names is freed.
FreeNoNames(h) ==
    /\ heap' = heap \ Block(h, {"mixer", "ctl", "elem_info", "eid", "ename"})
    /\ UNCHANGED broken

\* The frees of mixer_close, and of mixer_open when it fails.
Free(h) ==
    /\ heap' = (heap \ Block(h, {"mixer", "ctl", "elem_info", "eid"}))
                   \ (IF Named(h) THEN Names(h, mixer[h].items) ELSE {})
    /\ broken' = (broken \/ Overrun(h))

\* Variant: closes the descriptor by both ways, one after the other.
FailTwice(h) ==
    /\ mixer[h].at = "fail"
    /\ IF Allocated(h)
       THEN table' = Closing(mixer[h].fd) /\ UNCHANGED mixer
       ELSE table' = Closing(mixer[h].local) /\ mixer' = [mixer EXCEPT ![h] = Closed]
    /\ Free(h)
    /\ UNCHANGED <<other, stale, hardware>>

\* fail: closes the handle if there is one, and else the descriptor.
Fail(h) ==
    /\ mixer[h].at = "fail"
    /\ table' = Closing(IF Allocated(h) THEN mixer[h].fd ELSE mixer[h].local)
    /\ Free(h)
    /\ mixer' = [mixer EXCEPT ![h] = Closed]
    /\ UNCHANGED <<other, stale, hardware>>

\* Variant: a descriptor of the lowest numbers is not closed.
MixerCloseAbove(h) ==
    /\ Idle /\ mixer[h].at = "live"
    /\ table' = IF mixer[h].fd > 1 THEN Closing(mixer[h].fd) ELSE table
    /\ Free(h)
    /\ mixer' = [mixer EXCEPT ![h] = Closed]
    /\ UNCHANGED <<other, stale, hardware>>

\* mixer_close.
MixerClose(h) ==
    /\ Idle /\ mixer[h].at = "live"
    /\ table' = Closing(mixer[h].fd)
    /\ Free(h)
    /\ mixer' = [mixer EXCEPT ![h] = Closed]
    /\ UNCHANGED <<other, stale, hardware>>

-----------------------------------------------------------------------------
(* The controls of a handle. *)

\* The kernel's element gets more items (bound: it never loses any).
ItemsChange ==
    /\ items' \in (items + 1)..MaxItems
    /\ UNCHANGED <<table, other, mixer, heap, stale, broken, range, value>>

\* Reads what is known of the ENUMERATED element again, but not the names.
mixer_ctl_update(h) ==
    /\ Idle /\ mixer[h].at = "live"
    /\ mixer' = [mixer EXCEPT ![h].items = items]
    /\ stale' = (stale \/ items # mixer[h].names)
    /\ UNCHANGED <<table, other, heap, broken, hardware>>

\* The names are compared up to the one that is looked for, or all of them. Which item the
\* kernel then has is not kept.
mixer_ctl_set_enum_by_string(h) ==
    /\ Idle /\ mixer[h].at = "live"
    /\ broken' \in {broken, broken \/ Overrun(h)}
    /\ UNCHANGED <<table, other, mixer, heap, stale, hardware>>

\* What an int has of a number (an overflow wraps on the device), and the quotient of two.
Wrap(x) == ((x + IntMax + 1) % (2 * (IntMax + 1))) - (IntMax + 1)

Magnitude(x) == IF x < 0 THEN -x ELSE x

Quotient(x, y) ==
    IF x < 0 <=> y < 0 THEN Magnitude(x) \div Magnitude(y)
                       ELSE -(Magnitude(x) \div Magnitude(y))

EINVAL == 22

Span == Wrap(range.max - range.min)

percent_to_int(percent) ==
    IF percent > 100 \/ percent < 0 THEN -EINVAL
    ELSE Wrap(range.min + Quotient(Wrap(Span * percent), 100))

\* The division comes first: there is no percent between 0 and 100.
int_to_percent(v) ==
    IF Span = 0 THEN 0 ELSE Wrap(Quotient(Wrap(v - range.min), Span) * 100)

\* Variant: any value is written.
SetValueUnchecked(h, id, v) ==
    /\ Idle /\ mixer[h].at = "live"
    /\ mixer' = [mixer EXCEPT ![h].at = "write", ![h].ev = [value EXCEPT ![id] = v]]
    /\ UNCHANGED <<table, other, heap, stale, broken, hardware>>

\* mixer_ctl_set_value reads all values, changes one,
SetValue(h, id, v) ==
    /\ Idle /\ mixer[h].at = "live"
    /\ v >= range.min /\ v <= range.max
    /\ mixer' = [mixer EXCEPT ![h].at = "write", ![h].ev = [value EXCEPT ![id] = v]]
    /\ UNCHANGED <<table, other, heap, stale, broken, hardware>>

\* and writes all: what others have written since is undone.
WriteElement(h) ==
    /\ mixer[h].at = "write"
    /\ value' \in {value, mixer[h].ev}
    /\ mixer' = [mixer EXCEPT ![h].at = "live", ![h].ev = Closed.ev]
    /\ UNCHANGED <<table, other, heap, stale, broken, items, range>>

\* A percent that is none is passed on as the value -EINVAL.
mixer_ctl_set_percent(h, id, percent) == SetValue(h, id, percent_to_int(percent))

\* The values from count on become 0, and no value is compared with the range.
mixer_ctl_set_array(h, array, count) ==
    /\ Idle /\ mixer[h].at = "live"
    /\ value' \in {value, [id \in Ids |-> IF id < count THEN array[id] ELSE 0]}
    /\ UNCHANGED <<table, other, mixer, heap, stale, broken, items, range>>

SetArray(h) ==
    \E array \in [Ids -> Values], count \in 1..Channels : mixer_ctl_set_array(h, array, count)

\* Another process sets a value, to one in the range.
OutsideSets ==
    /\ \E id \in Ids, v \in {range.min, range.max} : value' = [value EXCEPT ![id] = v]
    /\ UNCHANGED <<table, other, mixer, heap, stale, broken, items, range>>

-----------------------------------------------------------------------------

Open(h) ==
    \/ OpenCard(h) \/ ReadCard(h) \/ ReadCardFails(h)
    \/ ReadElement(h) \/ ReadElementFails(h) \/ Opened(h) \/ Fail(h)

Control(h) ==
    \/ mixer_ctl_update(h) \/ mixer_ctl_set_enum_by_string(h) \/ WriteElement(h)
    \/ \E id \in Ids :
          \/ \E v \in Values : SetValue(h, id, v)
          \/ \E percent \in Percents : mixer_ctl_set_percent(h, id, percent)
    \/ SetArray(h)

Next ==
    \/ \E h \in Handles : Open(h) \/ Control(h) \/ MixerClose(h)
    \/ OtherOpen \/ OtherClose \/ ItemsChange \/ OutsideSets

Spec == Init /\ [][Next]_vars

-----------------------------------------------------------------------------
(* What makes the library correct. *)

TypeOK ==
    /\ table \in [Fds -> Handles \cup {"process", "other", "free"}]
    /\ other \in Fds \cup {-1}
    /\ mixer \in [Handles -> Handle]
    /\ heap \subseteq Blocks
    /\ items \in 1..MaxItems
    /\ stale \in BOOLEAN /\ broken \in BOOLEAN
    /\ range \in Ranges
    /\ value \in [Ids -> Ints]

\* The descriptor a handle, or the call that opens it, goes by.
Goes(h) == IF mixer[h].at \in {"card", "fail"} THEN mixer[h].local ELSE mixer[h].fd

\* A descriptor of the library that no handle goes by: nobody closes it any more.
Lost(f) == table[f] \in Handles /\ (mixer[table[f]].at = "none" \/ Goes(table[f]) # f)

NoneIsLost == \A f \in Fds : ~Lost(f)

\* Every part of the process finds under its number what it opened itself.
AllKeepTheirs ==
    /\ table[0] = "process"
    /\ other # -1 => table[other] = "other"
    /\ \A h \in Handles : mixer[h].at # "none" => table[Goes(h)] = h

\* They do as long as none is lost, although numbers are given out again while opens fail
\* half way.
DescriptorsAreTheirs == NoneIsLost => AllKeepTheirs

\* A descriptor is lost only by an open that fails after the handle was allocated and
\* before it has its descriptor: mixer_close then closes descriptor 0 instead.
LostInOpenOnly ==
    [][\A f \in Fds : Lost(f)' => \/ Lost(f)
                                  \/ mixer[table[f]].at = "fail" /\ mixer[table[f]].fd # f]_vars

\* Such an open.
FailsEarly == \E h \in Handles : Allocated(h) /\ mixer[h].fd # mixer[h].local /\ Fail(h)

\* mixer_open that fails, wherever, and mixer_close leave nothing on the heap ("TODO:
\* verify frees in failure case"), and a handle in use has what it points to.
FreesVerified ==
    ~stale => \A h \in Handles :
        /\ mixer[h].at = "none" => \A block \in heap : block[1] # h
        /\ mixer[h].at \in {"live", "write"} =>
              {block \in heap : block[1] = h} =
                  Block(h, {"mixer", "ctl", "elem_info"}) \cup Names(h, mixer[h].items)

\* Names beyond the table are read only once mixer_ctl_update has found more items.
NamesInTable == ~stale => ~broken

\* The values out of the element's range, and those a call on its way is about to write.
Stray(id) ==
    \/ value[id] \notin range.min..range.max
    \/ \E h \in Handles : mixer[h].at = "write" /\ mixer[h].ev[id] \notin range.min..range.max

\* Only mixer_ctl_set_array, which compares nothing, puts a value out of its range. No
\* other call does: not with a percent that is none, although -EINVAL is passed on, not
\* with a range so wide that the arithmetic on it overflows, and not by writing back all
\* the values it has read, unless one of these was out of its range then.
OnlyArraysStray ==
    [][(\E h \in Handles : SetArray(h)) \/ \A id \in Ids : Stray(id)' => Stray(id)]_vars

\* What mixer_ctl_get_percent answers is never more than was set, and is what was set at
\* both ends of a range that has two, as long as an int holds 100 times the range.
PercentRoundTrip ==
    (range.max - range.min) * 100 <= IntMax =>
        \A percent \in 0..100 :
            LET v == percent_to_int(percent) IN
            /\ v \in range.min..range.max
            /\ int_to_percent(v) \in 0..percent
            /\ percent \in {0, 100} /\ range.min < range.max => int_to_percent(v) = percent
=============================================================================
