--------------------------- MODULE ReportDelivery ---------------------------
(***************************************************************************)
(* What the handling of the result file promises about the reports of the  *)
(* checks, without saying how: one report at a time waits to be delivered, *)
(* it may be lost, and it is delivered at most once, in the order of the   *)
(* checks.  A delivered report comes back only when a crash, or an answer  *)
(* that does not acknowledge it, leaves its delivery in doubt.             *)
(***************************************************************************)
EXTENDS Naturals

VARIABLES
    made,       \* reports made so far: each has a number
    pending,    \* the report that waits to be delivered, if there is one
    delivered,  \* those that were
    doubtful    \* delivered ones that came back

vars == <<made, pending, delivered, doubtful>>

Init == made = 0 /\ pending = {} /\ delivered = {} /\ doubtful = {}

\* A new report, which may be incomplete, or not be kept at all.
Make ==
    /\ pending = {}
    /\ made' = made + 1
    /\ \/ UNCHANGED pending
       \/ \E whole \in BOOLEAN : pending' = {[check |-> made', whole |-> whole]}
    /\ UNCHANGED <<delivered, doubtful>>

\* Only the last report, and none a second time unless it is in doubt.
Deliver ==
    /\ pending # {}
    /\ \A r \in pending : r.check = made
    /\ pending \cap delivered \subseteq doubtful
    /\ delivered' = delivered \cup pending
    /\ pending' = {}
    /\ UNCHANGED <<made, doubtful>>

Lose == pending' = {} /\ UNCHANGED <<made, delivered, doubtful>>

\* Of a delivered report nobody knows that it was: it waits once more.
Return ==
    /\ pending = {}
    /\ pending' \subseteq delivered
    /\ doubtful' = doubtful \cup pending'
    /\ UNCHANGED <<made, delivered>>

Next == Make \/ Deliver \/ Lose \/ Return

Spec == Init /\ [][Next]_vars
=============================================================================
