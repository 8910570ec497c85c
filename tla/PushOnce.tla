------------------------------ MODULE PushOnce ------------------------------
(***************************************************************************)
(* What the notifier promises of one event after another: none notifies    *)
(* the phone again within a window of the last time, unless nobody can     *)
(* know whether that time reached it.                                      *)
(***************************************************************************)
EXTENDS Naturals

CONSTANTS Ids, Again, Never

VARIABLES clock, told, doubted

vars == <<clock, told, doubted>>

Init == clock = 0 /\ told = [i \in Ids |-> Never] /\ doubted = {}

Fresh(i) == told[i] = Never \/ i \in doubted \/ told[i] + Again =< clock

Tell(i) ==
    /\ Fresh(i)
    /\ told' = [told EXCEPT ![i] = clock]
    /\ doubted' \in {doubted, doubted \ {i}, doubted \cup {i}}
    /\ UNCHANGED clock

\* The answer was lost, or the helper stopped before it could note it.
Doubt(ids) == doubted' = doubted \cup ids /\ UNCHANGED <<clock, told>>

Pass == clock' = clock + 1 /\ UNCHANGED <<told, doubted>>

Next == (\E i \in Ids : Tell(i)) \/ (\E ids \in SUBSET Ids : Doubt(ids)) \/ Pass

Spec == Init /\ [][Next]_vars
=============================================================================
