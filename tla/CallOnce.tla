------------------------------ MODULE CallOnce ------------------------------
(***************************************************************************)
(* What a caller of TrueNAS may rely on: a call has its effect at most     *)
(* once, only what had its effect is answered, and an error says nothing   *)
(* about whether it had.                                                   *)
(***************************************************************************)
EXTENDS Naturals

CONSTANT Callers
VARIABLES outcome, effect

Init == outcome = [c \in Callers |-> "none"] /\ effect = [c \in Callers |-> 0]

Takes(c) == effect[c] = 0 /\ effect' = [effect EXCEPT ![c] = 1] /\ UNCHANGED outcome
Answered(c) ==
    /\ outcome[c] = "none" /\ effect[c] = 1
    /\ outcome' = [outcome EXCEPT ![c] = "answer"] /\ UNCHANGED effect
Failed(c) ==
    /\ outcome[c] = "none"
    /\ outcome' = [outcome EXCEPT ![c] = "error"] /\ UNCHANGED effect

Next == \E c \in Callers : Takes(c) \/ Answered(c) \/ Failed(c)
Spec == Init /\ [][Next]_<<outcome, effect>>
=============================================================================
