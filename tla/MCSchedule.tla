---------------------------- MODULE MCSchedule ----------------------------
(***************************************************************************)
(* Schedule for TLC: the jobs and the request slots are interchangeable.   *)
(***************************************************************************)
EXTENDS Schedule, TLC

Symmetry == Permutations(Jobs) \cup Permutations(Slots)
=============================================================================
