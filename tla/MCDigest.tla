------------------------------ MODULE MCDigest ------------------------------
(***************************************************************************)
(* The weekly digest with one kind of trouble at a time: settings that     *)
(* change, a zone that changes, writes that fail, a busy week.             *)
(***************************************************************************)
EXTENDS Digest
None == [settings |-> 1, held |-> 0, nights |-> 0, zone |-> 0, faults |-> 0, restart |-> 0, events |-> 0]
Switched == [None EXCEPT !.settings = 3, !.held = 1]
Travels == [None EXCEPT !.zone = 2, !.restart = 1]
Fails == [None EXCEPT !.faults = 2, !.nights = 1, !.restart = 1]
Busy == [None EXCEPT !.events = 1]
MCBudgets == {Switched, Travels, Fails, Busy}
=============================================================================
