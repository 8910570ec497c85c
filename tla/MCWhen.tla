------------------------------- MODULE MCWhen -------------------------------
(***************************************************************************)
(* When for TLC: hours of two to a day of twelve, and clocks that go by    *)
(* two, forward or back, around the midnight a day begins with: as they do *)
(* in Nuuk, in Havana and Beirut, in the Azores and in New York.           *)
(***************************************************************************)
EXTENDS When
MCMonthStarts == <<0, 5, 10, 14, 17, 22, 27>>
MCZones ==
    {[before |-> b, after |-> b + g, change |-> 15 * DayLength + c - b] :
        b \in {-3, -2, 0, 2}, g \in {-2, 2}, c \in {-2, 0, 2, 4}}
=============================================================================
