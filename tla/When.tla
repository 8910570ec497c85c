-------------------------------- MODULE When --------------------------------
(***************************************************************************)
(* When a job runs next (internal/schedule/when.go).  An instant is a      *)
(* number on a line; a zone turns it into a local time, which is again a   *)
(* number, of DayLength to the day, by an offset that changes once: its    *)
(* clocks go forward or back.  The scheduler walks from one run to the     *)
(* next, and asks from any instant when a job is booked, edited, resumed   *)
(* or released.                                                            *)
(***************************************************************************)
EXTENDS Integers, Sequences

CONSTANTS
    DayLength,   \* 24 hours
    WeekLength,  \* 7 days
    MonthStarts, \* the first day of each month, in order
    Zones,       \* [before, after, change]
    From, Until  \* bounds on the instants

ASSUME WhenConstants ==
    /\ DayLength \in Nat \ {0} /\ WeekLength \in Nat \ {0} /\ From \in Nat /\ Until \in Nat

\* The calendar goes from before the first day to after the last.
ASSUME CalendarAssumption ==
    /\ MonthStarts \in Seq(Int) /\ Len(MonthStarts) > 1
    /\ \A m, n \in DOMAIN MonthStarts : m < n => MonthStarts[m] < MonthStarts[n]
    /\ MonthStarts[1] < From \div DayLength /\ Until \div DayLength + 1 < MonthStarts[Len(MonthStarts)]

\* No zone is more than a day off, no clock goes by half a day, and where it
\* goes back the times that come twice are of one day.
ASSUME ZonesAssumption ==
    \A z \in Zones :
        /\ z.before \in -DayLength..DayLength /\ z.after \in -DayLength..DayLength /\ z.change \in Int
        /\ 2 * (z.after - z.before) < DayLength /\ 2 * (z.before - z.after) < DayLength
        /\ z.after < z.before =>
              (z.change + z.after) \div DayLength = (z.change + z.before - 1) \div DayLength

VARIABLES
    zone, when, \* what a job was booked with
    now         \* an instant it is asked from, or its last run

whenVars == <<zone, when, now>>

Months == 1..(Len(MonthStarts) - 1)
Clocks == 0..(DayLength - 1)

\* Validate: a day of the month that every month has.
AnyDay == 1..(MonthStarts[2] - MonthStarts[1])
ValidDays == {d \in AnyDay : \A m \in Months : d =< MonthStarts[m + 1] - MonthStarts[m]}

Whens ==
    [repeat : {"once"}, clock : Clocks, date : {(From + Until) \div (2 * DayLength)}]
    \cup [repeat : {"daily"}, clock : Clocks]
    \cup [repeat : {"weekly"}, clock : Clocks, weekday : 0..(WeekLength - 1)]
    \cup [repeat : {"monthly"}, clock : Clocks, day : ValidDays]

WhenInit == zone \in Zones /\ when \in Whens /\ now \in From..Until
-----------------------------------------------------------------------------
\* Time.In, and the day it is then.
OffsetAt(t) == IF t < zone.change THEN zone.before ELSE zone.after
Local(t) == t + OffsetAt(t)
DayOf(t) == Local(t) \div DayLength
WeekdayOf(day) == day % WeekLength
MonthOf(day) == CHOOSE m \in DOMAIN MonthStarts :
    MonthStarts[m] =< day /\ \A n \in DOMAIN MonthStarts : n > m => day < MonthStarts[n]

\* time.Date: it looks up the offset as if the local time were an instant,
\* and once more if that was on the other side of a change.
Date(local) ==
    IF OffsetAt(local) = 0 THEN local ELSE local - OffsetAt(local - OffsetAt(local))

\* What the clock shows at t, counted from the start of the day it is for.
Shown(t, day) ==
    LET noon == Date(day * DayLength + DayLength \div 2) IN
    (Local(t) % DayLength) + (IF DayOf(t) = DayOf(noon) THEN 0 ELSE IF t < noon THEN -DayLength ELSE DayLength)

\* A time the clocks skip is moved on by the gap.
AsDated(day) == Date(day * DayLength + when.clock)
At(day) ==
    LET t == AsDated(day) IN
    IF Shown(t, day) < when.clock THEN t + (when.clock - Shown(t, day)) ELSE t

NotBefore(t, from) == t >= from
After(t, from) == t > from
FirstOf(day, later, from) == IF After(At(day), from) THEN At(day) ELSE At(later)

\* Next; NoRun for a one-off whose time has passed.
NoRun == -1
NextDaily(from) == FirstOf(DayOf(from), DayOf(from) + 1, from)
NextWeekly(from) ==
    LET day == DayOf(from) + ((when.weekday - WeekdayOf(DayOf(from))) % WeekLength) IN
    FirstOf(day, day + WeekLength, from)
NextMonthly(from) ==
    LET m == MonthOf(DayOf(from))  DayIn(n) == MonthStarts[n] + when.day - 1 IN
    FirstOf(DayIn(m), DayIn(m + 1), from)
\* time.ParseInLocation gives a one-off's date as time.Date's midnight, and its
\* run is of the day that midnight is of.
OnceDay == DayOf(Date(when.date * DayLength))
NextOnce(from) == IF After(At(OnceDay), from) THEN At(OnceDay) ELSE NoRun
NextRun(from) ==
    CASE when.repeat = "once"    -> NextOnce(from)
      [] when.repeat = "daily"   -> NextDaily(from)
      [] when.repeat = "weekly"  -> NextWeekly(from)
      [] when.repeat = "monthly" -> NextMonthly(from)

\* The job runs, and its next run is booked from then.
Runs ==
    /\ NextRun(now) \in From..Until
    /\ now' = NextRun(now)
    /\ UNCHANGED <<zone, when>>

WhenSpec == WhenInit /\ [][Runs]_whenVars
-----------------------------------------------------------------------------
(***************************************************************************)
(* What a booking says, apart from how the code finds it: its days.        *)
(***************************************************************************)
Days == (From \div DayLength - 1)..(Until \div DayLength + 1)
Booked(day) ==
    CASE when.repeat = "once"    -> day = when.date
      [] when.repeat = "daily"   -> TRUE
      [] when.repeat = "weekly"  -> WeekdayOf(day) = when.weekday
      [] when.repeat = "monthly" -> day - MonthStarts[MonthOf(day)] + 1 = when.day

ToCome == {At(day) : day \in {d \in Days : Booked(d)}}
Skipped(day) == day * DayLength + when.clock \in (zone.change + zone.before)..(zone.change + zone.after - 1)
PastMidnight(day) == DayOf(At(day)) # day

\* The clocks skip the midnight of a one-off's day.
NoMidnight ==
    when.repeat = "once" /\ when.date * DayLength \in (zone.change + zone.before)..(zone.change + zone.after - 1)

\* "Next is the first run after `after`, and false for a one-off whose time
\* has passed" (when.go:111), from whatever instant it is asked, across
\* changes of the clocks and the ends of months, but for two times the clocks
\* skip.  A run skipped to after midnight Next passes over, asked between
\* midnight and then.  And a one-off of a day whose midnight is skipped may
\* be run a day early, or be past by then: west of Greenwich time.Date's
\* midnight is of the day before (when.go:145).
NextIsFirst ==
    /\ NextRun(now) \in From..Until =>
        /\ NextRun(now) > now
        /\ NextRun(now) \in ToCome \/ (NoMidnight /\ NextRun(now) = At(when.date - 1))
        /\ \A day \in Days :
              (Booked(day) /\ now < At(day) /\ At(day) < NextRun(now)) =>
                  PastMidnight(day) /\ DayOf(now) > day
    /\ (when.repeat = "once" /\ NextRun(now) = NoRun) => (At(when.date) =< now \/ NoMidnight)

\* Walking from run to run, as the schedule does, no day is left out and none
\* has two runs: the run after a day's is that of the next day booked.
NoDayMissed ==
    [][\A day \in Days : (Booked(day) /\ now = At(day)) =>
          /\ \E next \in Days : Booked(next) /\ next > day /\ now' = At(next)
                /\ \A d \in (day + 1)..(next - 1) : ~Booked(d)
          /\ \A d \in Days : (Booked(d) /\ d # day) => At(d) # now]_whenVars

\* A run is at the time of day booked; where the clocks skip that, as long
\* after it as they skip.
Gap == zone.after - zone.before
RunsOnTime ==
    \A day \in Days : At(day) \in From..Until =>
        Local(At(day)) = day * DayLength + when.clock + (IF Skipped(day) THEN Gap ELSE 0)
=============================================================================
