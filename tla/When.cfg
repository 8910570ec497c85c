SPECIFICATION WhenSpec
CONSTANTS
    DayLength = 12
    WeekLength = 3
    MonthStarts <- MCMonthStarts
    Zones <- MCZones
    From = 155
    Until = 225
CHECK_DEADLOCK FALSE
INVARIANTS NextIsFirst RunsOnTime
PROPERTY NoDayMissed
