SPECIFICATION Spec
CONSTANTS
    Week = 8
    MinGap = 6
    LateBy = 2
    Reach = 11
    Zones = {0, 1}
    Keep = 2
    MaxTime = 17
    Budgets <- MCBudgets
CHECK_DEADLOCK FALSE
INVARIANTS OneAWeek NothingTwice
PROPERTY KeptIsAnnounced
