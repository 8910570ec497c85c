SPECIFICATION FairSpec
CONSTANTS
    Jobs = {j1}
    Slots = {s1}
    NoJob = NoJob
    NoOne = NoOne
    Sched = Sched
    MaxJobs = 1
    Period = 2
    LateBy = 0
    OnceAt = {2}
    MaxTime = 3
    MaxRequests = 2
    MaxCrashes = 1
CHECK_DEADLOCK FALSE
PROPERTIES DueIsTaken RunningEnds HeldIsLifted
