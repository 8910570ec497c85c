SPECIFICATION Spec
CONSTANTS
    Jobs = {j1}
    Slots = {s1, s2}
    NoJob = NoJob
    NoOne = NoOne
    Sched = Sched
    MaxJobs = 2
    Period = 2
    LateBy = 0
    OnceAt = {2}
    MaxTime = 3
    MaxRequests = 2
    MaxCrashes = 1
SYMMETRY Symmetry
CHECK_DEADLOCK FALSE
PROPERTY DoneIsNotEditedBack
