SPECIFICATION FairSpec
CONSTANTS
    MaxJobs = 2
    MaxActions = 1
    Newest = 1
    MaxRestarts = 1
INVARIANTS RunningIsKept EndsRecordedOnce
PROPERTY EndsAreReached
