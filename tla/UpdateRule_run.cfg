SPECIFICATION FairSpec
CONSTANTS
    Apps = {a1, a2}
    NotSeen = NotSeen
    RunningFor = 1
    Settle = 1
CHECK_DEADLOCK FALSE
INVARIANTS NoRollbackUnderUpdate SaysWhatItDid PauseIsHeeded
PROPERTY RunEnds
