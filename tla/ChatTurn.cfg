SPECIFICATION FairSpec
CONSTANTS
    MaxActionsPerReply = 2
    MaxSteps = 1
    InboxCap = 1
    NumProposals = 3
    MaxMessages = 2
    MaxSeq = 2
INVARIANTS OnlyApprovedRuns LastStopVoidsLaterAnswers CardsAreSettled
PROPERTIES SettledForGood ReplyEnds ApprovedInTimeRuns
