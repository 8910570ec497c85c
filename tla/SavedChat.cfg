SPECIFICATION SavedSpec
CONSTANTS
    Chats = {c1, c2}
    Briefing = briefing
    Keep = 1
    MaxConversations = 2
    Limits <- MCLimits
SYMMETRY Interchangeable
CHECK_DEADLOCK FALSE
INVARIANTS StoreIsWhole ActionsAreTold ReopensAsItWas
