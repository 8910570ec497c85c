SPECIFICATION Spec
CHECK_DEADLOCK FALSE
CONSTANTS
    Subscribers = {"disk", "scrub", "rollup", "push"}
    Buffer = 2
    Window <- MCWindow
    Retention = 2
    MaxTime = 3
    MaxRows = 6
    Budgets <- MCBudgets
    Uuids = {u1, u2}
    AlertForms <- MCForms
    Pools = {tank}
    AuditIds = {a1, a2}
    Entries <- MCEntries
    None = None
    FreshFor = 1
    DownAfter = 1
    Threshold = 2
    Lookback = 2
    ListLimit = 2
    QueueDepth = 1
    Again = 2
    Never = Never
    Day = 2
    PrefChoices <- MCPrefs
    Reports <- MCReports
INVARIANTS StoreIsSound AuditRowsAreWhole ParentsAreLinked
PROPERTIES OncePerWindow AlertsAreRecorded CriticalIsTold
