SPECIFICATION Spec
CHECK_DEADLOCK FALSE
CONSTANTS
    Requests <- MCRequests
    Subjects <- MCSubjects
    MaxChanges = 2
    Checks = 5
    Images = Images
    None = None
INVARIANTS NamedAsOnCard JobsAreAsSaid
PROPERTY ActionEnds
