\* The log ends at MaxEvents, a bound of the model.
CHECK_DEADLOCK FALSE
SPECIFICATION MCSpec
CONSTANTS
    None = None
    Sessions = {s1}
    Requests = {r1, r2}
    PageLimit = 1
    MessageLimit = 1
    MaxEvents = 5
    SnapshotReads = TRUE
    Fetches = {f1}
    ViewSize = 2
    MaxReports = 3
SYMMETRY RequestSymmetry
INVARIANTS
    GapsExplained
    AnswersComplete
    ReadIsTold
    PagesJoin
PROPERTIES
    NewEventsAhead
