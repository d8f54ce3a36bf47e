\* A child's player with one request under way at a time, and the parent who edits.
CONSTANTS
    Players = {k1}
    Children = {k1}
    Drifts = {0}
    NoClock = NoClock
    Skew = 1
    Seconds = {1}
    MaxReport = 1
    Slots = 4
    MaxNow = 3
    MaxReports = 1
    MaxFaults = 0
    Editions <- Catalogue
    ControlSets <- Settings
    DefaultLimit = 1
    DefaultFrom = 0
    DefaultTo = 3
    ChildAges = {9}
    KidsFriendly = TRUE
    MonthlyHourCap = 1
    TTL = 1
    Kbps = 48
    Whole = 14400000
    Ranges <- Headers
    NoRow = NoRow
    MaxEdits = 1
SPECIFICATION Spec
CHECK_DEADLOCK FALSE
INVARIANTS UrlEndsWithAccess ChildUrlEndsWithTheRules PreviewIsAPrefix
