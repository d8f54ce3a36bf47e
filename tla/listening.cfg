\* Two players of the parent and one of the child, two reports, a fault.
CONSTANTS
    Players = {p1, p2, k1}
    Children = {k1}
    Drifts = {0, 1, 3, NoClock}
    NoClock = NoClock
    Skew = 1
    Seconds = {0, 2}
    MaxReport = 1
    Slots = 2
    MaxNow = 2
    MaxReports = 2
    MaxFaults = 1
SPECIFICATION ListeningSpec
CHECK_DEADLOCK FALSE
INVARIANTS PositionIsCurrent HoursFollowListening StreaksFollowTheRule
