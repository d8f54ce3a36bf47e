\* Two calls of one user who can pay for two periods, two overlapping sweeps that
\* are late, fail once and may die.
CONSTANTS
    u1 = u1
    Users = {u1}
    Calls = {c1, c2}
    Jobs = {j1, j2}
    Caller <- MCCaller
    Nobody = Nobody
    Price = 2
    Period = 5
    Lookahead = 1
    Grace = 4
    RetryAfter = 1
    Never <- MCNever
    Funds <- Rich
    MaxDowntime = 2
    Horizon = 11
    MaxFaults = 1
SYMMETRY Symmetry
SPECIFICATION Spec
INVARIANTS TimeIsPaidFor NotLost ExpiredMeansOver
