\* Two requests for a code against a limit of one, three attempts with one guess each.
CONSTANTS
    Requests = {r1, r2}
    Attempts = {a1, a2, a3}
    Limit <- OneAndTwo
    MaxAttempts = 1
SPECIFICATION FairSpec
CHECK_DEADLOCK FALSE
INVARIANTS GuessesBounded CodeLogsInOnce ConsumedForALogin
PROPERTY LimitIsAWindow
