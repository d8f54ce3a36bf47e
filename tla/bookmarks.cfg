\* Two taps on one spot, one job handed over twice, as many deaths as a job has attempts.
CONSTANTS
    Taps = {t1, t2}
    Spots = {s1}
    Nothing = Nothing
    MaxRetry = 1
    MaxRefusals = 1
    MaxDuplicates = 1
    MaxDeaths = 2
SPECIFICATION FairBookmarks
CHECK_DEADLOCK FALSE
INVARIANT SummaryIsKept
PROPERTY SummarySettles
