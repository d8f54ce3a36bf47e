\* A submission and one retry; one job is handed over twice, an attempt is run again
\* once, and two things die or fail unrecorded: enough for every attempt of a task.
CONSTANTS
    First = first
    Retries = {c1}
    MaxRetry = 1
    MaxRefusals = 1
    MaxDuplicates = 1
    MaxFaults = 2
SPECIFICATION FairSubmission
CHECK_DEADLOCK FALSE
INVARIANT HandoffIsComplete
PROPERTY SubmissionSettles
