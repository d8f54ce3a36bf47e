\* A book of two parts, one narrated again; a sweep and an editor, a fault.
CONSTANTS
    Books = {1}
    Parts = {1, 2}
    MaxVersion = 2
    Sweeps = {s1}
    Editors = {e1}
    Batch = 1
    Broken = {}
    MaxFaults = 1
SPECIFICATION FairSpec
CHECK_DEADLOCK FALSE
INVARIANT FileMatchesChapters
PROPERTIES  NarrationArrives
