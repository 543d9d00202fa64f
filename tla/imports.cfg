\* One source of each kind, rows whose ids are given again, one restart.
CONSTANTS
    Folders = {f1}
    Images = {i1}
    MaxId = 2
    MaxJobs = 2
    MaxBusy = 2
    MaxRestarts = 1

SPECIFICATION Spec
\* No more jobs are created.
CHECK_DEADLOCK FALSE

INVARIANTS
    Attended
    OnePerSource
    RippedFirst
    RippedOnce
