\* Nothing crashes, jobs are abandoned: every drive is given back.
CONSTANTS
    Jobs = {j1, j2}
    Drives = {d1}
    Workers = {w1}
    Calls = {"abandon"}
    Faults = FALSE
    AutoEject = FALSE
    NoJob = NoJob
    NoDrive = NoDrive

SPECIFICATION FairSpec
\* The discs run out.
CHECK_DEADLOCK FALSE

INVARIANTS
    HolderAlive

PROPERTIES
    DriveFreed
