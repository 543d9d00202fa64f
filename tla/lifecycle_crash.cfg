\* Two discs, two drives: deaths and restarts at any step.
CONSTANTS
    Jobs = {j1, j2}
    Drives = {d1, d2}
    Workers = {w1}
    Calls = {}
    Faults = TRUE
    AutoEject = TRUE
    NoJob = NoJob
    NoDrive = NoDrive

SPECIFICATION Spec
\* The discs run out.
CHECK_DEADLOCK FALSE
SYMMETRY Symmetry

INVARIANTS
    TypeOK
    DriveExclusive
    HandoffAgrees
    DoneReleased
    DoneSettled

PROPERTIES
    AllocatesDrives
