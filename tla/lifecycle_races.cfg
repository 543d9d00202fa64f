\* One disc, two API threads, every call, any fault.
CONSTANTS
    Jobs = {j1}
    Drives = {d1}
    Workers = {w1, w2}
    Calls = {"start", "cancel", "skip", "abandon", "delete", "force", "eject"}
    Faults = TRUE
    AutoEject = FALSE
    NoJob = NoJob
    NoDrive = NoDrive

SPECIFICATION Spec
\* The discs run out.
CHECK_DEADLOCK FALSE

INVARIANTS
    HandoffAgrees
    DoneReleased
